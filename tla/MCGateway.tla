----------------------------- MODULE MCGateway -----------------------------
EXTENDS Gateway, TLC
Base == [http |-> "ok", pieces |-> 1, path |-> "completions", body |-> TRUE, prompt |-> TRUE, params |-> TRUE,
         model |-> "m", stream |-> FALSE, usage |-> FALSE, json |-> FALSE, echo |-> FALSE,
         seed |-> TRUE, stops |-> {}, tokens |-> {<<"a">>}, max |-> 1]
\* One model file, the same name again, a remote model, and one too many.
MCPaths == <<[name |-> "m", remote |-> FALSE], [name |-> "m", remote |-> TRUE],
             [name |-> "r", remote |-> TRUE], [name |-> "x", remote |-> FALSE]>>
\* The last one fills the tail to its end.
MCTokens == {<<"a">>, <<"b", "a">>, <<"a", "b">>, <<"b", "b", "b", "a", "a">>}
Stops == {<<"a", "b">>, <<"a", "a", "b">>}
Braces == {<<"a", "{">>, <<"quote", "}", "quote">>, <<"}", "a">>}
CONSTANTS c1, c2
\* A remote payload's slice longer than the tail, with a stop at its end.
LongSlice == [Base EXCEPT !.model = "r", !.stops = {<<"b">>},
                          !.tokens = {<<"a", "a", "a", "a", "a", "a", "b">>}]
\* Requests of which one at a time is enough.
Alone ==
    {[Base EXCEPT !.http = h] : h \in {"malformed", "unsupported", "nomem"}} \cup
    {[Base EXCEPT !.path = p] : p \in {"healthz", "models", "unknown", "method"}} \cup
    {[Base EXCEPT !.body = FALSE], [Base EXCEPT !.model = "x", !.pieces = 2],
     [Base EXCEPT !.params = FALSE], [Base EXCEPT !.prompt = FALSE], [Base EXCEPT !.usage = TRUE],
     [Base EXCEPT !.json = TRUE, !.stream = TRUE],
     [Base EXCEPT !.stops = Stops, !.tokens = MCTokens, !.max = 3],
     [Base EXCEPT !.path = "chat", !.json = TRUE, !.tokens = Braces, !.max = 3],
     [Base EXCEPT !.json = TRUE, !.echo = TRUE, !.tokens = {<<"{", "a", "}">>}], [Base EXCEPT !.model = "", !.echo = TRUE],
     [Base EXCEPT !.model = "r", !.stream = TRUE, !.stops = {<<"b">>},
                  !.tokens = {<<"a">>, <<"b">>}, !.max = 2],
     [Base EXCEPT !.stream = TRUE, !.usage = TRUE, !.echo = TRUE],
     LongSlice, [Base EXCEPT !.model = "r"], [Base EXCEPT !.path = "embeddings", !.model = "r"]}
\* Requests that contend for the local model.
Contending ==
    {[Base EXCEPT !.seed = FALSE], [Base EXCEPT !.path = "embeddings"],
     [Base EXCEPT !.path = "chat", !.stream = TRUE, !.max = 2]}
MCRequests == c1 :> (Alone \cup Contending) @@ c2 :> Contending
=============================================================================
