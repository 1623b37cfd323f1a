------------------------------ MODULE Gateway ------------------------------
(***************************************************************************)
(* The OpenAI gateway: one thread per HTTP connection (src/gateway/http.c) *)
(* running the request handlers of src/gateway/gateway.c over the shared   *)
(* model entries, down to the token loop of a local session                *)
(* (src/models/model.c).  A remote entry's exchange is RemotePool's; here  *)
(* it delivers tokens and ends well or badly.                              *)
(*                                                                         *)
(* A request is a record of what the handlers test, with the number of     *)
(* receives it takes and the texts its tokens may decode to; text is a     *)
(* sequence of letters, and wire[t] is the sequence of things sent to the  *)
(* client.                                                                 *)
(***************************************************************************)
EXTENDS Integers, Sequences, FiniteSets, SequencesExt

CONSTANTS
    Conns,        \* connections, each with its thread
    Paths,        \* what the command line registers: <<[name, remote], ..>>
    MaxModels,    \* PAI_GW_MAX_MODELS
    Requests,     \* requests each client may send
    StopMaxLen,   \* GW_STOP_MAX_LEN
    TokenMaxLen,  \* longest token of a local tokenizer (255); remote ones are longer
    NoOne
ASSUME SizesAssumption ==
    StopMaxLen \in Nat /\ TokenMaxLen \in Nat
\* A request takes at least one receive; parsed whole, it is never incomplete.
\* An echo is kept of a completions request only.
ASSUME RequestsAssumption ==
    \A t \in Conns : \A r \in Requests[t] :
       /\ r.pieces \in Nat \ {0} /\ r.http \in {"ok", "malformed", "unsupported", "nomem"}
       /\ r.echo => r.path = "completions"
\* Text is letters; the stop sequences a request has when its parameters are
\* accepted are not empty and not longer than the parser allows.
ASSUME TextAssumption ==
    \A t \in Conns : \A r \in Requests[t] :
       /\ r.tokens \subseteq Seq(STRING)
       /\ \A s \in r.stops : s \in Seq(STRING) /\ Len(s) \in 1..StopMaxLen
ASSUME NoOneAssumption == NoOne \notin Conns

VARIABLES
    pc,       \* where the connection's thread is
    req,      \* its request
    got,      \* receives so far
    ctx,      \* gw_gen_ctx_t and the locals of the handler
    wire,     \* what the client was sent
    peer,     \* "reads" or "gone"
    entry,    \* the model entries: how far opened, broken, the session
    lock,     \* owner of each entry's mutex
    gw_seq,      \* registry-wide response counter
    seqLock   \* owner of seq_lock
vars == <<pc, req, got, ctx, wire, peer, entry, lock, gw_seq, seqLock>>
-----------------------------------------------------------------------------
(* Registry, built before the server runs.                                 *)
pai_gw_add(models, p) ==
    IF Len(models) >= MaxModels \/ \E i \in DOMAIN models : models[i].name = p.name
    THEN models ELSE Append(models, p)
Models == FoldLeft(pai_gw_add, <<>>, Paths)
Names == {Models[i].name : i \in DOMAIN Models}
Remote(e) == \E i \in DOMAIN Models : Models[i] = [name |-> e, remote |-> TRUE]
\* No model in the request: the first one serves it.
find_entry(r) == IF r.model = "" /\ Models # <<>> THEN Models[1].name ELSE r.model

NoCtx == [id |-> 0, failed |-> FALSE, stop |-> 0, out |-> <<>>, tail |-> <<>>,
          toks |-> <<>>, steps |-> 0, st |-> "ok"]
Init ==
    /\ pc = [t \in Conns |-> "idle"]
    /\ req \in {r \in [Conns -> UNION {Requests[t] : t \in Conns}] :
                  \A t \in Conns : r[t] \in Requests[t]}
    /\ got = [t \in Conns |-> 0] /\ ctx = [t \in Conns |-> NoCtx]
    /\ wire = [t \in Conns |-> <<>>] /\ peer = [t \in Conns |-> "reads"]
    /\ entry = [e \in Names |-> [opened |-> 0, broken |-> FALSE, sampler |-> NoOne,
                                 cancelled |-> FALSE, generated |-> 0]]
    /\ lock = [e \in Names |-> NoOne] /\ gw_seq = 0 /\ seqLock = NoOne

At(t, l) == pc[t] = l
Go(t, l) == pc' = [pc EXCEPT ![t] = l]
\* The handler returns; its locals are gone.
Return(t) == Go(t, "end") /\ ctx' = [ctx EXCEPT ![t] = NoCtx]
E(t) == find_entry(req[t])
\* pai_http_resp_write: nothing reaches a client that is gone.
Send(t, what) == wire' = [wire EXCEPT ![t] = IF peer[t] = "gone" THEN @ ELSE @ \o what]
StatusLine(status, chunked) == [k |-> "head", status |-> status, chunked |-> chunked]
Ev(k) == [k |-> k]
\* send_raw and send_error: head, body and end of a reply that is not chunked.
Whole(status, body) == <<StatusLine(status, FALSE), body>>
send_error(t, status) == Send(t, Whole(status, Ev("error")))
Unlocked(t) == lock' = [lock EXCEPT ![E(t)] = NoOne]
-----------------------------------------------------------------------------
(* http.c                                                                  *)
pai_http_server_run(t) ==
    /\ At(t, "idle")
    /\ Go(t, "recv") \/ Go(t, "closed")            \* no memory, no thread
    /\ UNCHANGED <<req, got, ctx, wire, peer, entry, lock, gw_seq, seqLock>>

pai_http_parse_request(r, n) == IF n < r.pieces THEN "incomplete" ELSE r.http
Refusal(st) == CASE st = "unsupported" -> 501 [] st = "nomem" -> 413 [] OTHER -> 400
Recv(t) ==
    /\ At(t, "recv")
    /\ \/ /\ Go(t, "closed") /\ UNCHANGED <<got, wire>>   \* end, timeout, no memory
       \/ /\ got' = [got EXCEPT ![t] = @ + 1]
          /\ LET st == pai_http_parse_request(req[t], got[t] + 1) IN
             CASE st = "incomplete" -> Go(t, "recv") /\ UNCHANGED wire
               [] st = "ok" -> Go(t, "route") /\ UNCHANGED wire
               [] OTHER -> Go(t, "closed") /\ send_error(t, Refusal(st))
    /\ UNCHANGED <<req, ctx, peer, entry, lock, gw_seq, seqLock>>

\* After the handler the thread ends the response, once more if the handler
\* has ended it, and closes the socket.
Chunked(t) == wire[t] # <<>> /\ wire[t][1] = StatusLine(200, TRUE)
gw_conn_thread_end(t) ==
    /\ At(t, "end") /\ Go(t, "closed")
    /\ Send(t, IF Chunked(t) THEN <<Ev("end")>> ELSE <<>>)
    /\ UNCHANGED <<req, got, ctx, peer, entry, lock, gw_seq, seqLock>>

PeerGone(t) ==
    /\ peer[t] = "reads" /\ pc[t] \notin {"idle", "closed"}
    /\ peer' = [peer EXCEPT ![t] = "gone"]
    /\ UNCHANGED <<pc, req, got, ctx, wire, entry, lock, gw_seq, seqLock>>
-----------------------------------------------------------------------------
(* Dispatch and the checks before any lock.                                *)
Generates(r) == r.path \in {"completions", "chat"}
\* Generation parameters that are refused: sampling values, stop sequences or
\* a response format out of range, stream_options without stream, and
\* json_object with stream.
BadParams(r) == ~r.params \/ (r.usage /\ ~r.stream) \/ (r.json /\ r.stream)
\* What the handlers refuse without looking at the entry: a body that is
\* missing, not JSON or not an object, an unknown model, no usable prompt,
\* messages or input, bad parameters.
handle_checks(r) ==
    CASE ~r.body -> 400
      [] find_entry(r) \notin Names -> 404
      [] ~r.prompt -> 400
      [] Generates(r) /\ BadParams(r) -> 400
      [] OTHER -> 0
handle_models == [k |-> "models", broken |-> {e \in Names : entry[e].broken}]
pai_gw_handle_request(t) ==
    /\ At(t, "route")
    /\ LET r == req[t] IN
       CASE r.path = "healthz" -> Send(t, Whole(200, Ev("body"))) /\ Return(t)
         [] r.path = "models" -> Send(t, Whole(200, handle_models)) /\ Return(t)
         [] r.path = "unknown" -> send_error(t, 404) /\ Return(t)
         [] r.path = "method" -> send_error(t, 405) /\ Return(t)
         [] OTHER -> IF handle_checks(r) # 0
                     THEN send_error(t, handle_checks(r)) /\ Return(t)
                     ELSE /\ Go(t, IF Generates(r) THEN "seq" ELSE "lock")
                          /\ UNCHANGED <<ctx, wire>>
    /\ UNCHANGED <<req, got, peer, entry, lock, gw_seq, seqLock>>

\* seq = gw->seq++ under seq_lock.
SeqLock_free(t) == TRUE                                        \* mutant
SeqLock(t) == seqLock = NoOne
SeqRead(t) ==
    /\ At(t, "seq") /\ SeqLock(t)
    /\ seqLock' = t /\ ctx' = [ctx EXCEPT ![t].id = gw_seq] /\ Go(t, "seq_write")
    /\ UNCHANGED <<req, got, wire, peer, entry, lock, gw_seq>>
SeqWrite(t) ==
    /\ At(t, "seq_write")
    /\ gw_seq' = ctx[t].id + 1 /\ seqLock' = NoOne /\ Go(t, "lock")
    /\ UNCHANGED <<req, got, ctx, wire, peer, entry, lock>>

Lock_shared(t) ==                                             \* mutant
    /\ At(t, "lock")
    /\ lock' = [lock EXCEPT ![E(t)] = t] /\ Go(t, "ready")
    /\ UNCHANGED <<req, got, ctx, wire, peer, entry, gw_seq, seqLock>>
Lock(t) ==
    /\ At(t, "lock") /\ lock[E(t)] = NoOne
    /\ lock' = [lock EXCEPT ![E(t)] = t] /\ Go(t, "ready")
    /\ UNCHANGED <<req, got, ctx, wire, peer, entry, gw_seq, seqLock>>
-----------------------------------------------------------------------------
(* Under the entry's lock.                                                 *)
\* opened: 0 nothing, 1 the model, 2 the session (or the remote pool).  A
\* failure of any part breaks the entry for good.
ensure_ready(e, o, b) ==
    IF entry[e].broken THEN o = entry[e].opened /\ b
    ELSE \/ o = 2 /\ ~b
         \/ b /\ entry[e].opened < 2 /\ o \in entry[e].opened..(IF Remote(e) THEN 0 ELSE 1)
EnsureReady(t) ==
    /\ At(t, "ready")
    /\ \E o \in 0..2, b \in BOOLEAN :
          /\ ensure_ready(E(t), o, b)
          /\ entry' = [entry EXCEPT ![E(t)].opened = o, ![E(t)].broken = b]
          /\ \/ b /\ Unlocked(t) /\ send_error(t, 500) /\ Return(t)
             \/ ~b /\ Generates(req[t]) /\ Go(t, "apply") /\ UNCHANGED <<ctx, lock, wire>>
             \/ ~b /\ ~Generates(req[t]) /\ Go(t, "embed") /\ UNCHANGED <<ctx, lock, wire>>
    /\ UNCHANGED <<req, got, peer, gw_seq, seqLock>>

\* The session's sampler and cap are this request's from here on.  A seed out
\* of range is found only now; otherwise a stream begins.
StreamBegins(t) ==
    <<StatusLine(200, TRUE)>> \o (IF req[t].path = "chat" THEN <<Ev("role")>> ELSE <<>>)
                              \o (IF req[t].echo THEN <<Ev("echo")>> ELSE <<>>)
Apply_keeps_lock(t) ==                                        \* mutant
    /\ At(t, "apply")
    /\ entry' = [entry EXCEPT ![E(t)].sampler = IF Remote(E(t)) THEN @ ELSE t]
    /\ IF req[t].seed
       THEN /\ Send(t, IF req[t].stream THEN StreamBegins(t) ELSE <<>>)
            /\ Go(t, "generate") /\ UNCHANGED ctx
       ELSE send_error(t, 400) /\ Return(t)
    /\ UNCHANGED <<req, got, peer, lock, gw_seq, seqLock>>
Apply(t) ==
    /\ At(t, "apply")
    /\ entry' = [entry EXCEPT ![E(t)].sampler = IF Remote(E(t)) THEN @ ELSE t]
    /\ IF req[t].seed
       THEN /\ Send(t, IF req[t].stream THEN StreamBegins(t) ELSE <<>>)
            /\ ctx' = [ctx EXCEPT ![t].failed =
                           req[t].stream /\ req[t].echo /\ peer[t] = "gone"]
            /\ Go(t, "generate") /\ UNCHANGED lock
       ELSE Unlocked(t) /\ send_error(t, 400) /\ Return(t)
    /\ UNCHANGED <<req, got, peer, gw_seq, seqLock>>

\* A prompt that cannot be encoded is refused before the session is reset.
pai_session_generate(t) ==
    /\ At(t, "generate")
    /\ \/ Go(t, "loop") /\ UNCHANGED ctx
          /\ entry' = [entry EXCEPT ![E(t)].generated = IF Remote(E(t)) THEN @ ELSE 0,
                                    ![E(t)].cancelled = FALSE]
       \/ /\ ~Remote(E(t)) /\ Go(t, "finish")
          /\ \E st \in {"mismatch", "failed"} : ctx' = [ctx EXCEPT ![t].st = st]
          /\ UNCHANGED entry
    /\ UNCHANGED <<req, got, wire, peer, lock, gw_seq, seqLock>>

GW_TAIL_MAX == StopMaxLen + TokenMaxLen + 1
\* The rolling suffix of the text, cut so that the token fits; of a token that
\* is too long by itself only the beginning is taken.
TailWith_reset(tail, tok) ==                                      \* mutant
    IF Len(tail) + Len(tok) >= GW_TAIL_MAX THEN tok ELSE tail \o tok
TailWith(tail, tok) ==
    LET tl   == IF Len(tok) > GW_TAIL_MAX - 1 THEN GW_TAIL_MAX - 1 ELSE Len(tok)
        keep == GW_TAIL_MAX - 1 - tl
        kept == IF Len(tail) + tl >= GW_TAIL_MAX /\ Len(tail) > keep
                THEN SubSeq(tail, Len(tail) - keep + 1, Len(tail)) ELSE tail
    IN  kept \o SubSeq(tok, 1, tl)
\* Length of the longest stop sequence the text ends with, or 0.
StopLen(stops, text) ==
    LET hits == {Len(s) : s \in {s \in stops : IsSuffix(s, text)}}
    IN  IF hits = {} THEN 0 ELSE CHOOSE n \in hits : \A m \in hits : m <= n

\* The context after gen_on_token; room: the reply's buffer could grow.
gen_on_token(t, tok, room) ==
    LET c    == ctx[t]
        r    == req[t]
        lost == IF r.stream THEN peer[t] = "gone" ELSE ~room
        tail == IF r.stops = {} THEN c.tail ELSE TailWith(c.tail, tok)
        n    == StopLen(r.stops, tail)
        out  == IF r.stream THEN c.out ELSE c.out \o tok
    IN  IF c.failed \/ c.stop > 0 THEN c
        ELSE IF lost THEN [c EXCEPT !.failed = TRUE]
        ELSE [c EXCEPT !.tail = tail, !.stop = n,
                       !.out = IF r.stream \/ Len(out) < n THEN out
                               ELSE SubSeq(out, 1, Len(out) - n)]

\* One turn of the token loop, with its callback.
Token(t) ==
    /\ At(t, "loop") /\ ctx[t].steps < req[t].max
    /\ \E tok \in req[t].tokens, room \in {TRUE, req[t].stream} :
       LET c == gen_on_token(t, tok, room)
           cancel == ~Remote(E(t)) /\ c.stop > 0
       IN  /\ ctx' = [ctx EXCEPT ![t] = [c EXCEPT !.steps = @ + 1, !.toks = IF c.failed THEN <<>> ELSE Append(@, tok)]]
           /\ entry' = [entry EXCEPT ![E(t)].generated = IF Remote(E(t)) THEN @ ELSE @ + 1,
                                     ![E(t)].cancelled = @ \/ cancel]
           /\ Send(t, IF req[t].stream /\ ~ctx[t].failed /\ ctx[t].stop = 0
                      THEN <<Ev("token")>> ELSE <<>>)
           /\ Go(t, IF entry'[E(t)].cancelled THEN "finish" ELSE "loop")
    /\ UNCHANGED <<req, got, peer, lock, gw_seq, seqLock>>

\* The loop ends at the cap, at an end token or a full context, or because a
\* step failed: a token outside the vocabulary, the graph, the remote side.
GenerateEnds(t) ==
    /\ At(t, "loop") /\ Go(t, "finish")
    /\ \E st \in {"ok", "mismatch", "failed"} : ctx' = [ctx EXCEPT ![t].st = st]
    /\ UNCHANGED <<req, got, wire, peer, entry, lock, gw_seq, seqLock>>
-----------------------------------------------------------------------------
(* The reply, under the lock unless the handler gives it up first.         *)
Generated(t) == IF Remote(E(t)) THEN ctx[t].steps ELSE entry[E(t)].generated
Reason(t, n) == IF ctx[t].stop > 0 THEN "stop" ELSE IF n >= req[t].max THEN "length" ELSE "stop"
\* The scan for a JSON object ends at the first closing brace that leaves none
\* open and keeps what begins at the first opening one; a closing brace with
\* none before it keeps the text from its start.  Letters between quotes do
\* not count; a quote that is escaped is another letter.
extract_json_object(s) ==
    LET Bare(c, i) == {j \in 1..i : s[j] = c /\ Cardinality({q \in 1..j : s[q] = "quote"}) % 2 = 0}
        ends == {i \in Bare("}", Len(s)) : Cardinality(Bare("{", i)) <= Cardinality(Bare("}", i))}
        n    == Min(ends)
    IN  IF ends = {} THEN <<>>
        ELSE SubSeq(s, IF Bare("{", n) = {} THEN 1 ELSE Min(Bare("{", n)), n)
Prompt == <<"prompt">>
\* What a whole reply shows of the text: all of it or its object, after the
\* prompt when the client asked for the echo.
Trimmed(r, text) == IF r.json THEN extract_json_object(text) ELSE text
Shown(r, text) == (IF r.echo THEN Prompt ELSE <<>>) \o Trimmed(r, text)
\* toks is not sent: it keeps the tokens the reply was made of.
Answer(t, k) == [k |-> k, id |-> ctx[t].id, reason |-> Reason(t, Generated(t)),
                 text |-> Shown(req[t], ctx[t].out), used |-> Generated(t), toks |-> ctx[t].toks]
Bad(t) == ctx[t].st # "ok" \/ ctx[t].failed

FinishStream_both(t) ==                                       \* mutant
    /\ At(t, "finish") /\ req[t].stream /\ Go(t, "unlock")
    /\ Send(t, (IF Bad(t) THEN <<Ev("sse_error")>> ELSE <<>>)
               \o <<Answer(t, "final"), Ev("done"), Ev("end")>>)
    /\ UNCHANGED <<req, got, ctx, peer, entry, lock, gw_seq, seqLock>>
FinishStream(t) ==
    /\ At(t, "finish") /\ req[t].stream /\ Go(t, "unlock")
    /\ Send(t, (IF Bad(t) THEN <<Ev("sse_error")>>
                ELSE <<Answer(t, "final")>>
                     \o (IF req[t].usage THEN <<Ev("usage")>> ELSE <<>>))
               \o <<Ev("done"), Ev("end")>>)
    /\ UNCHANGED <<req, got, ctx, peer, entry, lock, gw_seq, seqLock>>

\* json_object without an object in the text, and no memory for the echo,
\* give the lock up and then answer.
NoObject(t) == req[t].json /\ Trimmed(req[t], ctx[t].out) = <<>>
FinishWhole(t) ==
    /\ At(t, "finish") /\ ~req[t].stream
    /\ \/ /\ ~Bad(t) /\ NoObject(t) /\ Unlocked(t) /\ send_error(t, 400) /\ Return(t)
       \/ /\ ~Bad(t) /\ ~NoObject(t) /\ req[t].echo
          /\ Unlocked(t) /\ send_error(t, 500) /\ Return(t)
       \/ /\ ~Bad(t) /\ ~NoObject(t)
          /\ Send(t, Whole(200, Answer(t, "answer"))) /\ Go(t, "unlock")
          /\ UNCHANGED <<ctx, lock>>
       \/ /\ Bad(t) /\ Go(t, "unlock") /\ UNCHANGED <<ctx, lock>>
          /\ send_error(t, IF ctx[t].st = "mismatch" /\ ~Remote(E(t)) THEN 400
                           ELSE IF ctx[t].st # "ok" /\ Remote(E(t)) THEN 502 ELSE 500)
    /\ UNCHANGED <<req, got, peer, entry, gw_seq, seqLock>>

Unlock(t) ==
    /\ At(t, "unlock") /\ Unlocked(t) /\ Return(t)
    /\ UNCHANGED <<req, got, wire, peer, entry, gw_seq, seqLock>>

\* One input of an embeddings request after the other; the reply is sent
\* when the lock is free again.
handle_embeddings(t) ==
    /\ At(t, "embed")
    /\ \/ /\ ctx[t].steps < req[t].max
          /\ ctx' = [ctx EXCEPT ![t].steps = @ + 1] /\ UNCHANGED <<pc, wire, lock>>
       \/ /\ ctx[t].steps < req[t].max
          /\ \E status \in IF Remote(E(t)) THEN {400, 501, 502} ELSE {400, 500, 501} :
                send_error(t, status)
          /\ Unlocked(t) /\ Return(t)
       \/ /\ ctx[t].steps = req[t].max
          /\ Unlocked(t) /\ Go(t, "send") /\ UNCHANGED <<ctx, wire>>
    /\ UNCHANGED <<req, got, peer, entry, gw_seq, seqLock>>
EmbeddingsReply(t) ==
    /\ At(t, "send") /\ Send(t, Whole(200, Ev("body"))) /\ Return(t)
    /\ UNCHANGED <<req, got, peer, entry, lock, gw_seq, seqLock>>
-----------------------------------------------------------------------------
Thread(t) ==
    \/ pai_http_server_run(t) \/ Recv(t) \/ pai_gw_handle_request(t) \/ SeqRead(t)
    \/ SeqWrite(t) \/ Lock(t) \/ EnsureReady(t) \/ Apply(t)
    \/ pai_session_generate(t) \/ Token(t) \/ GenerateEnds(t) \/ FinishStream(t)
    \/ FinishWhole(t) \/ Unlock(t) \/ handle_embeddings(t) \/ EmbeddingsReply(t)
    \/ gw_conn_thread_end(t)
Next == \E t \in Conns : Thread(t) \/ PeerGone(t)
\* Every thread keeps running; a receive ends by data or by its timeout.
Spec == Init /\ [][Next]_vars /\ \A t \in Conns : WF_vars(Thread(t))
-----------------------------------------------------------------------------

Count(t, k) == Cardinality({i \in DOMAIN wire[t] : wire[t][i].k = k})
\* A client that stays gets one response: one head, before anything else; a
\* chunked one has its tokens, then either one error event or one normal end,
\* then [DONE] exactly once and only terminal chunks after it.  A closed
\* connection whose request was complete has been answered.
AnsweredOnce ==
    \A t \in Conns :
       /\ Count(t, "head") <= 1 /\ (wire[t] # <<>> => wire[t][1].k = "head")
       /\ Count(t, "final") + Count(t, "sse_error") <= 1
       /\ \A i, j \in DOMAIN wire[t] : i < j =>
             /\ wire[t][i].k = "done" => wire[t][j].k = "end"
             /\ wire[t][i].k \in {"final", "sse_error"} => wire[t][j].k # "token"
       /\ At(t, "end") /\ Chunked(t) /\ peer[t] = "reads" =>
             Count(t, "final") + Count(t, "sse_error") = 1
       /\ At(t, "closed") /\ got[t] = req[t].pieces /\ peer[t] = "reads" =>
             wire[t] # <<>> /\ (Chunked(t) => Count(t, "done") = 1)

\* A generation runs alone on its entry, with its own sampler settings, and
\* the usage it reports is the number of its own tokens.
OwnGeneration ==
    \A t \in Conns :
       /\ pc[t] \in {"generate", "loop", "finish"} =>
             lock[E(t)] = t /\ (Remote(E(t)) \/ entry[E(t)].sampler = t)
       /\ \A i \in DOMAIN wire[t] :
             wire[t][i].k \in {"answer", "final"} => wire[t][i].used = Len(wire[t][i].toks)

\* No two responses carry the same id.
IdsUnique ==
    \A t, u \in Conns : \A i \in DOMAIN wire[t], j \in DOMAIN wire[u] :
       /\ wire[t][i].k \in {"answer", "final"} /\ wire[u][j].k \in {"answer", "final"}
       /\ wire[t][i].id = wire[u][j].id
       => t = u

\* What the whole text says of the stop sequences, without the rolling tail.
Text(toks, n) == FlattenSeq(SubSeq(toks, 1, n))
FirstStop(stops, toks) ==
    {n \in DOMAIN toks : /\ StopLen(stops, Text(toks, n)) > 0
                         /\ \A m \in 1..n - 1 : StopLen(stops, Text(toks, m)) = 0}
Exact(r, sent) ==
    IF FirstStop(r.stops, sent.toks) = {}
    THEN sent.text = Shown(r, Text(sent.toks, Len(sent.toks)))
    ELSE \E n \in FirstStop(r.stops, sent.toks) :
            LET full == Text(sent.toks, n) IN
            /\ sent.reason = "stop"
            /\ sent.text = Shown(r, SubSeq(full, 1, Len(full) - StopLen(r.stops, full)))
\* The tail can take every token whole.
Fits(toks) == \A j \in DOMAIN toks : Len(toks[j]) < GW_TAIL_MAX
\* The rolling tail of gen_on_token stands for the whole text, as long as it
\* can take the tokens: a reply ends before the longest stop the text ended
\* with at the first token where it ended with one, and says so, and has every
\* token otherwise; of that text it shows the object or all, after the echo.  A
\* remote slice longer than the tail is excepted: the clamp takes its beginning
\* into the tail, and a stop at its end is not seen.
StopExact ==
    \A t \in Conns : \A i \in DOMAIN wire[t] :
       wire[t][i].k = "answer" /\ Fits(wire[t][i].toks) => Exact(req[t], wire[t][i])

\* Every connection that is accepted is closed: no path keeps a lock that
\* another thread waits for.
EveryRequestEnds == \A t \in Conns : <>(pc[t] = "closed")
=============================================================================
