----------------------------- MODULE RemotePool -----------------------------
(***************************************************************************)
(* The gateway's bridge to a remote payload (gateway/remote.c): one pooled *)
(* connection per remote model, reused from call to call, re-established   *)
(* when it went stale, and one transparent retry per call.                 *)
(*                                                                         *)
(* A call that gives up at its deadline leaves the connection open, so the *)
(* answer to it may arrive while a later call is waiting for its own.  The *)
(* peer answers requests in order and may vanish at any moment.  Bytes are *)
(* abstracted to frames; ProtoConn models the connection underneath.       *)
(***************************************************************************)
EXTENDS Integers, Sequences

CONSTANTS
  MaxCalls,    \* bound: calls made in a behaviour
  MaxTokens,   \* bound: tokens the payload generates for one prompt
  Timeout      \* timeout_ms, in clock units

ASSUME BoundsAssumption ==
  MaxCalls \in Nat /\ MaxTokens \in Nat /\ Timeout \in Nat \ {0}

VARIABLES
  pool,      \* pai_remote_pool_t: valid, busy, kind, gen, emb
  conn,      \* pool->conn: its state, negotiated caps, next request id
  call,      \* the call in progress: where it is, what it asks, its status
  clock,     \* left until *deadline, and time since the call began
  inbox,     \* frames the peer sent on this connection, not received yet
  peer,      \* external: the payload's end of this connection
  sockets,   \* transports connected and not destroyed
  vectors,   \* embedding vectors allocated, not freed, not handed out
  relayed    \* history: the tokens this call passed to on_token

vars == <<pool, conn, call, clock, inbox, peer, sockets, vectors, relayed>>

Kinds == {"GENERATE", "EMBED"}
Statuses == {"OK", "IO", "TIMEOUT", "CAPABILITY", "UNSUPPORTED", "PROTOCOL",
             "NOMEM", "INTERNAL"}
\* The statuses an ERROR frame may carry.
PeerErrors == {"IO", "INTERNAL"}

\* A request as the payload sees it; `call` and `attempt` are history.
Request == [req: 2..MaxCalls + 1, kind: Kinds, call: 1..MaxCalls,
            attempt: 1..2]
\* n: a TOKEN's ordinal, or the number of tokens a COMPLETE closes.
Frame == [type: {"TOKEN", "COMPLETE", "EMBEDDING", "ERROR"}, to: Request,
          n: 0..MaxTokens, st: PeerErrors]

Ctx == [request_id: 0..MaxCalls + 1, tokens: 0..MaxTokens,
        done: BOOLEAN, error: BOOLEAN, error_status: Statuses,
        of: {<<>>} \cup ((1..MaxCalls) \X (1..2) \X (0..MaxTokens))]
\* memset(&pool->gen, 0, ...): `done` is gen.complete or emb.got, and `of`
\* is history: whose COMPLETE or EMBEDDING was accepted, after how many tokens.
CtxZero == [request_id |-> 0, tokens |-> 0, done |-> FALSE, error |-> FALSE,
            error_status |-> "OK", of |-> <<>>]

CallZero == [at |-> "idle", kind |-> "GENERATE", no |-> 0, attempt |-> 1,
             st |-> "OK"]
ConnZero == [state |-> "NEW", caps |-> {}, next |-> 1]
PeerUp == [end |-> "up", todo |-> <<>>, n |-> 0]

Field(kind) == IF kind = "GENERATE" THEN "gen" ELSE "emb"
ctx == pool[Field(call.kind)]
Terminal == ctx.done \/ ctx.error

(***************************************************************************)
(* Creation and destruction of the pool.                                   *)
(***************************************************************************)
\* pai_proto_conn_destroy and the transport's: what was in flight is lost.
Disconnected ==
  /\ conn' = ConnZero
  /\ inbox' = <<>>
  /\ peer' = PeerUp

PoolZero == [valid |-> FALSE, busy |-> FALSE, kind |-> "GENERATE",
             gen |-> CtxZero, emb |-> CtxZero]

Init ==
  /\ pool = PoolZero
  /\ conn = ConnZero
  /\ call = CallZero
  /\ clock = [left |-> 0, age |-> 0]
  /\ inbox = <<>>
  /\ peer = PeerUp
  /\ sockets = 0
  /\ vectors = 0
  /\ relayed = <<>>

pai_remote_pool_destroy ==
  /\ call.at = "idle"
  /\ call' = [call EXCEPT !.at = "freed"]
  /\ pool' = [pool EXCEPT !.valid = FALSE]
  /\ sockets' = IF pool.valid THEN sockets - 1 ELSE sockets
  /\ Disconnected
  /\ UNCHANGED <<clock, vectors, relayed>>

pai_remote_pool_create ==
  /\ call.at = "freed"
  /\ call' = [call EXCEPT !.at = "idle"]
  /\ pool' = PoolZero
  /\ UNCHANGED <<conn, clock, inbox, peer, sockets, vectors, relayed>>

(***************************************************************************)
(* A call: argument checks, then pool_generate_attempt or its EMBED twin.  *)
(* Callers serialise (the entry lock of the gateway), so a busy pool is    *)
(* never met; ResourcesReturned says that no call leaves it busy either.   *)
(***************************************************************************)
Call(kind) ==
  /\ call.at = "idle" /\ call.no < MaxCalls
  /\ ~pool.busy
  /\ call' = [at |-> "acquire", kind |-> kind, no |-> call.no + 1,
              attempt |-> 1, st |-> "OK"]
  /\ clock' = [left |-> Timeout, age |-> 0]
  /\ relayed' = <<>>
  /\ UNCHANGED <<pool, conn, inbox, peer, sockets, vectors>>

pai_remote_pool_generate == Call("GENERATE")
pai_remote_pool_embed == Call("EMBED")

(***************************************************************************)
(* pool_acquire: reuse the connection when it is OPEN, else reconnect.     *)
(***************************************************************************)
Reusable == pool.valid /\ conn.state = "OPEN"

\* acquire returned an error: the attempt returns it as it is, with no
\* release and no retry.
Refused(st) == call' = [call EXCEPT !.at = "idle", !.st = st]

Acquired ==
  /\ pool' = [pool EXCEPT !.valid = TRUE, !.kind = call.kind, !.busy = TRUE]
  /\ call' = [call EXCEPT !.at = "send"]

acquire_reuse ==
  /\ call.at = "acquire"
  /\ Reusable
  /\ clock' = [clock EXCEPT !.left = Timeout]
  /\ \/ call.kind \in conn.caps /\ Acquired
     \/ call.kind \notin conn.caps /\ Refused("UNSUPPORTED")
        /\ UNCHANGED pool
  /\ UNCHANGED <<conn, inbox, peer, sockets, vectors, relayed>>

\* A stale connection is destroyed first.  The new one is connected and
\* sends its HELLO; the deadline starts once the TCP connection is up.
acquire_connect ==
  /\ call.at = "acquire"
  /\ ~Reusable
  /\ pool' = [pool EXCEPT !.valid = FALSE]
  /\ conn' = [ConnZero EXCEPT !.state = "NEGOTIATING", !.next = 2]
  /\ call' = [call EXCEPT !.at = "negotiate"]
  /\ clock' = [clock EXCEPT !.left = Timeout]
  /\ inbox' = <<>>
  /\ peer' = PeerUp
  /\ sockets' = (IF pool.valid THEN sockets - 1 ELSE sockets) + 1
  /\ UNCHANGED <<vectors, relayed>>

\* tcp_connect failed, or the HELLO could not be sent (the transport is
\* destroyed again): PAI_ERR_IO.
acquire_connect_fails ==
  /\ call.at = "acquire"
  /\ ~Reusable
  /\ pool' = [pool EXCEPT !.valid = FALSE]
  /\ sockets' = IF pool.valid THEN sockets - 1 ELSE sockets
  /\ Disconnected
  /\ Refused("IO")
  /\ UNCHANGED <<clock, vectors, relayed>>

\* The answer to the HELLO, as poll reports it: an ACK that grants caps.
negotiate_ack ==
  /\ call.at = "negotiate"
  /\ \E caps \in SUBSET Kinds :
       IF call.kind \in caps
       THEN /\ conn' = [conn EXCEPT !.state = "OPEN", !.caps = caps]
            /\ Acquired
            /\ UNCHANGED sockets
       ELSE /\ conn' = ConnZero
            /\ Refused("UNSUPPORTED")
            /\ sockets' = sockets - 1
            /\ UNCHANGED pool
  /\ UNCHANGED <<clock, inbox, peer, vectors, relayed>>

\* A NACK, a vanished or malformed peer, or the deadline: torn down here.
negotiate_fails ==
  /\ call.at = "negotiate"
  /\ \/ \E st \in {"CAPABILITY", "IO", "PROTOCOL"} : Refused(st)
     \/ clock.left = 0 /\ Refused("TIMEOUT")
  /\ conn' = ConnZero
  /\ sockets' = sockets - 1
  /\ UNCHANGED <<pool, clock, inbox, peer, vectors, relayed>>

(***************************************************************************)
(* The exchange.  The context of the kind is cleared, a request id drawn   *)
(* and the request sent.  Writing to a connection the peer left may        *)
(* succeed or fail.                                                        *)
(***************************************************************************)
TheRequest == [req |-> conn.next, kind |-> call.kind, call |-> call.no,
               attempt |-> call.attempt]

send_request ==
  /\ call.at = "send"
  /\ pool' = [pool EXCEPT ![Field(call.kind)] =
                [CtxZero EXCEPT !.request_id = conn.next]]
  /\ conn' = [conn EXCEPT !.next = @ + 1]
  /\ \/ /\ call' = [call EXCEPT !.at = "loop"]
        /\ peer' = IF peer.end = "up"
                   THEN [peer EXCEPT !.todo = Append(@, TheRequest)]
                   ELSE peer
     \/ /\ peer.end # "up"
        /\ call' = [call EXCEPT !.at = "fail", !.st = "IO"]
        /\ UNCHANGED peer
  /\ UNCHANGED <<clock, inbox, sockets, vectors, relayed>>

loop_unbounded ==                                        \* mutant
  /\ call.at = "loop"
  /\ call' = [call EXCEPT !.at = "poll"]
  /\ UNCHANGED <<pool, conn, clock, inbox, peer, sockets, vectors, relayed>>

\* The head of the wait loop: the deadline, then one poll.
loop ==
  /\ call.at = "loop"
  /\ call' = IF clock.left = 0
             THEN [call EXCEPT !.at = "fail", !.st = "TIMEOUT"]
             ELSE [call EXCEPT !.at = "poll"]
  /\ UNCHANGED <<pool, conn, clock, inbox, peer, sockets, vectors, relayed>>

(***************************************************************************)
(* One pai_proto_conn_poll: it hands frames to the callbacks until nothing *)
(* more is there, so that one call may see an answer and the end of the    *)
(* connection behind it.                                                   *)
(***************************************************************************)
Expected_any(c, f) == ~c.done /\ ~c.error                \* mutant

\* An answer to the request the context waits for, and the first one.
Expected(c, f) == f.to.req = c.request_id /\ ~c.done /\ ~c.error

Errored(c, st) == [c EXCEPT !.error = TRUE, !.error_status = st]
Answered(c, f) == [c EXCEPT !.done = TRUE,
                                !.of = <<f.to.call, f.to.attempt, f.n>>]

\* TOKENs are relayed, COMPLETE and ERROR end the exchange, and anything
\* else is ignored.
remote_on_message(f) ==
  /\ pool.kind = "GENERATE"
  /\ IF ~Expected(pool.gen, f) \/ f.type = "EMBEDDING"
     THEN UNCHANGED <<pool, relayed>>
     ELSE \/ /\ f.type = "TOKEN"
             /\ pool' = [pool EXCEPT !.gen.tokens = @ + 1]
             /\ relayed' = Append(relayed, <<f.to.call, f.to.attempt, f.n>>)
          \/ /\ f.type = "COMPLETE"
             /\ pool' = [pool EXCEPT !.gen = Answered(@, f)]
             /\ UNCHANGED relayed
          \/ /\ f.type = "ERROR"
             /\ pool' = [pool EXCEPT !.gen = Errored(@, f.st)]
             /\ UNCHANGED relayed
  /\ UNCHANGED vectors

\* EMBEDDING is copied into a vector of its own, which may fail; TOKENs are
\* not even routed here.
embed_on_message(f) ==
  /\ pool.kind = "EMBED"
  /\ IF ~Expected(pool.emb, f) \/ f.type \in {"TOKEN", "COMPLETE"}
     THEN UNCHANGED <<pool, vectors>>
     ELSE \/ /\ f.type = "EMBEDDING"
             /\ pool' = [pool EXCEPT !.emb = Answered(@, f)]
             /\ vectors' = vectors + 1
          \/ /\ f.type = "EMBEDDING"
             /\ \E st \in {"NOMEM", "PROTOCOL"} :
                  pool' = [pool EXCEPT !.emb = Errored(@, st)]
             /\ UNCHANGED vectors
          \/ /\ f.type = "ERROR"
             /\ pool' = [pool EXCEPT !.emb = Errored(@, f.st)]
             /\ UNCHANGED vectors
  /\ UNCHANGED relayed

poll_frame ==
  /\ call.at = "poll"
  /\ inbox # <<>>
  /\ remote_on_message(Head(inbox)) \/ embed_on_message(Head(inbox))
  /\ inbox' = Tail(inbox)
  /\ UNCHANGED <<conn, call, clock, peer, sockets>>

AfterPoll_closed_first(state) ==                         \* mutant
  call' = CASE state = "CLOSED" -> [call EXCEPT !.at = "fail", !.st = "IO"]
            [] state # "CLOSED" /\ ctx.error ->
                 [call EXCEPT !.at = "fail", !.st = ctx.error_status]
            [] state # "CLOSED" /\ ~ctx.error /\ ctx.done ->
                 [call EXCEPT !.at = "fail", !.st = "OK"]
            [] OTHER -> [call EXCEPT !.at = "loop"]

\* What the exchange makes of a poll that succeeded: a terminal frame comes
\* first, then the end of the connection, and otherwise it waits on.
AfterPoll(state) ==
  call' = CASE ctx.error -> [call EXCEPT !.at = "fail", !.st = ctx.error_status]
            [] ctx.done /\ ~ctx.error -> [call EXCEPT !.at = "fail", !.st = "OK"]
            [] ~Terminal /\ state = "CLOSED" ->
                 [call EXCEPT !.at = "fail", !.st = "IO"]
            [] OTHER -> [call EXCEPT !.at = "loop"]

\* Nothing more to read yet.
poll_drained ==
  /\ call.at = "poll"
  /\ inbox = <<>> /\ peer.end = "up"
  /\ AfterPoll(conn.state)
  /\ UNCHANGED <<pool, conn, clock, inbox, peer, sockets, vectors, relayed>>

\* End of stream between two frames.
poll_eof ==
  /\ call.at = "poll"
  /\ inbox = <<>> /\ peer.end = "eof"
  /\ conn' = [conn EXCEPT !.state = "CLOSED"]
  /\ AfterPoll("CLOSED")
  /\ UNCHANGED <<pool, clock, inbox, peer, sockets, vectors, relayed>>

\* End of stream inside a frame's payload, or a frame that fails its checksum: poll
\* fails, and the attempt fails with it whatever arrived before.
poll_torn ==
  /\ call.at = "poll"
  /\ inbox = <<>> /\ peer.end = "torn"
  /\ conn' = [conn EXCEPT !.state = "CLOSED"]
  /\ call' = [call EXCEPT !.at = "fail", !.st = "PROTOCOL"]
  /\ UNCHANGED <<pool, clock, inbox, peer, sockets, vectors, relayed>>

(***************************************************************************)
(* fail: every way out of the exchange.  The connection is released, an    *)
(* embedding vector is handed out or freed, and a connection that failed   *)
(* before anything was delivered is replaced, once.                        *)
(***************************************************************************)

Retry ==
  /\ call.st = "IO" /\ call.attempt < 2
  /\ ~Terminal
  /\ ctx.tokens = 0

\* pool_release.
released == [pool EXCEPT !.busy = FALSE]

attempt_returns_leak ==                                  \* mutant
  /\ call.at = "fail"
  /\ ~Retry
  /\ pool' = released
  /\ call' = [call EXCEPT !.at = "idle"]
  /\ vectors' = IF call.kind = "EMBED" /\ call.st = "OK"
                THEN vectors - 1 ELSE vectors
  /\ UNCHANGED <<conn, clock, inbox, peer, sockets, relayed>>

attempt_returns ==
  /\ call.at = "fail"
  /\ ~Retry
  /\ pool' = released
  /\ call' = [call EXCEPT !.at = "idle"]
  /\ vectors' = IF call.kind = "EMBED" /\ ctx.done THEN vectors - 1 ELSE vectors
  /\ UNCHANGED <<conn, clock, inbox, peer, sockets, relayed>>

attempt_retries_forever ==                               \* mutant
  /\ call.at = "fail"
  /\ Retry
  /\ pool' = [released EXCEPT !.valid = FALSE]
  /\ call' = [call EXCEPT !.at = "acquire"]
  /\ sockets' = sockets - 1
  /\ Disconnected
  /\ UNCHANGED <<clock, vectors, relayed>>

attempt_retries ==
  /\ call.at = "fail"
  /\ Retry
  /\ pool' = [released EXCEPT !.valid = FALSE]
  /\ call' = [call EXCEPT !.at = "acquire", !.attempt = @ + 1]
  /\ sockets' = sockets - 1
  /\ Disconnected
  /\ UNCHANGED <<clock, vectors, relayed>>

(***************************************************************************)
(* The environment: the payload at the other end, and the clock.           *)
(***************************************************************************)
Reply(type, n, st) ==
  /\ inbox' = Append(inbox, [type |-> type, to |-> Head(peer.todo), n |-> n,
                             st |-> st])
  /\ UNCHANGED <<pool, conn, call, clock, sockets, vectors, relayed>>

Answer(type, n, st) ==
  /\ Reply(type, n, st)
  /\ peer' = [peer EXCEPT !.todo = Tail(@), !.n = 0]

Serving(kind) == peer.end = "up" /\ peer.todo # <<>> /\ Head(peer.todo).kind = kind

peer_token ==
  /\ Serving("GENERATE") /\ peer.n < MaxTokens
  /\ Reply("TOKEN", peer.n + 1, "IO")
  /\ peer' = [peer EXCEPT !.n = @ + 1]

peer_answer ==
  \/ Serving("GENERATE") /\ Answer("COMPLETE", peer.n, "IO")
  \/ Serving("EMBED") /\ Answer("EMBEDDING", 0, "IO")
  \/ \E k \in Kinds, st \in PeerErrors : Serving(k) /\ Answer("ERROR", 0, st)

\* The peer goes away.  A reset may take frames with it that were sent but
\* not received yet.
peer_gone ==
  /\ peer.end = "up" /\ conn.state = "OPEN"
  /\ \E end \in {"eof", "torn"} :
       peer' = [end |-> end, todo |-> <<>>, n |-> 0]
  /\ \E k \in 0..Len(inbox) : inbox' = SubSeq(inbox, 1, k)
  /\ UNCHANGED <<pool, conn, call, clock, sockets, vectors, relayed>>

\* Time passes while a call waits, up to its deadline: the waits are short,
\* so a passed deadline is noticed within one clock unit.  The time a TCP
\* connect takes is under no deadline at all and is left out.
tick ==
  /\ call.at \in {"negotiate", "send", "loop", "poll"} /\ clock.left > 0
  /\ clock' = [left |-> clock.left - 1, age |-> clock.age + 1]
  /\ UNCHANGED <<pool, conn, call, inbox, peer, sockets, vectors, relayed>>

Exchange ==
  \/ acquire_reuse \/ acquire_connect \/ acquire_connect_fails
  \/ negotiate_ack \/ negotiate_fails
  \/ send_request \/ loop
  \/ poll_frame \/ poll_drained \/ poll_eof \/ poll_torn
  \/ attempt_returns \/ attempt_retries

Next ==
  \/ pai_remote_pool_create \/ pai_remote_pool_destroy
  \/ pai_remote_pool_generate \/ pai_remote_pool_embed
  \/ Exchange
  \/ peer_token \/ peer_answer \/ peer_gone \/ tick

\* The thread that made the call keeps running, and time passes.  Nothing is
\* promised of the peer.
Spec == Init /\ [][Next]_vars /\ WF_vars(Exchange) /\ WF_vars(tick)

-----------------------------------------------------------------------------
(* Properties. *)

\* What a caller has been given so far is the beginning of the one answer the
\* payload gave to this attempt: no token of an earlier call that timed out
\* (its answer is still coming on the same connection), none twice because
\* the call was retried, none missing.
RelayedInOrder ==
  \A i \in DOMAIN relayed : relayed[i] = <<call.no, call.attempt, i>>

\* A call succeeds only when the payload finished this very attempt (late
\* answers to other requests are filtered) and every token it generated for
\* it has been relayed; and an answer that arrived in full counts even when
\* the peer closes right behind it: the call does not fail with PAI_ERR_IO.
OkIsOwnAnswer ==
  call.at = "fail" =>
    /\ call.st = "OK" => ctx.of = <<call.no, call.attempt, Len(relayed)>>
    /\ call.st = "IO" => ~ctx.done

\* Every way out of a call gives back what it took: the pool is not left
\* busy (the next call would be refused for ever), a transport is destroyed
\* exactly once, and an embedding vector is freed or handed to the caller,
\* also when poll fails after the answer was accepted.
ResourcesReturned ==
  /\ call.at = "idle" => ~pool.busy
  /\ sockets = IF pool.valid \/ call.at = "negotiate" THEN 1 ELSE 0
  /\ vectors = IF /\ pool.busy /\ call.kind = "EMBED"
                  /\ call.at \in {"poll", "fail", "loop"} /\ pool.emb.done
               THEN 1 ELSE 0

\* A call ends within two deadlines, its own and that of the one retry, not
\* counting the time of TCP connects, which no deadline covers.  remote.h
\* promises one: see OneDeadline.
TwoDeadlines == clock.age <= 2 * Timeout

\* remote.h: timeout_ms "bounds the whole exchange including negotiation".  Even
\* with connects that take no time, a retry begins the deadline anew.
OneDeadline == clock.age <= Timeout

\* Every call returns, whatever the payload does.
CallReturns == call.at \notin {"idle", "freed"} ~> call.at = "idle"
=============================================================================
