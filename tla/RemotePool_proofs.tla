-------------------------- MODULE RemotePool_proofs --------------------------
(***************************************************************************)
(* The four safety properties of RemotePool for any number of calls, any   *)
(* length of answer and any timeout.                                       *)
(*                                                                         *)
(* They hold because of what a connection carries: answers come request by *)
(* request, each request has an id of its own on its connection, and the   *)
(* frames of one request are its tokens in order and then one terminal     *)
(* frame.  Channel says so of the frames under way, Meets links them to    *)
(* the context of the call that waits.                                     *)
(***************************************************************************)
EXTENDS RemotePool, TLAPS, SequenceTheorems

Ats == {"idle", "freed", "acquire", "negotiate", "send", "loop", "poll", "fail"}
States == {"NEW", "NEGOTIATING", "OPEN", "CLOSED"}
\* Before the request is sent, while its answer is awaited, and the same with
\* the way out.
Before == call.at \in {"acquire", "negotiate", "send"}
Waiting == call.at \in {"loop", "poll"}
Asked == call.at \in {"loop", "poll", "fail"}

PoolType == [valid: BOOLEAN, busy: BOOLEAN, kind: Kinds, gen: Ctx, emb: Ctx]
ConnType == [state: States, caps: SUBSET Kinds, next: Nat]
CallType == [at: Ats, kind: Kinds, no: 0..MaxCalls, attempt: 1..2, st: Statuses]
PeerType == [end: {"up", "eof", "torn"}, todo: Seq(Request), n: 0..MaxTokens]

TypeOK ==
  /\ pool \in PoolType /\ conn \in ConnType /\ call \in CallType
  /\ clock \in [left: Nat, age: Nat]
  /\ inbox \in Seq(Frame) /\ peer \in PeerType
  /\ sockets \in Nat /\ vectors \in Nat
  /\ relayed \in Seq((1..MaxCalls) \X (1..2) \X (1..MaxTokens))

\* Who holds the pool, and what is known of the connection, at each point of
\* a call.
Phases ==
  /\ pool.busy <=> call.at \in {"send", "loop", "poll", "fail"}
  /\ pool.busy => pool.valid /\ pool.kind = call.kind
  /\ call.at \in {"negotiate", "freed"} => ~pool.valid
  /\ call.at = "negotiate" =>
       conn.state # "OPEN" /\ conn.next = 2 /\ inbox = <<>> /\ peer = PeerUp
  /\ call.at \notin {"idle", "freed"} => call.no >= 1
  /\ call.at = "send" \/ conn.state = "OPEN" => conn.next >= 2

\* What a deadline leaves: the second attempt begins after the first's.
Deadlines ==
  /\ clock.age <= 2 * Timeout
  /\ call.at = "acquire" /\ call.attempt = 1 => clock.age = 0
  /\ call.at = "acquire" /\ call.attempt = 2 => clock.age <= Timeout
  /\ Asked \/ call.at \in {"negotiate", "send"} =>
       /\ call.attempt = 1 => clock.age + clock.left <= Timeout
       /\ call.attempt = 2 => clock.age + clock.left <= 2 * Timeout

\* The frame g follows the frame f of the same connection.
Follows(f, g) ==
  IF f.type = "TOKEN"
  THEN /\ g.to.req = f.to.req
       /\ g.type = "TOKEN" => g.n = f.n + 1
       /\ g.type = "COMPLETE" => g.n = f.n
  ELSE /\ g.to.req # f.to.req
       /\ g.type = "TOKEN" => g.n = 1
       /\ g.type = "COMPLETE" => g.n = 0

\* The peer goes on from the last frame it sent.
Continues(f) ==
  IF f.type = "TOKEN"
  THEN peer.todo # <<>> /\ peer.todo[1].req = f.to.req /\ peer.n = f.n
  ELSE peer.n = 0 /\ (peer.todo # <<>> => peer.todo[1].req # f.to.req)

WellFormed(f) ==
  /\ f.type = "TOKEN" => f.n >= 1
  /\ f.type = "EMBEDDING" => f.n = 0
  /\ f.type \in {"TOKEN", "COMPLETE"} => f.to.kind = "GENERATE"
  /\ f.type = "EMBEDDING" => f.to.kind = "EMBED"

\* The frames under way and the requests not answered yet.
Channel ==
  /\ \A i \in 1..Len(inbox) : WellFormed(inbox[i]) /\ inbox[i].to.req < conn.next
  /\ \A i \in 1..Len(inbox) - 1 : Follows(inbox[i], inbox[i + 1])
  /\ \A i \in 1..Len(peer.todo) : peer.todo[i].req < conn.next
  /\ \A i, j \in 1..Len(peer.todo) : i < j => peer.todo[i].req < peer.todo[j].req
  /\ peer.todo = <<>> => peer.n = 0
  /\ peer.end = "up" /\ inbox # <<>> => Continues(inbox[Len(inbox)])

\* A request under way with the id that the call waits for is the call's.
Own(q) == q.req = ctx.request_id =>
            q.kind = call.kind /\ q.call = call.no /\ q.attempt = call.attempt

\* What comes next on the connection, a frame or the peer's next one, is
\* where the waiting call is in its answer, or belongs to an earlier request.
Meets ==
  /\ ctx.request_id < conn.next
  /\ \A i \in 1..Len(inbox) : Own(inbox[i].to)
  /\ \A i \in 1..Len(peer.todo) : Own(peer.todo[i])
  /\ ~Terminal /\ inbox # <<>> =>
       IF inbox[1].to.req = ctx.request_id
       THEN /\ inbox[1].type = "TOKEN" => inbox[1].n = ctx.tokens + 1
            /\ inbox[1].type = "COMPLETE" => inbox[1].n = ctx.tokens
       ELSE ctx.tokens = 0
  /\ ~Terminal /\ inbox = <<>> /\ peer.end = "up" /\ peer.todo # <<>> =>
       ctx.tokens = IF peer.todo[1].req = ctx.request_id THEN peer.n ELSE 0

\* What the context of the call says about the tokens and the answer.
Delivered ==
  /\ Before => relayed = <<>>
  /\ call.kind = "EMBED" => relayed = <<>>
  /\ Asked => /\ ctx.tokens = Len(relayed)
              /\ ctx.done => ctx.of = <<call.no, call.attempt, Len(relayed)>>
              /\ ctx.error => ~ctx.done /\ ctx.error_status # "OK"
  /\ call.at = "fail" /\ call.st = "OK" => ctx.done
  /\ call.at = "fail" /\ call.st = "IO" => ~ctx.done

\* The request ids of one connection: drawn from conn.next, at most one per
\* call, so that they stay within Request.
IdsBounded ==
  /\ conn.next <= call.no + 2
  /\ Before => conn.next <= call.no + 1

PoolInv ==
  /\ TypeOK /\ Phases /\ Deadlines /\ IdsBounded /\ Channel /\ (Waiting => Meets)
  /\ Delivered /\ RelayedInOrder /\ ResourcesReturned

-----------------------------------------------------------------------------
(* Facts the steps share. *)

\* The context of the kind of the call.
LEMMA CtxOfKind ==
  ASSUME TypeOK
  PROVE  /\ ctx \in Ctx
         /\ call.kind = "GENERATE" => ctx = pool.gen
         /\ call.kind = "EMBED" => ctx = pool.emb
BY DEF TypeOK, PoolType, CallType, ctx, Field, Kinds

\* The values things are cleared to.
LEMMA Zeros ==
  /\ ConnZero \in ConnType /\ PeerUp \in PeerType
  /\ CtxZero \in Ctx /\ PoolZero \in PoolType /\ CallZero \in CallType
<1>1. ConnZero \in ConnType /\ PeerUp \in PeerType /\ CallZero \in CallType
  BY BoundsAssumption DEF ConnZero, PeerUp, CallZero, States, Ats, Kinds,
     Statuses,
     ConnType, PeerType, CallType
<1>2. CtxZero \in Ctx
  BY BoundsAssumption DEF CtxZero, Ctx, Statuses
<1>3. PoolZero \in PoolType
  BY <1>2, Zenon DEF PoolZero, Kinds, PoolType
<1>4. QED
  BY <1>1, <1>2, <1>3

\* What the inbox and the peer's queue hold.
LEMMA Elements ==
  ASSUME TypeOK
  PROVE  /\ Len(inbox) \in Nat /\ Len(peer.todo) \in Nat
         /\ peer.todo \in Seq(Request) /\ peer.n \in 0..MaxTokens
         /\ \A i \in 1..Len(inbox) :
              inbox[i] \in Frame /\ inbox[i].to.req \in Nat /\ inbox[i].n \in Nat
         /\ \A i \in 1..Len(peer.todo) :
              peer.todo[i] \in Request /\ peer.todo[i].req \in Nat
         /\ inbox # <<>> <=> Len(inbox) >= 1
         /\ peer.todo # <<>> <=> Len(peer.todo) >= 1
         /\ conn.next \in Nat
<1>1. inbox \in Seq(Frame) /\ peer.todo \in Seq(Request) /\ peer.n \in 0..MaxTokens
  BY DEF TypeOK, PeerType
<1>2. ASSUME NEW q \in Request PROVE q.req \in Nat
  BY BoundsAssumption DEF Request
<1>3. ASSUME NEW f \in Frame PROVE f.to \in Request /\ f.n \in Nat
  BY BoundsAssumption DEF Frame
<1>4. /\ \A i \in 1..Len(inbox) : inbox[i] \in Frame
      /\ \A i \in 1..Len(peer.todo) : peer.todo[i] \in Request
  BY <1>1
<1>5. /\ Len(inbox) \in Nat /\ Len(peer.todo) \in Nat
      /\ inbox # <<>> <=> Len(inbox) >= 1
      /\ peer.todo # <<>> <=> Len(peer.todo) >= 1
  BY <1>1
<1>6. QED
  BY <1>1, <1>2, <1>3, <1>4, <1>5 DEF TypeOK, ConnType

\* A zeroed pool, no call and an idle peer.
LEMMA InitPool == Init => PoolInv
<1> SUFFICES ASSUME Init PROVE PoolInv
  OBVIOUS
<1>1. TypeOK
  BY Zeros DEF Init, TypeOK
<1>2. QED
  BY <1>1, BoundsAssumption DEF Init, PoolInv, Phases, Deadlines, IdsBounded,
     Channel, Waiting, Before, Asked, Delivered, RelayedInOrder,
     ResourcesReturned, PoolZero, ConnZero, CallZero, CtxZero, PeerUp

\* The beginning of a call.
LEMMA CallStep ==
  ASSUME PoolInv, NEW kind \in Kinds, Call(kind)
  PROVE  PoolInv'
<1> USE DEF PoolInv
<1>1. TypeOK'
  BY BoundsAssumption DEF Call, TypeOK, CallType, Ats, Statuses
<1>2. Phases' /\ IdsBounded'
  BY DEF Call, TypeOK, CallType, ConnType, Phases, IdsBounded, Before
<1>3. Deadlines'
  BY BoundsAssumption DEF Call, Deadlines, Asked
<1>4. Channel' /\ (Waiting => Meets)'
  BY DEF Call, Channel, Waiting, Continues
<1>5. Delivered' /\ RelayedInOrder'
  BY DEF Call, Delivered, RelayedInOrder, Asked
<1>6. ResourcesReturned'
  BY DEF Call, Phases, ResourcesReturned
<1>7. QED
  BY <1>1, <1>2, <1>3, <1>4, <1>5, <1>6

\* Destroying the pool.
LEMMA DestroyStep == PoolInv /\ pai_remote_pool_destroy => PoolInv'
<1> SUFFICES ASSUME PoolInv, pai_remote_pool_destroy PROVE PoolInv'
  OBVIOUS
<1> USE DEF PoolInv
<1>1. TypeOK'
  <2>1. pool' \in PoolType /\ call' \in CallType
    BY BoundsAssumption, Zeros DEF pai_remote_pool_destroy, Disconnected,
       ConnZero, PeerUp, TypeOK, PoolType, CallType, Ats, Statuses
  <2>2. conn' \in ConnType /\ peer' \in PeerType /\ inbox' \in Seq(Frame)
    BY Zeros DEF pai_remote_pool_destroy, Disconnected, ConnZero, PeerUp,
       TypeOK, ConnType, States
  <2>3. clock' \in [left: Nat, age: Nat]
    BY BoundsAssumption DEF pai_remote_pool_destroy, Disconnected, ConnZero,
       PeerUp, TypeOK
  <2>4. sockets' \in Nat
    BY DEF pai_remote_pool_destroy, Disconnected, ConnZero, PeerUp, TypeOK,
       Phases, ResourcesReturned
  <2>5. vectors' \in Nat
    BY DEF pai_remote_pool_destroy, Disconnected, ConnZero, PeerUp, TypeOK,
       Phases, ResourcesReturned, ctx, Field
  <2>6. QED
    BY <2>1, <2>2, <2>3, <2>4, <2>5 DEF pai_remote_pool_destroy, Disconnected,
       ConnZero, PeerUp, TypeOK
<1>2. Phases' /\ IdsBounded'
  BY DEF pai_remote_pool_destroy, Disconnected, ConnZero, PeerUp, TypeOK,
     PoolType, ConnType, CallType, PeerType, Phases, IdsBounded, Before
<1>3. Deadlines'
  BY BoundsAssumption DEF pai_remote_pool_destroy, Disconnected, ConnZero,
     PeerUp, TypeOK, CallType, Deadlines, Asked
<1>4. Channel' /\ (Waiting => Meets)'
  BY DEF pai_remote_pool_destroy, Disconnected, ConnZero, PeerUp, TypeOK,
     PoolType, ConnType, CallType, PeerType, Channel, Waiting, Continues,
     Meets, Own, ctx, Terminal
<1>5. Delivered' /\ RelayedInOrder'
  BY DEF pai_remote_pool_destroy, Disconnected, ConnZero, PeerUp, TypeOK,
     PoolType, CallType, Delivered, RelayedInOrder, Before, Asked, ctx
<1>6. ResourcesReturned'
  BY DEF pai_remote_pool_destroy, Disconnected, ConnZero, PeerUp, TypeOK,
     PoolType, CallType, Phases, ResourcesReturned
<1>7. QED
  BY <1>1, <1>2, <1>3, <1>4, <1>5, <1>6

\* Creating it again.
LEMMA CreateStep == PoolInv /\ pai_remote_pool_create => PoolInv'
<1> SUFFICES ASSUME PoolInv, pai_remote_pool_create PROVE PoolInv'
  OBVIOUS
<1> USE DEF PoolInv
<1>1. TypeOK'
  <2>1. pool' \in PoolType /\ call' \in CallType
    BY BoundsAssumption, Zeros DEF pai_remote_pool_create, PoolZero, CtxZero,
       TypeOK, PoolType, CallType, Ats, Statuses
  <2>2. conn' \in ConnType /\ peer' \in PeerType /\ inbox' \in Seq(Frame)
    BY Zeros DEF pai_remote_pool_create, PoolZero, CtxZero, TypeOK, ConnType,
       States
  <2>3. clock' \in [left: Nat, age: Nat]
    BY BoundsAssumption DEF pai_remote_pool_create, PoolZero, CtxZero, TypeOK
  <2>4. sockets' \in Nat
    BY DEF pai_remote_pool_create, PoolZero, CtxZero, TypeOK, Phases,
       ResourcesReturned
  <2>5. vectors' \in Nat
    BY DEF pai_remote_pool_create, PoolZero, CtxZero, TypeOK, Phases,
       ResourcesReturned, ctx, Field
  <2>6. QED
    BY <2>1, <2>2, <2>3, <2>4, <2>5 DEF pai_remote_pool_create, PoolZero,
       CtxZero, TypeOK
<1>2. Phases' /\ IdsBounded'
  BY DEF pai_remote_pool_create, PoolZero, CtxZero, TypeOK, PoolType, ConnType,
     CallType, PeerType, Phases, IdsBounded, Before
<1>3. Deadlines'
  BY BoundsAssumption DEF pai_remote_pool_create, PoolZero, CtxZero, TypeOK,
     CallType, Deadlines, Asked
<1>4. Channel' /\ (Waiting => Meets)'
  BY DEF pai_remote_pool_create, PoolZero, CtxZero, TypeOK, PoolType, ConnType,
     CallType, PeerType, Channel, Waiting, Continues, Meets, Own, ctx, Terminal
<1>5. Delivered' /\ RelayedInOrder'
  BY DEF pai_remote_pool_create, PoolZero, CtxZero, TypeOK, PoolType, CallType,
     Delivered, RelayedInOrder, Before, Asked, ctx
<1>6. ResourcesReturned'
  BY DEF pai_remote_pool_create, PoolZero, CtxZero, TypeOK, PoolType, CallType,
     Phases, ResourcesReturned
<1>7. QED
  BY <1>1, <1>2, <1>3, <1>4, <1>5, <1>6

\* Reuse of the connection.
LEMMA ReuseStep == PoolInv /\ acquire_reuse => PoolInv'
<1> SUFFICES ASSUME PoolInv, acquire_reuse PROVE PoolInv'
  OBVIOUS
<1> USE DEF PoolInv
<1>1. TypeOK'
  <2>1. pool' \in PoolType /\ call' \in CallType
    BY BoundsAssumption, Zeros DEF acquire_reuse, Reusable, Acquired, Refused,
       TypeOK, PoolType, CallType, Ats, Statuses
  <2>2. conn' \in ConnType /\ peer' \in PeerType /\ inbox' \in Seq(Frame)
    BY Zeros DEF acquire_reuse, Reusable, Acquired, Refused, TypeOK, ConnType,
       States
  <2>3. clock' \in [left: Nat, age: Nat]
    BY BoundsAssumption DEF acquire_reuse, Reusable, Acquired, Refused, TypeOK
  <2>4. sockets' \in Nat
    BY DEF acquire_reuse, Reusable, Acquired, Refused, TypeOK, Phases,
       ResourcesReturned
  <2>5. vectors' \in Nat
    BY DEF acquire_reuse, Reusable, Acquired, Refused, TypeOK, Phases,
       ResourcesReturned, ctx, Field
  <2>6. QED
    BY <2>1, <2>2, <2>3, <2>4, <2>5 DEF acquire_reuse, Reusable, Acquired,
       Refused, TypeOK
<1>2. Phases' /\ IdsBounded'
  BY DEF acquire_reuse, Reusable, Acquired, Refused, TypeOK, PoolType,
     ConnType, CallType, PeerType, Phases, IdsBounded, Before
<1>3. Deadlines'
  <2>1. /\ clock' = [left |-> Timeout, age |-> clock.age]
        /\ call'.at \in {"send", "idle"} /\ call'.attempt = call.attempt
    BY DEF acquire_reuse, Acquired, Refused, TypeOK, CallType
  <2>2. clock.age \in Nat /\ Timeout \in Nat /\ call.attempt \in 1..2 /\ call.at = "acquire"
    BY BoundsAssumption DEF acquire_reuse, TypeOK, CallType
  <2>3. QED
    BY <2>1, <2>2 DEF Deadlines, Asked
<1>4. Channel' /\ (Waiting => Meets)'
  BY DEF acquire_reuse, Reusable, Acquired, Refused, TypeOK, PoolType,
     ConnType, CallType, PeerType, Channel, Waiting, Continues, Meets, Own,
     ctx, Terminal
<1>5. Delivered' /\ RelayedInOrder'
  BY DEF acquire_reuse, Reusable, Acquired, Refused, TypeOK, PoolType,
     CallType, Delivered, RelayedInOrder, Before, Asked, ctx
<1>6. ResourcesReturned'
  BY DEF acquire_reuse, Reusable, Acquired, Refused, TypeOK, PoolType,
     CallType, Phases, ResourcesReturned
<1>7. QED
  BY <1>1, <1>2, <1>3, <1>4, <1>5, <1>6

\* A new connection.
LEMMA ConnectStep == PoolInv /\ acquire_connect => PoolInv'
<1> SUFFICES ASSUME PoolInv, acquire_connect PROVE PoolInv'
  OBVIOUS
<1> USE DEF PoolInv
<1>1. TypeOK'
  <2>1. pool' \in PoolType /\ call' \in CallType
    BY BoundsAssumption, Zeros DEF acquire_connect, Reusable, ConnZero, PeerUp,
       TypeOK, PoolType, CallType, Ats, Statuses
  <2>2. conn' \in ConnType
    <3>1. conn' = [state |-> "NEGOTIATING", caps |-> {}, next |-> 2]
      BY DEF acquire_connect, ConnZero
    <3>2. QED
      BY <3>1 DEF ConnType, States
  <2>p. peer' \in PeerType /\ inbox' \in Seq(Frame)
    BY Zeros DEF acquire_connect
  <2>3. clock' \in [left: Nat, age: Nat]
    BY BoundsAssumption DEF acquire_connect, Reusable, ConnZero, PeerUp, TypeOK
  <2>4. sockets' \in Nat
    BY DEF acquire_connect, Reusable, ConnZero, PeerUp, TypeOK, Phases,
       ResourcesReturned
  <2>5. vectors' \in Nat
    BY DEF acquire_connect, Reusable, ConnZero, PeerUp, TypeOK, Phases,
       ResourcesReturned, ctx, Field
  <2>6. QED
    BY <2>1, <2>2, <2>p, <2>3, <2>4, <2>5 DEF acquire_connect, Reusable,
       ConnZero, PeerUp, TypeOK
<1>2. Phases' /\ IdsBounded'
  BY DEF acquire_connect, Reusable, ConnZero, PeerUp, TypeOK, PoolType,
     ConnType, CallType, PeerType, Phases, IdsBounded, Before
<1>3. Deadlines'
  BY BoundsAssumption DEF acquire_connect, Reusable, ConnZero, PeerUp, TypeOK,
     CallType, Deadlines, Asked
<1>4. Channel' /\ (Waiting => Meets)'
  BY DEF acquire_connect, Reusable, ConnZero, PeerUp, TypeOK, PoolType,
     ConnType, CallType, PeerType, Channel, Waiting, Continues, Meets, Own,
     ctx, Terminal
<1>5. Delivered' /\ RelayedInOrder'
  BY DEF acquire_connect, Reusable, ConnZero, PeerUp, TypeOK, PoolType,
     CallType, Delivered, RelayedInOrder, Before, Asked, ctx
<1>6. ResourcesReturned'
  BY DEF acquire_connect, Reusable, ConnZero, PeerUp, TypeOK, PoolType,
     CallType, Phases, ResourcesReturned
<1>7. QED
  BY <1>1, <1>2, <1>3, <1>4, <1>5, <1>6

\* A connection that cannot be made.
LEMMA ConnectFailsStep == PoolInv /\ acquire_connect_fails => PoolInv'
<1> SUFFICES ASSUME PoolInv, acquire_connect_fails PROVE PoolInv'
  OBVIOUS
<1> USE DEF PoolInv
<1>1. TypeOK'
  <2>1. pool' \in PoolType /\ call' \in CallType
    BY BoundsAssumption, Zeros DEF acquire_connect_fails, Reusable, Refused,
       Disconnected, ConnZero, PeerUp, TypeOK, PoolType, CallType, Ats,
       Statuses
  <2>2. conn' \in ConnType /\ peer' \in PeerType /\ inbox' \in Seq(Frame)
    BY Zeros DEF acquire_connect_fails, Reusable, Refused, Disconnected,
       ConnZero, PeerUp, TypeOK, ConnType, States
  <2>3. clock' \in [left: Nat, age: Nat]
    BY BoundsAssumption DEF acquire_connect_fails, Reusable, Refused,
       Disconnected, ConnZero, PeerUp, TypeOK
  <2>4. sockets' \in Nat
    BY DEF acquire_connect_fails, Reusable, Refused, Disconnected, ConnZero,
       PeerUp, TypeOK, Phases, ResourcesReturned
  <2>5. vectors' \in Nat
    BY DEF acquire_connect_fails, Reusable, Refused, Disconnected, ConnZero,
       PeerUp, TypeOK, Phases, ResourcesReturned, ctx, Field
  <2>6. QED
    BY <2>1, <2>2, <2>3, <2>4, <2>5 DEF acquire_connect_fails, Reusable,
       Refused, Disconnected, ConnZero, PeerUp, TypeOK
<1>2. Phases' /\ IdsBounded'
  BY DEF acquire_connect_fails, Reusable, Refused, Disconnected, ConnZero,
     PeerUp, TypeOK, PoolType, ConnType, CallType, PeerType, Phases,
     IdsBounded, Before
<1>3. Deadlines'
  BY BoundsAssumption DEF acquire_connect_fails, Reusable, Refused,
     Disconnected, ConnZero, PeerUp, TypeOK, CallType, Deadlines, Asked
<1>4. Channel' /\ (Waiting => Meets)'
  BY DEF acquire_connect_fails, Reusable, Refused, Disconnected, ConnZero,
     PeerUp, TypeOK, PoolType, ConnType, CallType, PeerType, Channel, Waiting,
     Continues, Meets, Own, ctx, Terminal
<1>5. Delivered' /\ RelayedInOrder'
  BY DEF acquire_connect_fails, Reusable, Refused, Disconnected, ConnZero,
     PeerUp, TypeOK, PoolType, CallType, Delivered, RelayedInOrder, Before,
     Asked, ctx
<1>6. ResourcesReturned'
  BY DEF acquire_connect_fails, Reusable, Refused, Disconnected, ConnZero,
     PeerUp, TypeOK, PoolType, CallType, Phases, ResourcesReturned
<1>7. QED
  BY <1>1, <1>2, <1>3, <1>4, <1>5, <1>6

\* The negotiation succeeds, or grants too little.
LEMMA AckStep == PoolInv /\ negotiate_ack => PoolInv'
<1> SUFFICES ASSUME PoolInv, negotiate_ack PROVE PoolInv'
  OBVIOUS
<1> USE DEF PoolInv
<1>1. TypeOK'
  <2>1. pool' \in PoolType /\ call' \in CallType
    BY BoundsAssumption, Zeros DEF negotiate_ack, Acquired, Refused, ConnZero,
       PeerUp, TypeOK, PoolType, CallType, Ats, Statuses
  <2>2. conn' \in ConnType /\ peer' \in PeerType /\ inbox' \in Seq(Frame)
    BY Zeros DEF negotiate_ack, Acquired, Refused, ConnZero, PeerUp, TypeOK,
       ConnType, States
  <2>3. clock' \in [left: Nat, age: Nat]
    BY BoundsAssumption DEF negotiate_ack, Acquired, Refused, ConnZero, PeerUp,
       TypeOK
  <2>4. sockets' \in Nat
    BY DEF negotiate_ack, Acquired, Refused, ConnZero, PeerUp, TypeOK, Phases,
       ResourcesReturned
  <2>5. vectors' \in Nat
    BY DEF negotiate_ack, Acquired, Refused, ConnZero, PeerUp, TypeOK, Phases,
       ResourcesReturned, ctx, Field
  <2>6. QED
    BY <2>1, <2>2, <2>3, <2>4, <2>5 DEF negotiate_ack, Acquired, Refused,
       ConnZero, PeerUp, TypeOK
<1>2. Phases' /\ IdsBounded'
  <2> PICK caps \in SUBSET Kinds :
        IF call.kind \in caps
        THEN /\ conn' = [conn EXCEPT !.state = "OPEN", !.caps = caps]
             /\ Acquired
        ELSE conn' = ConnZero /\ Refused("UNSUPPORTED") /\ UNCHANGED pool
    BY DEF negotiate_ack
  <2>1. call.at = "negotiate" /\ ~pool.busy /\ ~pool.valid /\ conn.next = 2
    BY DEF negotiate_ack, Phases
  <2>2. call.no \in Nat /\ call.no >= 1
    BY <2>1, BoundsAssumption DEF Phases, TypeOK, CallType
  <2>3. CASE call.kind \in caps
    <3>1. /\ conn'.next = 2 /\ call'.at = "send" /\ call'.no = call.no
          /\ call'.kind = call.kind
          /\ pool'.valid /\ pool'.busy /\ pool'.kind = call.kind
      BY <2>1, <2>3 DEF Acquired, TypeOK, ConnType, CallType, PoolType
    <3>2. QED
      BY <2>2, <3>1 DEF Phases, IdsBounded, Before
  <2>4. CASE call.kind \notin caps
    <3>1. /\ conn' = ConnZero /\ call'.at = "idle" /\ call'.no = call.no
          /\ pool' = pool
      BY <2>4 DEF Refused, TypeOK, CallType
    <3>2. QED
      BY <2>1, <2>2, <3>1 DEF Phases, IdsBounded, Before, ConnZero
  <2>5. QED
    BY <2>3, <2>4
<1>3. Deadlines'
  BY BoundsAssumption DEF negotiate_ack, Acquired, Refused, ConnZero, PeerUp,
     TypeOK, CallType, Deadlines, Asked
<1>4. Channel' /\ (Waiting => Meets)'
  <2>1. inbox' = <<>> /\ peer' = PeerUp /\ call'.at \notin {"loop", "poll"}
    BY DEF negotiate_ack, Acquired, Refused, ConnZero, PeerUp, TypeOK,
       CallType, Phases
  <2>2. QED
    BY <2>1 DEF Channel, Waiting, PeerUp
<1>5. Delivered' /\ RelayedInOrder'
  BY DEF negotiate_ack, Acquired, Refused, ConnZero, PeerUp, TypeOK, PoolType,
     CallType, Delivered, RelayedInOrder, Before, Asked, ctx
<1>6. ResourcesReturned'
  <2>1. /\ call.at = "negotiate" /\ ~pool.busy /\ ~pool.valid
        /\ sockets = 1 /\ vectors = 0 /\ vectors' = vectors
    BY DEF negotiate_ack, Phases, ResourcesReturned
  <2>2. CASE Acquired /\ UNCHANGED sockets
    BY <2>1, <2>2 DEF Acquired, TypeOK, PoolType, CallType, ResourcesReturned
  <2>3. CASE Refused("UNSUPPORTED") /\ sockets' = sockets - 1 /\ UNCHANGED pool
    BY <2>1, <2>3 DEF Refused, TypeOK, CallType, ResourcesReturned
  <2>4. QED
    BY <2>2, <2>3 DEF negotiate_ack
<1>7. QED
  BY <1>1, <1>2, <1>3, <1>4, <1>5, <1>6

\* The negotiation fails.
LEMMA NegotiateFailsStep == PoolInv /\ negotiate_fails => PoolInv'
<1> SUFFICES ASSUME PoolInv, negotiate_fails PROVE PoolInv'
  OBVIOUS
<1> USE DEF PoolInv
<1>1. TypeOK'
  <2>1. pool' \in PoolType /\ call' \in CallType
    BY BoundsAssumption, Zeros DEF negotiate_fails, Refused, ConnZero, PeerUp,
       TypeOK, PoolType, CallType, Ats, Statuses
  <2>2. conn' \in ConnType /\ peer' \in PeerType /\ inbox' \in Seq(Frame)
    BY Zeros DEF negotiate_fails, Refused, ConnZero, PeerUp, TypeOK, ConnType,
       States
  <2>3. clock' \in [left: Nat, age: Nat]
    BY BoundsAssumption DEF negotiate_fails, Refused, ConnZero, PeerUp, TypeOK
  <2>4. sockets' \in Nat
    BY DEF negotiate_fails, Refused, ConnZero, PeerUp, TypeOK, Phases,
       ResourcesReturned
  <2>5. vectors' \in Nat
    BY DEF negotiate_fails, Refused, ConnZero, PeerUp, TypeOK, Phases,
       ResourcesReturned, ctx, Field
  <2>6. QED
    BY <2>1, <2>2, <2>3, <2>4, <2>5 DEF negotiate_fails, Refused, ConnZero,
       PeerUp, TypeOK
<1>2. Phases' /\ IdsBounded'
  <2>1. PICK st : Refused(st)
    BY DEF negotiate_fails
  <2>2. call'.at = "idle" /\ conn' = ConnZero /\ call'.no = call.no /\ call.no \in Nat
    BY <2>1, BoundsAssumption DEF negotiate_fails, Refused, TypeOK, CallType
  <2>3. ~pool'.busy
    BY DEF negotiate_fails, Phases
  <2>4. QED
    BY <2>2, <2>3 DEF Phases, IdsBounded, ConnZero, Before
<1>3. Deadlines'
  BY BoundsAssumption DEF negotiate_fails, Refused, ConnZero, PeerUp, TypeOK,
     CallType, Deadlines, Asked
<1>4. Channel' /\ (Waiting => Meets)'
  <2>1. inbox' = <<>> /\ peer' = PeerUp /\ call'.at \notin {"loop", "poll"}
    BY DEF negotiate_fails, Refused, ConnZero, PeerUp, TypeOK, CallType, Phases
  <2>2. QED
    BY <2>1 DEF Channel, Waiting, PeerUp
<1>5. Delivered' /\ RelayedInOrder'
  BY DEF negotiate_fails, Refused, ConnZero, PeerUp, TypeOK, PoolType,
     CallType, Delivered, RelayedInOrder, Before, Asked, ctx
<1>6. ResourcesReturned'
  <2>1. /\ call.at = "negotiate" /\ call'.at = "idle" /\ sockets' = sockets - 1
        /\ UNCHANGED <<pool, vectors>>
    BY DEF negotiate_fails, Refused, TypeOK, CallType
  <2>2. ~pool.busy /\ ~pool.valid /\ sockets = 1 /\ vectors = 0
    BY <2>1 DEF Phases, ResourcesReturned
  <2>3. QED
    BY <2>1, <2>2 DEF ResourcesReturned
<1>7. QED
  BY <1>1, <1>2, <1>3, <1>4, <1>5, <1>6

\* The head of the wait loop.
LEMMA LoopStep == PoolInv /\ loop => PoolInv'
<1> SUFFICES ASSUME PoolInv, loop PROVE PoolInv'
  OBVIOUS
<1> USE DEF PoolInv
<1>1. TypeOK'
  <2>1. pool' \in PoolType /\ call' \in CallType
    BY BoundsAssumption, Zeros DEF loop, TypeOK, PoolType, CallType, Ats,
       Statuses
  <2>2. conn' \in ConnType /\ peer' \in PeerType /\ inbox' \in Seq(Frame)
    BY Zeros DEF loop, TypeOK, ConnType, States
  <2>3. clock' \in [left: Nat, age: Nat]
    BY BoundsAssumption DEF loop, TypeOK
  <2>4. sockets' \in Nat
    BY DEF loop, TypeOK, Phases, ResourcesReturned
  <2>5. vectors' \in Nat
    BY DEF loop, TypeOK, Phases, ResourcesReturned, ctx, Field
  <2>6. QED
    BY <2>1, <2>2, <2>3, <2>4, <2>5 DEF loop, TypeOK
<1>2. Phases' /\ IdsBounded'
  BY DEF loop, TypeOK, PoolType, ConnType, CallType, PeerType, Phases,
     IdsBounded, Before
<1>3. Deadlines'
  BY BoundsAssumption DEF loop, TypeOK, CallType, Deadlines, Asked
<1>4. Channel' /\ (Waiting => Meets)'
  BY DEF loop, TypeOK, PoolType, ConnType, CallType, PeerType, Channel,
     Waiting, Continues, Meets, Own, ctx, Terminal
<1>5. Delivered' /\ RelayedInOrder'
  BY DEF loop, TypeOK, PoolType, CallType, Delivered, RelayedInOrder, Before,
     Asked, ctx
<1>6. ResourcesReturned'
  BY DEF loop, TypeOK, PoolType, CallType, Phases, ResourcesReturned
<1>7. QED
  BY <1>1, <1>2, <1>3, <1>4, <1>5, <1>6

\* The way out of a call.
LEMMA ReturnsStep == PoolInv /\ attempt_returns => PoolInv'
<1> SUFFICES ASSUME PoolInv, attempt_returns PROVE PoolInv'
  OBVIOUS
<1> USE DEF PoolInv
<1>1. TypeOK'
  <2>1. pool' \in PoolType /\ call' \in CallType
    BY BoundsAssumption, Zeros DEF attempt_returns, released, Retry, TypeOK,
       PoolType, CallType, Ats, Statuses
  <2>2. conn' \in ConnType /\ peer' \in PeerType /\ inbox' \in Seq(Frame)
    BY Zeros DEF attempt_returns, released, Retry, TypeOK, ConnType, States
  <2>3. clock' \in [left: Nat, age: Nat]
    BY BoundsAssumption DEF attempt_returns, released, Retry, TypeOK
  <2>4. sockets' \in Nat
    BY DEF attempt_returns, released, Retry, TypeOK, Phases, ResourcesReturned
  <2>5. vectors' \in Nat
    BY DEF attempt_returns, released, Retry, TypeOK, Phases, ResourcesReturned,
       ctx, Field
  <2>6. QED
    BY <2>1, <2>2, <2>3, <2>4, <2>5 DEF attempt_returns, released, Retry, TypeOK
<1>2. Phases' /\ IdsBounded'
  BY DEF attempt_returns, released, Retry, TypeOK, PoolType, ConnType,
     CallType, PeerType, Phases, IdsBounded, Before
<1>3. Deadlines'
  BY BoundsAssumption DEF attempt_returns, released, Retry, TypeOK, CallType,
     Deadlines, Asked
<1>4. Channel' /\ (Waiting => Meets)'
  BY DEF attempt_returns, released, Retry, TypeOK, PoolType, ConnType,
     CallType, PeerType, Channel, Waiting, Continues, Meets, Own, ctx, Terminal
<1>5. Delivered' /\ RelayedInOrder'
  BY DEF attempt_returns, released, Retry, TypeOK, PoolType, CallType,
     Delivered, RelayedInOrder, Before, Asked, ctx
<1>6. ResourcesReturned'
  <2>1. /\ call.at = "fail" /\ call'.at = "idle" /\ ~pool'.busy
        /\ pool'.valid = pool.valid /\ sockets' = sockets
    BY DEF attempt_returns, released, TypeOK, PoolType, CallType
  <2>2. vectors = IF call.kind = "EMBED" /\ pool.emb.done THEN 1 ELSE 0
    BY <2>1 DEF Phases, ResourcesReturned
  <2>3. vectors' = 0
    BY <2>2, CtxOfKind DEF attempt_returns
  <2>4. QED
    BY <2>1, <2>3 DEF ResourcesReturned
<1>7. QED
  BY <1>1, <1>2, <1>3, <1>4, <1>5, <1>6

\* The one retry.
LEMMA RetriesStep == PoolInv /\ attempt_retries => PoolInv'
<1> SUFFICES ASSUME PoolInv, attempt_retries PROVE PoolInv'
  OBVIOUS
<1> USE DEF PoolInv
<1>1. TypeOK'
  <2>1. call' \in CallType
    <3>1. call.attempt + 1 \in 1..2
      BY DEF attempt_retries, Retry, TypeOK, CallType
    <3>2. QED
      BY <3>1 DEF attempt_retries, TypeOK, CallType, Ats
  <2>2. pool' \in PoolType
    BY DEF attempt_retries, released, TypeOK, PoolType
  <2>3. sockets' \in Nat
    BY DEF attempt_retries, TypeOK, Phases, ResourcesReturned
  <2>4. QED
    BY <2>1, <2>2, <2>3, Zeros DEF attempt_retries, Disconnected, TypeOK
<1>2. Phases' /\ IdsBounded'
  BY DEF attempt_retries, released, Retry, Disconnected, ConnZero, PeerUp,
     TypeOK, PoolType, ConnType, CallType, PeerType, Phases, IdsBounded, Before
<1>3. Deadlines'
  BY BoundsAssumption DEF attempt_retries, released, Retry, Disconnected,
     ConnZero, PeerUp, TypeOK, CallType, Deadlines, Asked
<1>4. Channel' /\ (Waiting => Meets)'
  BY DEF attempt_retries, released, Retry, Disconnected, ConnZero, PeerUp,
     TypeOK, PoolType, ConnType, CallType, PeerType, Channel, Waiting,
     Continues, Meets, Own, ctx, Terminal
<1>5. Delivered' /\ RelayedInOrder'
  BY DEF attempt_retries, released, Retry, Disconnected, ConnZero, PeerUp,
     TypeOK, PoolType, CallType, Delivered, RelayedInOrder, Before, Asked, ctx
<1>6. ResourcesReturned'
  <2>1. /\ call.at = "fail" /\ call'.at = "acquire" /\ ~pool'.busy
        /\ ~pool'.valid /\ sockets' = sockets - 1 /\ vectors' = vectors
    BY DEF attempt_retries, released, TypeOK, PoolType, CallType
  <2>2. sockets = 1
    BY <2>1 DEF Phases, ResourcesReturned
  <2>3. call.kind = "EMBED" => ~pool.emb.done
    BY CtxOfKind DEF attempt_retries, Retry, Terminal
  <2>4. QED
    BY <2>1, <2>2, <2>3 DEF ResourcesReturned
<1>7. QED
  BY <1>1, <1>2, <1>3, <1>4, <1>5, <1>6

\* Time passes.
LEMMA TickStep == PoolInv /\ tick => PoolInv'
<1> SUFFICES ASSUME PoolInv, tick PROVE PoolInv'
  OBVIOUS
<1> USE DEF PoolInv
<1>1. TypeOK'
  <2>1. pool' \in PoolType /\ call' \in CallType
    BY BoundsAssumption, Zeros DEF tick, TypeOK, PoolType, CallType, Ats,
       Statuses
  <2>2. conn' \in ConnType /\ peer' \in PeerType /\ inbox' \in Seq(Frame)
    BY Zeros DEF tick, TypeOK, ConnType, States
  <2>3. clock' \in [left: Nat, age: Nat]
    BY BoundsAssumption DEF tick, TypeOK
  <2>4. sockets' \in Nat
    BY DEF tick, TypeOK, Phases, ResourcesReturned
  <2>5. vectors' \in Nat
    BY DEF tick, TypeOK, Phases, ResourcesReturned, ctx, Field
  <2>6. QED
    BY <2>1, <2>2, <2>3, <2>4, <2>5 DEF tick, TypeOK
<1>2. Phases' /\ IdsBounded'
  BY DEF tick, TypeOK, PoolType, ConnType, CallType, PeerType, Phases,
     IdsBounded, Before
<1>3. Deadlines'
  BY BoundsAssumption DEF tick, TypeOK, CallType, Deadlines, Asked
<1>4. Channel' /\ (Waiting => Meets)'
  BY DEF tick, TypeOK, PoolType, ConnType, CallType, PeerType, Channel,
     Waiting, Continues, Meets, Own, ctx, Terminal
<1>5. Delivered' /\ RelayedInOrder'
  BY DEF tick, TypeOK, PoolType, CallType, Delivered, RelayedInOrder, Before,
     Asked, ctx
<1>6. ResourcesReturned'
  BY DEF tick, TypeOK, PoolType, CallType, Phases, ResourcesReturned
<1>7. QED
  BY <1>1, <1>2, <1>3, <1>4, <1>5, <1>6

-----------------------------------------------------------------------------
(* The request is sent. *)

\* The context is cleared and the request joins the peer's queue.
LEMMA SendStep == PoolInv /\ send_request => PoolInv'
<1> SUFFICES ASSUME PoolInv, send_request PROVE PoolInv'
  OBVIOUS
<1> USE DEF PoolInv
<1>1. /\ call.at = "send" /\ pool.busy /\ pool.valid /\ pool.kind = call.kind
      /\ conn.next \in 2..MaxCalls + 1 /\ conn.next <= call.no + 1
      /\ call.no \in 1..MaxCalls /\ call.attempt \in 1..2 /\ call.kind \in Kinds
  BY BoundsAssumption DEF send_request, Phases, IdsBounded, Before, TypeOK,
     ConnType, CallType
<1>2. /\ conn' = [conn EXCEPT !.next = @ + 1] /\ conn'.next = conn.next + 1
      /\ conn' \in ConnType /\ conn'.state = conn.state
  <2>1. conn \in ConnType /\ conn.next + 1 \in Nat
    BY Elements DEF TypeOK
  <2>2. conn' = [conn EXCEPT !.next = conn.next + 1]
    BY DEF send_request
  <2>3. QED
    BY <2>1, <2>2 DEF ConnType
<1>3. /\ call'.at \in {"loop", "fail"} /\ call'.kind = call.kind
      /\ call'.no = call.no /\ call'.attempt = call.attempt /\ call' \in CallType
      /\ call'.at = "fail" => call'.st = "IO"
  BY DEF send_request, TypeOK, CallType, Ats, Statuses
<1>4. /\ ctx' = [CtxZero EXCEPT !.request_id = conn.next] /\ ctx' \in Ctx
      /\ pool' \in PoolType /\ pool'.busy /\ pool'.valid /\ pool'.kind = call.kind
  <2>1. [CtxZero EXCEPT !.request_id = conn.next] \in Ctx
    BY <1>1, Zeros DEF Ctx
  <2>2. CASE call.kind = "GENERATE"
    BY <1>1, <1>3, <2>1, <2>2 DEF send_request, ctx, Field, TypeOK, PoolType
  <2>3. CASE call.kind = "EMBED"
    BY <1>1, <1>3, <2>1, <2>3 DEF send_request, ctx, Field, TypeOK, PoolType
  <2>4. QED
    BY <1>1, <2>2, <2>3 DEF Kinds
<1>5. /\ ctx'.request_id = conn.next /\ ctx'.tokens = 0
      /\ ~ctx'.done /\ ~ctx'.error
  BY <1>4 DEF CtxZero
<1>6. TheRequest \in Request /\ TheRequest.req = conn.next
  BY <1>1 DEF TheRequest, Request
<1>7. \/ peer' = peer
      \/ peer.end = "up" /\ peer' = [peer EXCEPT !.todo = Append(@, TheRequest)]
  BY DEF send_request
<1>8. UNCHANGED <<clock, inbox, sockets, vectors, relayed>>
  BY DEF send_request
<1>9. /\ peer' \in PeerType /\ peer'.n = peer.n /\ peer'.end = peer.end
      /\ \/ peer'.todo = peer.todo
         \/ peer'.todo = Append(peer.todo, TheRequest)
  <2>1. peer \in PeerType /\ Append(peer.todo, TheRequest) \in Seq(Request)
    BY <1>6 DEF TypeOK, PeerType
  <2>2. QED
    BY <2>1, <1>7 DEF PeerType
<1>10. TypeOK'
  BY <1>2, <1>3, <1>4, <1>8, <1>9 DEF TypeOK
<1>11. Phases' /\ IdsBounded'
  BY <1>1, <1>2, <1>3, <1>4 DEF Phases, IdsBounded, Before
<1>12. Deadlines'
  BY <1>1, <1>3, <1>8 DEF Deadlines, Asked
<1>13. /\ \A i \in 1..Len(peer'.todo) :
            \/ peer'.todo[i] = TheRequest /\ i = Len(peer.todo) + 1
            \/ i \in 1..Len(peer.todo) /\ peer'.todo[i] = peer.todo[i]
       /\ Len(peer'.todo) \in Nat
       /\ peer.todo # <<>> => peer'.todo # <<>> /\ peer'.todo[1] = peer.todo[1]
       /\ peer.todo = <<>> /\ peer'.todo # <<>> => peer'.todo[1] = TheRequest
  <2>1. CASE peer'.todo = peer.todo
    BY <2>1, Elements
  <2>2. CASE peer'.todo = Append(peer.todo, TheRequest)
    <3>1. peer.todo \in Seq(Request) /\ TheRequest \in Request
      BY <1>6, Elements
    <3>2. /\ Len(peer'.todo) = Len(peer.todo) + 1
          /\ \A i \in 1..Len(peer.todo) : peer'.todo[i] = peer.todo[i]
          /\ peer'.todo[Len(peer.todo) + 1] = TheRequest
      BY <2>2, <3>1, AppendProperties
    <3>3. QED
      BY <3>1, <3>2, Elements
  <2>3. QED
    BY <1>9, <2>1, <2>2
<1>14. Channel'
  <2>1. \A i \in 1..Len(inbox) : WellFormed(inbox[i]) /\ inbox[i].to.req < conn'.next
    BY <1>1, <1>2, Elements DEF Channel
  <2>2. \A i \in 1..Len(peer'.todo) : peer'.todo[i].req < conn'.next
    <3>1. \A i \in 1..Len(peer.todo) : peer.todo[i].req < conn.next
      BY DEF Channel
    <3>2. conn.next \in Nat /\ conn'.next = conn.next + 1
      BY <1>2, Elements
    <3>3. ASSUME NEW i \in 1..Len(peer'.todo)
          PROVE  peer'.todo[i].req < conn'.next
      <4>1. CASE peer'.todo[i] = TheRequest
        BY <1>6, <3>2, <4>1
      <4>2. CASE i \in 1..Len(peer.todo) /\ peer'.todo[i] = peer.todo[i]
        BY <3>1, <3>2, <4>2, Elements
      <4>3. QED
        BY <1>13, <4>1, <4>2
    <3>4. QED
      BY <3>3
  <2>3. ASSUME NEW i \in 1..Len(peer'.todo), NEW j \in 1..Len(peer'.todo), i < j
        PROVE  peer'.todo[i].req < peer'.todo[j].req
    <3>1. i \in 1..Len(peer.todo) /\ peer'.todo[i] = peer.todo[i]
      <4>1. i # Len(peer.todo) + 1
        BY <1>13, <2>3, Elements
      <4>2. QED
        BY <1>13, <4>1
    <3>2. CASE peer'.todo[j] = TheRequest
      BY <1>6, <3>1, <3>2 DEF Channel
    <3>3. CASE j \in 1..Len(peer.todo) /\ peer'.todo[j] = peer.todo[j]
      BY <2>3, <3>1, <3>3 DEF Channel
    <3>4. QED
      BY <1>13, <3>2, <3>3
  <2>4. peer'.todo = <<>> => peer'.n = 0
    BY <1>9, <1>13 DEF Channel
  <2>5. ASSUME peer'.end = "up", inbox # <<>>
        PROVE  Continues(inbox[Len(inbox)])'
    <3> DEFINE f == inbox[Len(inbox)]
    <3>1. f.to.req < conn.next /\ f.to.req \in Nat /\ Continues(f)
      BY <1>9, <2>5, Elements DEF Channel
    <3>2. QED
      BY <1>1, <1>6, <1>8, <1>9, <1>13, <3>1 DEF Continues
  <2>6. \A i \in 1..Len(inbox) - 1 : Follows(inbox[i], inbox[i + 1])
    BY DEF Channel
  <2>7. QED
    BY <1>8, <2>1, <2>2, <2>3, <2>4, <2>5, <2>6 DEF Channel
<1>15. (Waiting => Meets)'
  <2>1. \A i \in 1..Len(inbox) : inbox[i].to.req # conn.next
    BY <1>1, Elements DEF Channel
  <2>2. \A i \in 1..Len(peer.todo) : peer.todo[i].req # conn.next
    BY <1>1, Elements DEF Channel
  <2>3. (\A i \in 1..Len(peer.todo) : Own(peer.todo[i]))'
    <3>2. \A q : q.req # conn.next => (q.req # ctx'.request_id)
      BY <1>5
    <3>3. ASSUME NEW i \in 1..Len(peer'.todo) PROVE Own(peer.todo[i])'
      <4>1. CASE i \in 1..Len(peer.todo) /\ peer'.todo[i] = peer.todo[i]
        BY <4>1, <2>2, <3>2 DEF Own
      <4>2. CASE peer'.todo[i] = TheRequest
        BY <1>3, <1>5, <4>2 DEF Own, TheRequest
      <4>3. QED
        BY <1>13, <4>1, <4>2
    <3>4. QED
      BY <3>3
  <2>4. peer'.todo # <<>> /\ peer'.todo[1].req = conn.next => peer'.n = 0
    BY <1>9, <1>13, <2>2, Elements DEF Channel
  <2>5. (\A i \in 1..Len(inbox) : Own(inbox[i].to))'
    BY <1>5, <1>8, <2>1 DEF Own
  <2>6. inbox # <<>> => inbox[1].to.req # ctx'.request_id
    BY <1>5, <2>1, Elements
  <2>7. ctx'.request_id < conn'.next
    BY <1>1, <1>2, <1>5
  <2>8. Meets'
    BY <1>5, <1>8, <2>3, <2>4, <2>5, <2>6, <2>7 DEF Meets
  <2>9. QED
    BY <2>8
<1>16. Delivered' /\ RelayedInOrder'
  BY <1>1, <1>3, <1>5, <1>8 DEF Delivered, RelayedInOrder, Before, Asked
<1>17. ResourcesReturned'
  <2>1. call.kind = "EMBED" => ~pool'.emb.done
    BY <1>3, <1>5 DEF ctx, Field
  <2>2. sockets = 1 /\ vectors = 0
    BY <1>1 DEF ResourcesReturned
  <2>3. QED
    BY <1>3, <1>4, <1>8, <2>1, <2>2 DEF ResourcesReturned
<1>18. QED
  BY <1>10, <1>11, <1>12, <1>14, <1>15, <1>16, <1>17

-----------------------------------------------------------------------------
(* One poll. *)

\* What the exchange makes of it.
LEMMA AfterPollFacts ==
  ASSUME TypeOK, NEW state, AfterPoll(state)
  PROVE  /\ call' \in CallType /\ call'.kind = call.kind
         /\ call'.no = call.no /\ call'.attempt = call.attempt
         /\ \/ call'.at = "loop"
            \/ call'.at = "fail" /\ ctx.error /\ call'.st = ctx.error_status
            \/ call'.at = "fail" /\ ctx.done /\ call'.st = "OK"
            \/ call'.at = "fail" /\ ~Terminal /\ call'.st = "IO"
<1>1. call \in CallType /\ ctx \in Ctx /\ ctx.error_status \in Statuses
  BY CtxOfKind DEF TypeOK, Ctx
<1>2. \/ ctx.error /\ call' = [call EXCEPT !.at = "fail", !.st = ctx.error_status]
      \/ ctx.done /\ call' = [call EXCEPT !.at = "fail", !.st = "OK"]
      \/ ~Terminal /\ call' = [call EXCEPT !.at = "fail", !.st = "IO"]
      \/ call' = [call EXCEPT !.at = "loop"]
  BY DEF AfterPoll
<1>3. CASE ctx.error /\ call' = [call EXCEPT !.at = "fail", !.st = ctx.error_status]
  BY <1>1, <1>3 DEF CallType, Ats
<1>4. CASE ctx.done /\ call' = [call EXCEPT !.at = "fail", !.st = "OK"]
  BY <1>1, <1>4 DEF CallType, Ats, Statuses
<1>5. CASE ~Terminal /\ call' = [call EXCEPT !.at = "fail", !.st = "IO"]
  BY <1>1, <1>5 DEF CallType, Ats, Statuses
<1>6. CASE call' = [call EXCEPT !.at = "loop"]
  BY <1>1, <1>6 DEF CallType, Ats
<1>7. QED
  BY <1>2, <1>3, <1>4, <1>5, <1>6

\* A poll that leaves the frames, the context and the tokens alone, and after
\* which the exchange goes on or ends with what the context says.
LEMMA PollEnds ==
  ASSUME PoolInv, call.at = "poll",
         UNCHANGED <<pool, clock, inbox, peer, sockets, vectors, relayed>>,
         conn' \in ConnType, conn'.next = conn.next,
         conn'.state \in {conn.state, "CLOSED"},
         call' \in CallType, call'.kind = call.kind,
         call'.no = call.no, call'.attempt = call.attempt,
         \/ call'.at = "loop"
         \/ call'.at = "fail" /\ ctx.error /\ call'.st = ctx.error_status
         \/ call'.at = "fail" /\ ctx.done /\ call'.st = "OK"
         \/ call'.at = "fail" /\ ~Terminal /\ call'.st = "IO"
         \/ call'.at = "fail" /\ call'.st = "PROTOCOL"
  PROVE  PoolInv'
<1> USE DEF PoolInv
<1>1. TypeOK' /\ ctx' = ctx
  BY DEF TypeOK, ctx
<1>2. call'.at \in {"loop", "fail"}
  OBVIOUS
<1>3. Phases' /\ IdsBounded'
  BY <1>2 DEF Phases, IdsBounded, Before
<1>4. Deadlines'
  BY <1>2 DEF Deadlines, Asked
<1>5. Channel'
  BY DEF Channel, Continues
<1>6. (Waiting => Meets)'
  BY <1>1 DEF Waiting, Meets, Own, Terminal
<1>7. Delivered' /\ RelayedInOrder'
  <2>1. /\ ctx.tokens = Len(relayed)
        /\ ctx.done => ctx.of = <<call.no, call.attempt, Len(relayed)>>
        /\ ctx.error => ~ctx.done /\ ctx.error_status # "OK"
        /\ call.kind = "EMBED" => relayed = <<>>
    BY DEF Delivered, Asked
  <2>2. call'.at = "fail" => (call'.st = "OK" => ctx.done) /\ (call'.st = "IO" => ~ctx.done)
    BY <2>1 DEF Terminal
  <2>3. QED
    BY <1>1, <1>2, <2>1, <2>2 DEF Delivered, RelayedInOrder, Before, Asked
<1>8. ResourcesReturned'
  BY <1>2 DEF ResourcesReturned
<1>9. QED
  BY <1>1, <1>3, <1>4, <1>5, <1>6, <1>7, <1>8

\* Nothing more to read, or the end of the stream.
LEMMA PollStep == PoolInv /\ (poll_drained \/ poll_eof \/ poll_torn) => PoolInv'
<1>1. ASSUME PoolInv, poll_drained PROVE PoolInv'
  BY <1>1, AfterPollFacts, PollEnds DEF poll_drained, PoolInv, TypeOK
<1>2. ASSUME TypeOK, conn' = [conn EXCEPT !.state = "CLOSED"]
      PROVE  conn' \in ConnType /\ conn'.next = conn.next /\ conn'.state = "CLOSED"
  BY <1>2 DEF TypeOK, ConnType, States
<1>3. ASSUME PoolInv, poll_eof PROVE PoolInv'
  BY <1>2, <1>3, AfterPollFacts, PollEnds DEF poll_eof, PoolInv
<1>4. ASSUME PoolInv, poll_torn PROVE PoolInv'
  <2>1. /\ call' \in CallType /\ call'.kind = call.kind
        /\ call'.no = call.no /\ call'.attempt = call.attempt
        /\ call'.at = "fail" /\ call'.st = "PROTOCOL"
    BY <1>4 DEF poll_torn, PoolInv, TypeOK, CallType, Ats, Statuses
  <2>2. QED
    BY <1>2, <1>4, <2>1, PollEnds DEF poll_torn, PoolInv
<1>5. QED
  BY <1>1, <1>3, <1>4

\* What a callback does with the frame: ignores it, relays a token, or ends
\* the exchange with an answer or an error.
Ignored(f) ==
  /\ UNCHANGED <<pool, relayed, vectors>>
  /\ \/ ~Expected(ctx, f)
     \/ call.kind = "GENERATE" /\ f.type = "EMBEDDING"
     \/ call.kind = "EMBED" /\ f.type \in {"TOKEN", "COMPLETE"}
Relayed(f) ==
  /\ f.type = "TOKEN" /\ call.kind = "GENERATE"
  /\ ctx' = [ctx EXCEPT !.tokens = @ + 1]
  /\ relayed' = Append(relayed, <<f.to.call, f.to.attempt, f.n>>)
  /\ UNCHANGED vectors
Completed(f) ==
  /\ f.type = IF call.kind = "GENERATE" THEN "COMPLETE" ELSE "EMBEDDING"
  /\ ctx' = Answered(ctx, f)
  /\ vectors' = IF call.kind = "EMBED" THEN vectors + 1 ELSE vectors
  /\ UNCHANGED relayed
Failed(f) ==
  /\ f.type # "TOKEN"
  /\ \E st \in PeerErrors \cup {"NOMEM", "PROTOCOL"} : ctx' = Errored(ctx, st)
  /\ UNCHANGED <<relayed, vectors>>

\* A frame that poll hands to the callback is ignored, because it is not of
\* this call, or it relays a token, completes the answer or fails it.
LEMMA FrameCases ==
  ASSUME PoolInv, poll_frame
  PROVE  LET f == inbox[1] IN
         /\ f \in Frame /\ inbox' = Tail(inbox) /\ inbox # <<>>
         /\ UNCHANGED <<conn, call, clock, peer, sockets>>
         /\ call.at = "poll"
         /\ pool'.valid = pool.valid /\ pool'.busy = pool.busy
         /\ pool'.kind = pool.kind
         /\ \/ Ignored(f)
            \/ /\ Expected(ctx, f)
               /\ ctx' \in Ctx => pool' \in PoolType
               /\ Relayed(f) \/ Completed(f) \/ Failed(f)
<1> DEFINE f == inbox[1]
<1> USE DEF PoolInv
<1>1. /\ call.at = "poll" /\ inbox # <<>> /\ inbox' = Tail(inbox)
      /\ UNCHANGED <<conn, call, clock, peer, sockets>>
      /\ remote_on_message(f) \/ embed_on_message(f)
  BY DEF poll_frame
<1>2. f \in Frame /\ f.st \in PeerErrors
  BY <1>1, Elements DEF Frame
<1>3. pool.kind = call.kind
  BY <1>1 DEF Phases
<1>4. pool \in PoolType /\ pool.gen \in Ctx /\ pool.emb \in Ctx
  BY DEF TypeOK, PoolType
<1>5. CASE remote_on_message(f)
  <2>1. call.kind = "GENERATE" /\ ctx = pool.gen /\ ctx' = pool'.gen /\ UNCHANGED vectors
    BY <1>1, <1>3, <1>5 DEF remote_on_message, ctx, Field
  <2>2. CASE ~Expected(pool.gen, f) \/ f.type = "EMBEDDING"
    BY <1>1, <1>2, <1>5, <2>1, <2>2 DEF remote_on_message, Ignored
  <2>3. CASE Expected(pool.gen, f) /\ f.type = "TOKEN"
    <3>1. /\ pool' = [pool EXCEPT !.gen = [pool.gen EXCEPT !.tokens = @ + 1]]
          /\ relayed' = Append(relayed, <<f.to.call, f.to.attempt, f.n>>)
      BY <1>5, <2>3 DEF remote_on_message
    <3>2. QED
      BY <1>1, <1>2, <1>4, <2>1, <2>3, <3>1 DEF Relayed, PoolType
  <2>4. CASE Expected(pool.gen, f) /\ f.type = "COMPLETE"
    <3>1. pool' = [pool EXCEPT !.gen = Answered(pool.gen, f)] /\ relayed' = relayed
      BY <1>5, <2>4 DEF remote_on_message
    <3>2. QED
      BY <1>1, <1>2, <1>4, <2>1, <2>4, <3>1 DEF Completed, PoolType
  <2>5. CASE Expected(pool.gen, f) /\ f.type = "ERROR"
    <3>1. pool' = [pool EXCEPT !.gen = Errored(pool.gen, f.st)] /\ relayed' = relayed
      BY <1>5, <2>5 DEF remote_on_message
    <3>2. QED
      BY <1>1, <1>2, <1>4, <2>1, <2>5, <3>1 DEF Failed, PoolType
  <2>6. QED
    BY <1>2, <2>2, <2>3, <2>4, <2>5 DEF Frame
<1>6. CASE embed_on_message(f)
  <2>1. call.kind = "EMBED" /\ ctx = pool.emb /\ ctx' = pool'.emb /\ UNCHANGED relayed
    BY <1>1, <1>3, <1>6 DEF embed_on_message, ctx, Field
  <2>2. CASE ~Expected(pool.emb, f) \/ f.type \in {"TOKEN", "COMPLETE"}
    BY <1>1, <1>2, <1>6, <2>1, <2>2 DEF embed_on_message, Ignored
  <2>3. CASE /\ Expected(pool.emb, f) /\ f.type = "EMBEDDING"
             /\ pool' = [pool EXCEPT !.emb = Answered(pool.emb, f)]
             /\ vectors' = vectors + 1
    BY <1>1, <1>2, <1>4, <2>1, <2>3 DEF Completed, PoolType
  <2>4. ASSUME NEW st \in PeerErrors \cup {"NOMEM", "PROTOCOL"},
               Expected(pool.emb, f), f.type # "TOKEN",
               pool' = [pool EXCEPT !.emb = Errored(pool.emb, st)], vectors' = vectors
        PROVE  /\ pool'.valid = pool.valid /\ pool'.busy = pool.busy
               /\ pool'.kind = pool.kind /\ Failed(f) /\ Expected(ctx, f)
               /\ ctx' \in Ctx => pool' \in PoolType
    BY <1>4, <2>1, <2>4 DEF Failed, PoolType
  <2>5. QED
    BY <1>1, <1>2, <1>6, <2>2, <2>3, <2>4 DEF embed_on_message, Frame
<1>7. QED
  BY <1>1, <1>5, <1>6

\* The frame leaves the inbox, and the next one continues where it ended.
LEMMA FrameStep == PoolInv /\ poll_frame => PoolInv'
<1> SUFFICES ASSUME PoolInv, poll_frame PROVE PoolInv'
  OBVIOUS
<1> USE DEF PoolInv
<1> DEFINE f == inbox[1]
<1>1. /\ f \in Frame /\ inbox' = Tail(inbox) /\ inbox # <<>>
      /\ UNCHANGED <<conn, call, clock, peer, sockets>> /\ call.at = "poll"
      /\ pool'.valid = pool.valid /\ pool'.busy = pool.busy
      /\ pool'.kind = pool.kind
      /\ \/ Ignored(f)
         \/ /\ Expected(ctx, f)
            /\ ctx' \in Ctx => pool' \in PoolType
            /\ Relayed(f) \/ Completed(f) \/ Failed(f)
  BY FrameCases
<1>2. /\ ctx \in Ctx /\ ctx.tokens \in 0..MaxTokens /\ Waiting /\ Asked /\ Meets
      /\ f.to \in Request /\ f.n \in 0..MaxTokens /\ WellFormed(f)
      /\ MaxTokens \in Nat /\ MaxCalls \in Nat
  BY <1>1, CtxOfKind, Elements, BoundsAssumption DEF Waiting, Asked, Ctx,
     Frame, Channel
<1>3. /\ Len(inbox) \in Nat /\ Len(inbox) >= 1 /\ Len(inbox') = Len(inbox) - 1
      /\ \A i \in 1..Len(inbox') : inbox'[i] = inbox[i + 1] /\ i + 1 \in 1..Len(inbox)
      /\ inbox' \in Seq(Frame)
  BY <1>1, Elements, HeadTailProperties DEF TypeOK
<1>4. Channel'
  <2>1. \A i \in 1..Len(inbox') : WellFormed(inbox'[i]) /\ inbox'[i].to.req < conn.next
    BY <1>3 DEF Channel
  <2>2. ASSUME NEW i \in 1..Len(inbox') - 1 PROVE Follows(inbox'[i], inbox'[i + 1])
    <3>1. i + 1 \in 1..Len(inbox) - 1 /\ i + 1 \in 1..Len(inbox') /\ i \in 1..Len(inbox')
      BY <1>3
    <3>2. QED
      BY <1>3, <3>1 DEF Channel
  <2>3. ASSUME peer.end = "up", inbox' # <<>> PROVE Continues(inbox[Len(inbox)])'
    <3>1. Len(inbox') \in 1..Len(inbox') /\ inbox'[Len(inbox')] = inbox[Len(inbox)]
      BY <1>3, <2>3
    <3>2. Continues(inbox[Len(inbox)])
      BY <1>1, <2>3 DEF Channel
    <3>3. QED
      BY <1>1, <3>1, <3>2 DEF Continues
  <2>4. QED
    BY <1>1, <2>1, <2>2, <2>3 DEF Channel
<1>5. /\ ctx' \in Ctx /\ ctx'.request_id = ctx.request_id
      /\ relayed' \in Seq((1..MaxCalls) \X (1..2) \X (1..MaxTokens))
      /\ \/ ctx'.done \/ ctx'.error
         \/ ~ctx'.done /\ ~ctx'.error /\ ctx'.tokens =
              IF Expected(ctx, f) /\ f.type = "TOKEN" /\ call.kind = "GENERATE"
              THEN ctx.tokens + 1 ELSE ctx.tokens
      /\ (~ctx.done /\ ~ctx.error) \/ ctx'.done \/ ctx'.error
      /\ ctx'.tokens = Len(relayed')
      /\ ctx'.done => ctx'.of = <<call.no, call.attempt, Len(relayed')>>
      /\ ctx'.error => ~ctx'.done /\ ctx'.error_status # "OK"
      /\ call.kind = "EMBED" => relayed' = <<>>
      /\ RelayedInOrder'
  <2>1. /\ ctx.tokens = Len(relayed)
        /\ ctx.done => ctx.of = <<call.no, call.attempt, Len(relayed)>>
        /\ ctx.error => ~ctx.done /\ ctx.error_status # "OK"
        /\ call.kind = "EMBED" => relayed = <<>>
        /\ RelayedInOrder
        /\ relayed \in Seq((1..MaxCalls) \X (1..2) \X (1..MaxTokens))
    BY <1>2 DEF Delivered, TypeOK
  <2>2. CASE Ignored(f)
    <3>1. ctx' = ctx /\ relayed' = relayed /\ call' = call
      BY <1>1, <2>2 DEF Ignored, ctx
    <3>2. ~(Expected(ctx, f) /\ f.type = "TOKEN" /\ call.kind = "GENERATE")
      BY <2>2 DEF Ignored
    <3>3. QED
      BY <1>2, <2>1, <3>1, <3>2 DEF RelayedInOrder
  <2>3. CASE Expected(ctx, f) /\ Relayed(f)
    <3>1. /\ f.n = ctx.tokens + 1 /\ f.to.call = call.no /\ f.to.attempt = call.attempt
      BY <1>1, <1>2, <1>3, <2>3 DEF Expected, Relayed, Meets, Own, Terminal
    <3>2. <<call.no, call.attempt, f.n>> \in (1..MaxCalls) \X (1..2) \X (1..MaxTokens)
      BY <1>2, <2>3, <3>1 DEF Request, Relayed, WellFormed
    <3>3. /\ relayed' = Append(relayed, <<call.no, call.attempt, f.n>>)
          /\ Len(relayed') = Len(relayed) + 1 /\ Len(relayed) \in Nat
          /\ relayed' \in Seq((1..MaxCalls) \X (1..2) \X (1..MaxTokens))
          /\ \A i \in 1..Len(relayed) : relayed'[i] = relayed[i]
          /\ relayed'[Len(relayed) + 1] = <<call.no, call.attempt, f.n>>
      BY <2>1, <2>3, <3>1, <3>2, AppendProperties DEF Relayed
    <3>4. RelayedInOrder'
      <4>1. DOMAIN relayed' = 1..Len(relayed) + 1 /\ DOMAIN relayed = 1..Len(relayed)
        BY <2>1, <3>3, LenProperties
      <4>2. ASSUME NEW i \in 1..Len(relayed) + 1
            PROVE  relayed'[i] = <<call.no, call.attempt, i>>
        <5>1. CASE i \in 1..Len(relayed)
          BY <1>1, <3>3, <4>1, <5>1 DEF RelayedInOrder
        <5>2. CASE i = Len(relayed) + 1
          BY <2>1, <3>1, <3>3, <5>2
        <5>3. QED
          BY <3>3, <5>1, <5>2
      <4>3. QED
        BY <1>1, <4>1, <4>2 DEF RelayedInOrder
    <3>5. /\ ctx' \in Ctx /\ ctx'.tokens = ctx.tokens + 1
          /\ ctx'.request_id = ctx.request_id /\ ~ctx'.done /\ ~ctx'.error
      BY <1>2, <2>3, <3>1 DEF Relayed, Ctx, Expected
    <3>6. QED
      BY <2>1, <2>3, <3>3, <3>4, <3>5 DEF Relayed, Expected
  <2>4. CASE Expected(ctx, f) /\ Completed(f)
    <3>1. relayed' = relayed /\ RelayedInOrder'
      BY <1>1, <2>1, <2>4 DEF Completed, RelayedInOrder
    <3>2. f.n = Len(relayed) /\ f.to.call = call.no /\ f.to.attempt = call.attempt
      <4>1. /\ f.to.call = call.no /\ f.to.attempt = call.attempt
            /\ f.type = "COMPLETE" => f.n = ctx.tokens
        BY <1>1, <1>2, <1>3, <2>4 DEF Expected, Meets, Own, Terminal
      <4>2. f.type = "COMPLETE" \/ (call.kind = "EMBED" /\ f.n = 0)
        BY <1>2, <2>4 DEF Completed, WellFormed, TypeOK, CallType, Kinds
      <4>3. QED
        BY <2>1, <4>1, <4>2
    <3>3. <<f.to.call, f.to.attempt, f.n>> \in (1..MaxCalls) \X (1..2) \X (0..MaxTokens)
      BY <1>2 DEF Request
    <3>4. /\ ctx' \in Ctx /\ ctx'.request_id = ctx.request_id /\ ctx'.done
          /\ ctx'.tokens = ctx.tokens /\ ctx'.of = <<f.to.call, f.to.attempt, f.n>>
          /\ ~ctx'.error
      BY <1>2, <2>4, <3>3 DEF Completed, Answered, Ctx, Expected
    <3>5. QED
      BY <2>1, <3>1, <3>2, <3>4
  <2>5. CASE Expected(ctx, f) /\ Failed(f)
    <3>1. relayed' = relayed /\ RelayedInOrder'
      BY <1>1, <2>1, <2>5 DEF Failed, RelayedInOrder
    <3>2. /\ ctx' \in Ctx /\ ctx'.request_id = ctx.request_id /\ ~ctx'.done
          /\ ctx'.error /\ ctx'.error_status # "OK" /\ ctx'.tokens = ctx.tokens
      BY <1>2, <2>5 DEF Failed, Errored, Ctx, Expected, PeerErrors, Statuses
    <3>3. QED
      BY <2>1, <3>1, <3>2
  <2>6. QED
    BY <1>1, <2>2, <2>3, <2>4, <2>5
<1>6. TypeOK'
  <2>1. pool' \in PoolType
    BY <1>1, <1>5 DEF Ignored, TypeOK
  <2>2. vectors' \in Nat
    BY <1>1 DEF Ignored, Relayed, Completed, Failed, TypeOK
  <2>3. QED
    BY <1>1, <1>3, <1>5, <2>1, <2>2 DEF TypeOK
<1>7. Phases' /\ IdsBounded' /\ Deadlines'
  BY <1>1 DEF Phases, IdsBounded, Deadlines, Before, Asked
<1>8. Delivered' /\ RelayedInOrder'
  BY <1>1, <1>5 DEF Delivered, Before, Asked
<1>9. ResourcesReturned'
  <2>1. sockets' = sockets /\ pool.busy
    BY <1>1 DEF Phases
  <2>2. vectors = IF call.kind = "EMBED" /\ pool.emb.done THEN 1 ELSE 0
    BY <1>1, <2>1 DEF ResourcesReturned
  <2>3. vectors' = IF call.kind = "EMBED" /\ pool'.emb.done THEN 1 ELSE 0
    <3>1. CASE call.kind = "EMBED"
      <4>1. ctx = pool.emb /\ ctx' = pool'.emb
        BY <1>1, <3>1 DEF ctx, Field
      <4>2. CASE Ignored(f)
        BY <2>2, <4>1, <4>2 DEF Ignored
      <4>3. CASE Expected(ctx, f) /\ Completed(f)
        BY <1>2, <2>2, <3>1, <4>1, <4>3 DEF Completed, Expected, Answered, Ctx
      <4>4. CASE Expected(ctx, f) /\ Failed(f)
        BY <1>2, <2>2, <3>1, <4>1, <4>4 DEF Failed, Expected, Errored, Ctx
      <4>5. QED
        BY <1>1, <3>1, <4>2, <4>3, <4>4 DEF Relayed
    <3>2. CASE call.kind # "EMBED"
      BY <1>1, <2>2, <3>2 DEF Ignored, Relayed, Completed, Failed
    <3>3. QED
      BY <3>1, <3>2
  <2>4. QED
    BY <1>1, <2>1, <2>3 DEF ResourcesReturned
<1>10. Meets'
  <2>1. ctx'.request_id < conn'.next
    BY <1>1, <1>2, <1>5 DEF Meets
  <2>2. (\A i \in 1..Len(inbox) : Own(inbox[i].to))'
    BY <1>1, <1>2, <1>3, <1>5 DEF Meets, Own
  <2>3. (\A i \in 1..Len(peer.todo) : Own(peer.todo[i]))'
    BY <1>1, <1>2, <1>5 DEF Meets, Own
  <2>4. SUFFICES ASSUME ~ctx'.done, ~ctx'.error
                 PROVE  /\ inbox' # <<>> =>
                             IF inbox'[1].to.req = ctx'.request_id
                             THEN /\ inbox'[1].type = "TOKEN" => inbox'[1].n = ctx'.tokens + 1
                                  /\ inbox'[1].type = "COMPLETE" => inbox'[1].n = ctx'.tokens
                             ELSE ctx'.tokens = 0
                        /\ inbox' = <<>> /\ peer.end = "up" /\ peer.todo # <<>> =>
                             ctx'.tokens = IF peer.todo[1].req = ctx'.request_id
                                           THEN peer.n ELSE 0
    BY <1>1, <2>1, <2>2, <2>3 DEF Meets, Terminal
  <2>5. /\ ~ctx.done /\ ~ctx.error
        /\ ctx'.tokens = IF Expected(ctx, f) /\ f.type = "TOKEN" /\ call.kind = "GENERATE"
                         THEN ctx.tokens + 1 ELSE ctx.tokens
    BY <1>5, <2>4
  <2>6. CASE f.to.req # ctx.request_id
    <3>1. ctx.tokens = 0 /\ ctx'.tokens = 0
      BY <1>1, <1>2, <2>5, <2>6 DEF Meets, Terminal, Expected
    <3>2. ASSUME inbox' # <<>>
          PROVE  inbox'[1].to.req = ctx'.request_id =>
                   /\ inbox'[1].type = "TOKEN" => inbox'[1].n = 1
                   /\ inbox'[1].type = "COMPLETE" => inbox'[1].n = 0
      <4>1. Follows(f, inbox[2]) /\ inbox'[1] = inbox[2]
        BY <1>3, <3>2 DEF Channel
      <4>2. QED
        BY <1>5, <2>6, <4>1 DEF Follows
    <3>3. ASSUME inbox' = <<>>, peer.end = "up", peer.todo # <<>>
          PROVE  peer.todo[1].req = ctx'.request_id => peer.n = 0
      <4>0. Len(inbox) = 1
        BY <1>3, <3>3
      <4>1. Continues(f)
        BY <1>1, <3>3, <4>0 DEF Channel
      <4>2. QED
        BY <1>5, <2>6, <4>1 DEF Continues
    <3>4. QED
      BY <3>1, <3>2, <3>3
  <2>7. CASE f.to.req = ctx.request_id
    <3>1. Expected(ctx, f) /\ f.to.kind = call.kind
      BY <1>2, <1>3, <2>5, <2>7 DEF Expected, Meets, Own
    <3>2. f.type = "TOKEN" /\ call.kind = "GENERATE"
      <4>1. ~Completed(f) /\ ~Failed(f)
        BY <1>2, <2>4 DEF Completed, Failed, Answered, Errored, Ctx
      <4>2. ~Ignored(f)
        BY <1>2, <3>1 DEF Ignored, WellFormed
      <4>3. QED
        BY <1>1, <4>1, <4>2 DEF Relayed
    <3>3. ctx'.tokens = f.n
      BY <1>1, <1>2, <2>5, <2>7, <3>1, <3>2 DEF Meets, Terminal
    <3>4. ASSUME inbox' # <<>>
          PROVE  /\ inbox'[1].to.req = ctx'.request_id
                 /\ inbox'[1].type = "TOKEN" => inbox'[1].n = f.n + 1
                 /\ inbox'[1].type = "COMPLETE" => inbox'[1].n = f.n
      <4>1. Follows(f, inbox[2]) /\ inbox'[1] = inbox[2]
        BY <1>3, <3>4 DEF Channel
      <4>2. QED
        BY <1>5, <2>7, <3>2, <4>1 DEF Follows
    <3>5. ASSUME inbox' = <<>>, peer.end = "up", peer.todo # <<>>
          PROVE  peer.todo[1].req = ctx'.request_id /\ peer.n = f.n
      <4>0. Len(inbox) = 1
        BY <1>3, <3>5
      <4>1. Continues(f)
        BY <1>1, <3>5, <4>0 DEF Channel
      <4>2. QED
        BY <1>5, <2>7, <3>2, <4>1 DEF Continues
    <3>6. QED
      BY <3>3, <3>4, <3>5
  <2>8. QED
    BY <2>6, <2>7
<1>11. QED
  BY <1>4, <1>6, <1>7, <1>8, <1>9, <1>10

-----------------------------------------------------------------------------
(* The peer. *)

\* The peer sends the frame f, of the request at the head of its queue, which
\* stays there after a token and leaves it after anything else.
LEMMA ReplyStep ==
  ASSUME PoolInv, NEW f \in Frame, peer.end = "up", peer.todo # <<>>,
         f.to = peer.todo[1], WellFormed(f), f.type = "COMPLETE" => f.n = peer.n,
         inbox' = Append(inbox, f),
         UNCHANGED <<pool, conn, call, clock, sockets, vectors, relayed>>,
         peer' \in PeerType, peer'.end = "up",
         \/ /\ f.type = "TOKEN" /\ f.n = peer.n + 1
            /\ peer'.todo = peer.todo /\ peer'.n = f.n
         \/ /\ f.type # "TOKEN"
            /\ peer'.todo = Tail(peer.todo) /\ peer'.n = 0
  PROVE  PoolInv'
<1> USE DEF PoolInv
<1>1. /\ inbox \in Seq(Frame) /\ inbox' \in Seq(Frame) /\ Len(inbox) \in Nat
      /\ Len(inbox') = Len(inbox) + 1 /\ inbox'[Len(inbox')] = f /\ inbox' # <<>>
      /\ \A i \in 1..Len(inbox) : inbox'[i] = inbox[i]
  BY AppendProperties, Elements DEF TypeOK
<1>2. /\ Len(peer.todo) \in Nat /\ Len(peer.todo) >= 1 /\ Len(peer'.todo) \in Nat
      /\ \A i \in 1..Len(peer'.todo) :
           \E j \in 1..Len(peer.todo) : peer'.todo[i] = peer.todo[j] /\ i <= j
                                        /\ (f.type # "TOKEN" => j = i + 1)
                                        /\ (f.type = "TOKEN" => j = i)
      /\ peer'.todo # <<>> => Len(peer'.todo) >= 1
  <2>1. peer.todo \in Seq(Request) /\ Len(peer.todo) \in Nat /\ Len(peer.todo) >= 1
    BY Elements
  <2>2. CASE f.type = "TOKEN"
    BY <2>1, <2>2
  <2>3. CASE f.type # "TOKEN"
    <3>1. /\ Tail(peer.todo) \in Seq(Request) /\ Len(Tail(peer.todo)) = Len(peer.todo) - 1
          /\ \A i \in 1..Len(peer.todo) - 1 : Tail(peer.todo)[i] = peer.todo[i + 1]
      BY <2>1, HeadTailProperties
    <3>2. ASSUME NEW i \in 1..Len(peer'.todo)
          PROVE  i + 1 \in 1..Len(peer.todo) /\ peer'.todo[i] = peer.todo[i + 1] /\ i <= i + 1
      <4>1. peer'.todo = Tail(peer.todo)
        BY <2>3
      <4>2. i \in 1..Len(peer.todo) - 1
        BY <3>1, <4>1
      <4>3. QED
        BY <2>1, <3>1, <4>1, <4>2
    <3>3. Len(peer'.todo) \in Nat /\ (peer'.todo # <<>> => Len(peer'.todo) >= 1)
      BY <2>3, <3>1
    <3>4. QED
      BY <2>1, <2>3, <3>2, <3>3
  <2>4. QED
    BY <2>2, <2>3
<1>3. TypeOK' /\ ctx' = ctx
  BY <1>1 DEF TypeOK, ctx
<1>4. Phases'
  <2>1. call.at # "negotiate"
    BY DEF Phases, PeerUp
  <2>2. QED
    BY <2>1 DEF Phases
<1>5. IdsBounded' /\ Deadlines' /\ Delivered' /\ RelayedInOrder' /\ ResourcesReturned'
  BY <1>3 DEF IdsBounded, Deadlines, Delivered, RelayedInOrder,
     ResourcesReturned,
     Before, Asked
<1>6. f.to.req < conn.next /\ f.to.req \in Nat /\ f.n \in Nat /\ peer.n \in Nat /\ conn.next \in Nat
  BY <1>2, Elements, BoundsAssumption DEF Channel, Frame
<1>7. Channel'
  <2>1. \A i \in 1..Len(inbox') : WellFormed(inbox'[i]) /\ inbox'[i].to.req < conn.next
    BY <1>1, <1>6 DEF Channel
  <2>2. ASSUME NEW i \in 1..Len(inbox') - 1 PROVE Follows(inbox'[i], inbox'[i + 1])
    <3>1. CASE i \in 1..Len(inbox) - 1
      BY <1>1, <3>1 DEF Channel
    <3>2. CASE i = Len(inbox)
      <4>1. Continues(inbox[Len(inbox)]) /\ inbox'[i] = inbox[i] /\ inbox'[i + 1] = f
        BY <1>1, <3>2 DEF Channel
      <4>2. QED
        BY <1>6, <3>2, <4>1 DEF Continues, Follows
    <3>3. QED
      BY <1>1, <3>1, <3>2
  <2>3. \A i \in 1..Len(peer'.todo) : peer'.todo[i].req < conn.next
    BY <1>2 DEF Channel
  <2>4. ASSUME NEW i \in 1..Len(peer'.todo), NEW j \in 1..Len(peer'.todo), i < j
        PROVE  peer'.todo[i].req < peer'.todo[j].req
    <3>1. PICK a \in 1..Len(peer.todo) : /\ peer'.todo[i] = peer.todo[a]
                                         /\ f.type # "TOKEN" => a = i + 1
                                         /\ f.type = "TOKEN" => a = i
      BY <1>2
    <3>2. PICK b \in 1..Len(peer.todo) : /\ peer'.todo[j] = peer.todo[b]
                                         /\ f.type # "TOKEN" => b = j + 1
                                         /\ f.type = "TOKEN" => b = j
      BY <1>2
    <3>3. a < b
      BY <1>2, <2>4, <3>1, <3>2
    <3>4. QED
      BY <3>1, <3>2, <3>3 DEF Channel
  <2>5. peer'.todo = <<>> => peer'.n = 0
    OBVIOUS
  <2>6. Continues(inbox[Len(inbox)])'
    <3>1. CASE f.type = "TOKEN"
      BY <1>1, <3>1 DEF Continues
    <3>2. CASE f.type # "TOKEN"
      <4>1. peer'.todo # <<>> => peer'.todo[1] = peer.todo[2] /\ 2 \in 1..Len(peer.todo)
        BY <1>2, <3>2
      <4>2. peer'.todo # <<>> => peer'.todo[1].req # f.to.req
        BY <1>2, <1>6, <4>1, Elements DEF Channel
      <4>3. QED
        BY <1>1, <3>2, <4>2 DEF Continues
    <3>3. QED
      BY <3>1, <3>2
  <2>7. QED
    BY <2>1, <2>2, <2>3, <2>4, <2>5, <2>6 DEF Channel
<1>8. ASSUME Waiting PROVE Meets'
  <2>1. Meets
    BY <1>8
  <2>2. (\A i \in 1..Len(inbox) : Own(inbox[i].to))'
    <3>1. Own(f.to)
      BY <1>2, <2>1 DEF Meets
    <3>2. QED
      BY <1>1, <1>3, <2>1, <3>1 DEF Meets, Own
  <2>3. (\A i \in 1..Len(peer.todo) : Own(peer.todo[i]))'
    BY <1>2, <1>3, <2>1 DEF Meets, Own
  <2>4. ASSUME ~Terminal
        PROVE  IF inbox'[1].to.req = ctx.request_id
               THEN /\ inbox'[1].type = "TOKEN" => inbox'[1].n = ctx.tokens + 1
                    /\ inbox'[1].type = "COMPLETE" => inbox'[1].n = ctx.tokens
               ELSE ctx.tokens = 0
    <3>1. CASE inbox # <<>>
      <4>1. inbox'[1] = inbox[1]
        BY <1>1, <3>1, Elements
      <4>2. QED
        BY <2>1, <2>4, <3>1, <4>1 DEF Meets
    <3>2. CASE inbox = <<>>
      <4>1. inbox'[1] = f
        BY <1>1, <3>2
      <4>2. ctx.tokens = IF f.to.req = ctx.request_id THEN peer.n ELSE 0
        BY <2>1, <2>4, <3>2 DEF Meets
      <4>3. QED
        BY <1>6, <4>1, <4>2
    <3>3. QED
      BY <3>1, <3>2
  <2>5. QED
    BY <1>1, <1>3, <2>1, <2>2, <2>3, <2>4 DEF Meets, Terminal
<1>9. QED
  BY <1>3, <1>4, <1>5, <1>7, <1>8 DEF Waiting

\* Tokens, answers and errors of the peer.
LEMMA PeerStep == PoolInv /\ (peer_token \/ peer_answer) => PoolInv'
<1> SUFFICES ASSUME PoolInv, peer_token \/ peer_answer PROVE PoolInv'
  OBVIOUS
<1> USE DEF PoolInv
<1>1. /\ peer \in PeerType /\ peer.n \in 0..MaxTokens /\ MaxTokens \in Nat
      /\ peer.todo \in Seq(Request)
  BY BoundsAssumption DEF TypeOK, PeerType
<1>2. ASSUME peer.todo # <<>>
      PROVE  /\ Head(peer.todo) = peer.todo[1] /\ peer.todo[1] \in Request
             /\ Tail(peer.todo) \in Seq(Request)
  BY <1>1, <1>2
<1>3. CASE peer_token
  <2> DEFINE f == [type |-> "TOKEN", to |-> peer.todo[1], n |-> peer.n + 1, st |-> "IO"]
  <2>1. /\ peer.end = "up" /\ peer.todo # <<>> /\ peer.todo[1].kind = "GENERATE"
        /\ peer.n < MaxTokens /\ inbox' = Append(inbox, f)
        /\ peer' = [peer EXCEPT !.n = peer.n + 1]
        /\ UNCHANGED <<pool, conn, call, clock, sockets, vectors, relayed>>
    BY <1>2, <1>3 DEF peer_token, Serving, Reply
  <2>2. f \in Frame /\ WellFormed(f)
    BY <1>1, <1>2, <2>1 DEF Frame, PeerErrors, WellFormed
  <2>3. /\ peer' \in PeerType /\ peer'.end = "up" /\ peer'.todo = peer.todo
        /\ peer'.n = peer.n + 1
    BY <1>1, <2>1 DEF PeerType
  <2>4. QED
    BY <2>1, <2>2, <2>3, ReplyStep
<1>4. ASSUME NEW type, NEW n, NEW st, NEW kind \in Kinds,
             Serving(kind), Answer(type, n, st), st \in PeerErrors, n \in 0..MaxTokens,
             \/ type = "COMPLETE" /\ kind = "GENERATE" /\ n = peer.n
             \/ type = "EMBEDDING" /\ kind = "EMBED" /\ n = 0
             \/ type = "ERROR"
      PROVE  PoolInv'
  <2> DEFINE f == [type |-> type, to |-> peer.todo[1], n |-> n, st |-> st]
  <2>1. /\ peer.end = "up" /\ peer.todo # <<>> /\ peer.todo[1].kind = kind
        /\ inbox' = Append(inbox, f)
        /\ peer' = [peer EXCEPT !.todo = Tail(peer.todo), !.n = 0]
        /\ UNCHANGED <<pool, conn, call, clock, sockets, vectors, relayed>>
    BY <1>2, <1>4 DEF Serving, Answer, Reply
  <2>2. f \in Frame /\ WellFormed(f) /\ f.type # "TOKEN"
    BY <1>2, <1>4, <2>1 DEF Frame, WellFormed
  <2>3. /\ peer' \in PeerType /\ peer'.end = "up" /\ peer'.todo = Tail(peer.todo)
        /\ peer'.n = 0
    <3>1. Tail(peer.todo) \in Seq(Request) /\ 0 \in 0..MaxTokens
      BY <1>1, <2>1, Elements, HeadTailProperties
    <3>2. QED
      BY <1>1, <2>1, <3>1 DEF PeerType
  <2>4. QED
    BY <1>4, <2>1, <2>2, <2>3, ReplyStep
<1>5. CASE peer_answer
  <2>1. 0 \in 0..MaxTokens /\ "IO" \in PeerErrors /\ "GENERATE" \in Kinds /\ "EMBED" \in Kinds
    BY <1>1 DEF PeerErrors, Kinds
  <2>2. CASE Serving("GENERATE") /\ Answer("COMPLETE", peer.n, "IO")
    BY <1>1, <1>4, <2>1, <2>2
  <2>3. CASE Serving("EMBED") /\ Answer("EMBEDDING", 0, "IO")
    BY <1>4, <2>1, <2>3
  <2>4. ASSUME NEW k \in Kinds, NEW st \in PeerErrors, Serving(k), Answer("ERROR", 0, st)
        PROVE  PoolInv'
    BY <1>4, <2>1, <2>4
  <2>5. QED
    BY <1>5, <2>2, <2>3, <2>4 DEF peer_answer
<1>6. QED
  BY <1>3, <1>5

\* The peer goes away, with some of what it sent.
LEMMA GoneStep == PoolInv /\ peer_gone => PoolInv'
<1> SUFFICES ASSUME PoolInv, peer_gone PROVE PoolInv'
  OBVIOUS
<1> USE DEF PoolInv
<1>1. /\ peer' \in PeerType /\ peer'.end # "up" /\ peer'.todo = <<>> /\ peer'.n = 0
      /\ conn.state = "OPEN"
      /\ UNCHANGED <<pool, conn, call, clock, sockets, vectors, relayed>>
  BY BoundsAssumption DEF peer_gone, PeerType
<1>2. PICK k \in 0..Len(inbox) : inbox' = SubSeq(inbox, 1, k)
  BY DEF peer_gone
<1>3. /\ inbox' \in Seq(Frame) /\ Len(inbox') = k /\ Len(inbox) \in Nat /\ k \in Nat
      /\ \A i \in 1..k : inbox'[i] = inbox[i] /\ i \in 1..Len(inbox)
      /\ inbox' # <<>> => k >= 1
  BY <1>2, SubSeqProperties, Elements DEF TypeOK
<1>4. TypeOK' /\ ctx' = ctx
  BY <1>1, <1>3 DEF TypeOK, ctx
<1>5. Phases'
  BY <1>1 DEF Phases
<1>6. IdsBounded' /\ Deadlines' /\ Delivered' /\ RelayedInOrder' /\ ResourcesReturned'
  BY <1>1, <1>4 DEF IdsBounded, Deadlines, Delivered, RelayedInOrder,
     ResourcesReturned,
     Before, Asked
<1>7. Channel'
  <2>1. ASSUME NEW i \in 1..Len(inbox') - 1
        PROVE  Follows(inbox'[i], inbox'[i + 1])
    <3>1. i \in 1..k /\ i + 1 \in 1..k /\ i \in 1..Len(inbox) - 1
      BY <1>3
    <3>2. inbox'[i] = inbox[i] /\ inbox'[i + 1] = inbox[i + 1]
      BY <1>3, <3>1
    <3>3. QED
      BY <3>1, <3>2 DEF Channel
  <2>2. QED
    BY <1>1, <1>3, <2>1 DEF Channel
<1>8. (Waiting => Meets)'
  BY <1>1, <1>3, <1>4 DEF Waiting, Meets, Own, Terminal
<1>9. QED
  BY <1>4, <1>5, <1>6, <1>7, <1>8

-----------------------------------------------------------------------------

\* Every step keeps the invariant.
LEMMA NextPool == PoolInv /\ [Next]_vars => PoolInv'
<1> SUFFICES ASSUME PoolInv, [Next]_vars PROVE PoolInv'
  OBVIOUS
<1>1. CASE UNCHANGED vars
  BY <1>1 DEF vars, PoolInv, TypeOK, Phases, Deadlines, IdsBounded, Channel,
     Continues, Waiting, Meets, Own, ctx, Terminal, Delivered, Before, Asked,
     RelayedInOrder, ResourcesReturned
<1>2. CASE pai_remote_pool_generate \/ pai_remote_pool_embed
  BY <1>2, CallStep DEF pai_remote_pool_generate, pai_remote_pool_embed, Kinds
<1>3. CASE Exchange
  BY <1>3, ReuseStep, ConnectStep, ConnectFailsStep, AckStep,
     NegotiateFailsStep,
     SendStep, LoopStep, FrameStep, PollStep, ReturnsStep, RetriesStep DEF Exchange
<1>4. QED
  BY <1>1, <1>2, <1>3, CreateStep, DestroyStep, PeerStep, GoneStep, TickStep
     DEF Next

\* The invariant holds in every state of the pool, its caller and the peer.
LEMMA PoolInvariant == Spec => []PoolInv
BY InitPool, NextPool, PTL DEF Spec

\* What a caller has been given is the beginning of this attempt's answer:
\* no token of a call that timed out earlier, none twice, none missing.
THEOREM TokensInOrder == Spec => []RelayedInOrder
<1>1. PoolInv => RelayedInOrder
  BY DEF PoolInv
<1>2. QED
  BY <1>1, PoolInvariant, PTL

\* PAI_OK means the whole answer of this attempt, and an answer that arrived
\* in full is not lost to a close behind it.
THEOREM OkMeansOwnAnswer == Spec => []OkIsOwnAnswer
<1>1. PoolInv => OkIsOwnAnswer
  BY DEF PoolInv, Delivered, Asked, OkIsOwnAnswer
<1>2. QED
  BY <1>1, PoolInvariant, PTL

\* No call leaves the pool busy, a transport behind or a vector unfreed.
THEOREM NothingLeaks == Spec => []ResourcesReturned
<1>1. PoolInv => ResourcesReturned
  BY DEF PoolInv
<1>2. QED
  BY <1>1, PoolInvariant, PTL

\* A call takes at most two deadlines, whatever the timeout is.
THEOREM AtMostTwoDeadlines == Spec => []TwoDeadlines
<1>1. PoolInv => TwoDeadlines
  BY DEF PoolInv, Deadlines, TwoDeadlines
<1>2. QED
  BY <1>1, PoolInvariant, PTL
=============================================================================
