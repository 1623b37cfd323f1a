--------------------------- MODULE Gateway_proofs ---------------------------
(***************************************************************************)
(* What the gateway promises a client, for any number of connections, any  *)
(* set of requests and models, and any length of a generation: a           *)
(* generation runs alone and is accounted for, response ids are unique, a  *)
(* client gets one well-formed response, and its text is cut at the stop   *)
(* sequences and nowhere else.                                             *)
(*                                                                         *)
(* The first three leave the text opaque; the last part of the module is   *)
(* about what the tokens decode to.                                        *)
(***************************************************************************)
EXTENDS Gateway, TLAPS, SequenceTheorems, FiniteSetTheorems, WellFoundedInduction

IsSeq(s) == s \in Seq(Range(s))
\* The shape of a context and of an entry; what the fields hold is said where
\* it matters.
IsCtx(c) ==
    /\ c = [id |-> c.id, failed |-> c.failed, stop |-> c.stop, out |-> c.out,
            tail |-> c.tail, toks |-> c.toks, steps |-> c.steps, st |-> c.st]
    /\ c.id \in Nat /\ c.steps \in Nat /\ IsSeq(c.toks)
IsEntry(n) == n = [opened |-> n.opened, broken |-> n.broken, sampler |-> n.sampler,
                   cancelled |-> n.cancelled, generated |-> n.generated]

\* Where a thread is before the entry's lock, with it, and after it.
Early == {"idle", "recv", "route"}
Queued == {"seq", "seq_write", "lock"}
Inside == {"ready", "apply", "generate", "loop", "finish", "unlock", "embed"}
Late == {"send", "end", "closed"}

TypeOK ==
    /\ pc \in [Conns -> Early \cup Queued \cup Inside \cup Late]
    /\ \A t \in Conns : req[t] \in Requests[t]
    /\ got \in [Conns -> Nat]
    /\ ctx = [t \in Conns |-> ctx[t]] /\ \A t \in Conns : IsCtx(ctx[t])
    /\ wire = [t \in Conns |-> wire[t]] /\ \A t \in Conns : IsSeq(wire[t])
    /\ peer \in [Conns -> {"reads", "gone"}]
    /\ entry = [e \in Names |-> entry[e]] /\ \A e \in Names : IsEntry(entry[e])
    /\ lock \in [Names -> Conns \cup {NoOne}]
    /\ gw_seq \in Nat /\ seqLock \in Conns \cup {NoOne}

\* A thread beyond the checks has an entry, and inside holds its lock.
Locks ==
    \A t \in Conns :
       /\ pc[t] \in Queued \cup Inside => E(t) \in Names
       /\ pc[t] \in Inside => lock[E(t)] = t

-----------------------------------------------------------------------------
(* Sequences and records. *)

\* A sequence over any set is one over its own elements.
LEMMA SeqIsSeq == ASSUME NEW S, NEW s \in Seq(S) PROVE IsSeq(s)
BY DEF IsSeq, Range

\* Concatenation of two sequences of whatever.
LEMMA ConcatIsSeq ==
    ASSUME NEW s, IsSeq(s), NEW w, IsSeq(w)
    PROVE  /\ IsSeq(s \o w) /\ Len(s) \in Nat /\ Len(w) \in Nat
           /\ Len(s \o w) = Len(s) + Len(w)
           /\ DOMAIN s = 1..Len(s) /\ DOMAIN w = 1..Len(w)
           /\ DOMAIN (s \o w) = 1..(Len(s) + Len(w))
           /\ \A i \in 1..Len(s) : (s \o w)[i] = s[i]
           /\ \A i \in 1..Len(w) : (s \o w)[Len(s) + i] = w[i]
           /\ \A i \in 1..(Len(s) + Len(w)) : i \notin 1..Len(s) =>
                i - Len(s) \in 1..Len(w) /\ (s \o w)[i] = w[i - Len(s)]
<1> DEFINE U == Range(s) \cup Range(w)
<1>1. s \in Seq(U) /\ w \in Seq(U)
  BY DEF IsSeq
<1>2. /\ s \o w \in Seq(U) /\ Len(s \o w) = Len(s) + Len(w)
      /\ \A i \in 1..(Len(s) + Len(w)) :
           (s \o w)[i] = IF i <= Len(s) THEN s[i] ELSE w[i - Len(s)]
  BY <1>1, ConcatProperties
<1>3. IsSeq(s \o w)
  BY <1>2, SeqIsSeq
<1>4. /\ Len(s) \in Nat /\ Len(w) \in Nat
      /\ DOMAIN s = 1..Len(s) /\ DOMAIN w = 1..Len(w)
      /\ DOMAIN (s \o w) = 1..(Len(s) + Len(w))
  BY <1>1, <1>2, LenProperties
<1>5. ASSUME NEW i \in 1..Len(w) PROVE (s \o w)[Len(s) + i] = w[i]
  BY <1>2, <1>4
<1>6. QED
  BY <1>2, <1>3, <1>4, <1>5

\* Replies that are sent whole.
LEMMA WholeIsSeq ==
    ASSUME NEW a, NEW b
    PROVE  IsSeq(<<a, b>>) /\ Len(<<a, b>>) = 2
<1>1. <<a, b>> \in Seq({a, b})
  OBVIOUS
<1>2. QED
  BY <1>1, SeqIsSeq

\* One piece of a reply, and none.
LEMMA OneIsSeq ==
    ASSUME NEW a
    PROVE  IsSeq(<<a>>) /\ Len(<<a>>) = 1 /\ <<a>>[1] = a
<1>1. <<a>> \in Seq({a})
  OBVIOUS
<1>2. QED
  BY <1>1, SeqIsSeq

\* Nothing written yet is a sequence too.
LEMMA EmptyIsSeq == IsSeq(<<>>) /\ Len(<<>>) = 0
<1>1. <<>> \in Seq({0})
  OBVIOUS
<1>2. QED
  BY <1>1, SeqIsSeq

\* What a send adds to the wire of its own client and nobody else's.
LEMMA Sent ==
    ASSUME TypeOK, NEW t \in Conns, NEW what, IsSeq(what), Send(t, what)
    PROVE  /\ wire' = [u \in Conns |-> wire'[u]]
           /\ \A u \in Conns : IsSeq(wire'[u])
           /\ \A u \in Conns : u # t => wire'[u] = wire[u]
           /\ peer[t] = "gone" => wire'[t] = wire[t]
           /\ peer[t] = "reads" => wire'[t] = wire[t] \o what
<1>1. wire = [u \in Conns |-> wire[u]] /\ peer[t] \in {"reads", "gone"}
  BY DEF TypeOK
<1>2. wire'[t] = IF peer[t] = "gone" THEN wire[t] ELSE wire[t] \o what
  BY <1>1 DEF Send
<1>3. IsSeq(wire'[t])
  BY <1>2, ConcatIsSeq DEF TypeOK
<1>4. QED
  BY <1>1, <1>2, <1>3 DEF Send, TypeOK

\* The handler's locals as they begin.
LEMMA NoCtxOK == IsCtx(NoCtx)
<1>1. IsSeq(<<>>)
  BY WholeIsSeq, OneIsSeq, EmptyIsSeq
<1>2. QED
  BY <1>1 DEF IsCtx, NoCtx

-----------------------------------------------------------------------------
(* What a step of the thread t may touch. *)

\* The labels: only its own.
LEMMA FramePc ==
    ASSUME TypeOK, NEW t \in Conns, Thread(t) \/ PeerGone(t)
    PROVE  /\ pc' \in [Conns -> Early \cup Queued \cup Inside \cup Late]
           /\ \A u \in Conns : u # t => pc'[u] = pc[u]
<1> DEFINE Labels == Early \cup Queued \cup Inside \cup Late
<1>1. ASSUME NEW l \in Labels, Go(t, l)
      PROVE  pc' \in [Conns -> Labels] /\ \A u \in Conns : u # t => pc'[u] = pc[u]
  BY <1>1 DEF TypeOK, Go
<1>2. (\E l \in Labels : Go(t, l)) \/ UNCHANGED pc
  <2> USE DEF Early, Queued, Inside, Late
  <2>1. CASE pai_http_server_run(t)
    BY <2>1 DEF pai_http_server_run
  <2>2. CASE Recv(t)
    BY <2>2 DEF Recv
  <2>3. CASE pai_gw_handle_request(t)
    BY <2>3 DEF pai_gw_handle_request, Return
  <2>4. CASE Token(t)
    BY <2>4 DEF Token
  <2>5. CASE EnsureReady(t) \/ Apply(t) \/ pai_session_generate(t)
    BY <2>5 DEF EnsureReady, Apply, pai_session_generate, Return
  <2>6. CASE SeqRead(t) \/ SeqWrite(t) \/ Lock(t) \/ GenerateEnds(t) \/ FinishStream(t)
              \/ gw_conn_thread_end(t) \/ PeerGone(t)
    BY <2>6 DEF SeqRead, SeqWrite, Lock, GenerateEnds, FinishStream,
       gw_conn_thread_end,
       PeerGone
  <2>7. CASE FinishWhole(t) \/ Unlock(t) \/ handle_embeddings(t) \/ EmbeddingsReply(t)
    BY <2>7 DEF FinishWhole, Unlock, handle_embeddings, EmbeddingsReply, Return
  <2>8. QED
    BY <2>1, <2>2, <2>3, <2>4, <2>5, <2>6, <2>7 DEF Thread
<1>3. QED
  BY <1>1, <1>2 DEF TypeOK

\* Two contexts with the same text.
SameText(c, d) == d.toks = c.toks /\ d.stop = c.stop /\ d.out = c.out /\ d.tail = c.tail

\* A context with another value of failed.
LEMMA CtxFailed ==
    ASSUME NEW c, IsCtx(c), NEW v, NEW d, d = [c EXCEPT !.failed = v]
    PROVE  /\ IsCtx(d)
           /\ d.steps = c.steps
           /\ d.toks = c.toks /\ SameText(c, d)
           /\ d.id = c.id
           /\ d.st = c.st
           /\ d.failed = v
<1>1. d = [id |-> c.id, failed |-> v, stop |-> c.stop, out |-> c.out,
           tail |-> c.tail, toks |-> c.toks, steps |-> c.steps, st |-> c.st]
  BY DEF IsCtx
<1>2. QED
  BY <1>1 DEF IsCtx, SameText

\* A context with another status.
LEMMA CtxSt ==
    ASSUME NEW c, IsCtx(c), NEW v, NEW d, d = [c EXCEPT !.st = v]
    PROVE  /\ IsCtx(d)
           /\ d.steps = c.steps
           /\ d.toks = c.toks /\ SameText(c, d)
           /\ d.id = c.id
           /\ d.failed = c.failed
           /\ d.st = v
<1>1. d = [id |-> c.id, failed |-> c.failed, stop |-> c.stop, out |-> c.out,
           tail |-> c.tail, toks |-> c.toks, steps |-> c.steps, st |-> v]
  BY DEF IsCtx
<1>2. QED
  BY <1>1 DEF IsCtx, SameText

\* A context with another id.
LEMMA CtxId ==
    ASSUME NEW c, IsCtx(c), NEW v \in Nat, NEW d, d = [c EXCEPT !.id = v]
    PROVE  /\ IsCtx(d)
           /\ d.steps = c.steps
           /\ d.toks = c.toks /\ SameText(c, d)
           /\ d.st = c.st
           /\ d.failed = c.failed
           /\ d.id = v
<1>1. d = [id |-> v, failed |-> c.failed, stop |-> c.stop, out |-> c.out,
           tail |-> c.tail, toks |-> c.toks, steps |-> c.steps, st |-> c.st]
  BY DEF IsCtx
<1>2. QED
  BY <1>1 DEF IsCtx, SameText

\* A context one step later.
LEMMA CtxStep ==
    ASSUME NEW c, IsCtx(c), NEW d, d = [c EXCEPT !.steps = @ + 1]
    PROVE  /\ IsCtx(d)
           /\ d.steps = c.steps + 1
           /\ d.toks = c.toks
           /\ d.st = c.st
           /\ d.id = c.id
           /\ d.failed = c.failed
<1>1. d = [id |-> c.id, failed |-> c.failed, stop |-> c.stop, out |-> c.out,
           tail |-> c.tail, toks |-> c.toks, steps |-> c.steps + 1, st |-> c.st]
  BY DEF IsCtx
<1>2. QED
  BY <1>1 DEF IsCtx

\* A context with another tail.
LEMMA CtxTail ==
    ASSUME NEW c, IsCtx(c), NEW v, NEW d, d = [c EXCEPT !.tail = v]
    PROVE  /\ IsCtx(d)
           /\ d.steps = c.steps
           /\ d.toks = c.toks
           /\ d.id = c.id
           /\ d.st = c.st
           /\ d.failed = c.failed
<1>1. d = [id |-> c.id, failed |-> c.failed, stop |-> c.stop, out |-> c.out,
           tail |-> v, toks |-> c.toks, steps |-> c.steps, st |-> c.st]
  BY DEF IsCtx
<1>2. QED
  BY <1>1 DEF IsCtx

\* A context with another stop.
LEMMA CtxStop ==
    ASSUME NEW c, IsCtx(c), NEW v, NEW d, d = [c EXCEPT !.stop = v]
    PROVE  /\ IsCtx(d)
           /\ d.steps = c.steps
           /\ d.toks = c.toks
           /\ d.id = c.id
           /\ d.st = c.st
           /\ d.failed = c.failed
<1>1. d = [id |-> c.id, failed |-> c.failed, stop |-> v, out |-> c.out,
           tail |-> c.tail, toks |-> c.toks, steps |-> c.steps, st |-> c.st]
  BY DEF IsCtx
<1>2. QED
  BY <1>1 DEF IsCtx

\* A context with another out.
LEMMA CtxOut ==
    ASSUME NEW c, IsCtx(c), NEW v, NEW d, d = [c EXCEPT !.out = v]
    PROVE  /\ IsCtx(d)
           /\ d.steps = c.steps
           /\ d.toks = c.toks
           /\ d.id = c.id
           /\ d.st = c.st
           /\ d.failed = c.failed
<1>1. d = [id |-> c.id, failed |-> c.failed, stop |-> c.stop, out |-> v,
           tail |-> c.tail, toks |-> c.toks, steps |-> c.steps, st |-> c.st]
  BY DEF IsCtx
<1>2. QED
  BY <1>1 DEF IsCtx

\* A context with other tokens.
LEMMA CtxToks ==
    ASSUME NEW c, IsCtx(c), NEW v, IsSeq(v), NEW d, d = [c EXCEPT !.toks = v]
    PROVE  /\ IsCtx(d)
           /\ d.toks = v
           /\ d.steps = c.steps
           /\ d.id = c.id
           /\ d.st = c.st
           /\ d.failed = c.failed
<1>1. d = [id |-> c.id, failed |-> c.failed, stop |-> c.stop, out |-> c.out,
           tail |-> c.tail, toks |-> v, steps |-> c.steps, st |-> c.st]
  BY DEF IsCtx
<1>2. QED
  BY <1>1 DEF IsCtx

\* What gen_on_token leaves of a context.
LEMMA OnToken ==
    ASSUME TypeOK, NEW t \in Conns, NEW tok, NEW room
    PROVE  LET c == gen_on_token(t, tok, room) IN
           /\ IsCtx(c) /\ c.steps = ctx[t].steps /\ c.toks = ctx[t].toks /\ c.id = ctx[t].id
           /\ c.st = ctx[t].st /\ (ctx[t].failed => c.failed)
<1> DEFINE c == ctx[t]
           k == gen_on_token(t, tok, room)
<1>1. IsCtx(c)
  BY DEF TypeOK
<1>4. \/ k = c
      \/ k = [c EXCEPT !.failed = TRUE]
      \/ ~c.failed /\ \E a, n, o : k = [c EXCEPT !.tail = a, !.stop = n, !.out = o]
  BY Zenon DEF gen_on_token
<1> HIDE DEF c, k
<1>5. IsCtx(k) /\ k.steps = c.steps /\ k.toks = c.toks /\ k.id = c.id /\ k.st = c.st
      /\ (c.failed => k.failed)
  <2>1. CASE k = c
    BY <1>1, <2>1
  <2>2. CASE k = [c EXCEPT !.failed = TRUE]
    BY <1>1, <2>2, CtxFailed
  <2>3. ASSUME ~c.failed, NEW a, NEW n, NEW o, k = [c EXCEPT !.tail = a, !.stop = n, !.out = o]
        PROVE  IsCtx(k) /\ k.steps = c.steps /\ k.toks = c.toks /\ k.id = c.id /\ k.st = c.st
    <3>1. PICK d : d = [c EXCEPT !.tail = a]
      OBVIOUS
    <3>2. PICK e : e = [d EXCEPT !.stop = n]
      OBVIOUS
    <3>3. k = [e EXCEPT !.out = o]
      BY <2>3, <3>1, <3>2
    <3>4. IsCtx(d) /\ d.steps = c.steps /\ d.toks = c.toks /\ d.id = c.id /\ d.st = c.st
      BY <1>1, <3>1, CtxTail
    <3>5. IsCtx(e) /\ e.steps = c.steps /\ e.toks = c.toks /\ e.id = c.id /\ e.st = c.st
      BY <3>2, <3>4, CtxStop
    <3>6. QED
      BY <3>3, <3>5, CtxOut
  <2>4. QED
    BY <1>4, <2>1, <2>2, <2>3
<1>6. QED
  BY <1>5 DEF c, k

\* The context after a turn of the token loop.
LEMMA TokenCtx ==
    ASSUME TypeOK, NEW t \in Conns, Token(t)
    PROVE  /\ ctx' = [ctx EXCEPT ![t] = ctx'[t]] /\ IsCtx(ctx'[t])
           /\ ctx'[t].steps = ctx[t].steps + 1 /\ ctx'[t].id = ctx[t].id
           /\ ctx'[t].st = ctx[t].st /\ (ctx[t].failed => ctx'[t].failed)
           /\ ~ctx'[t].failed => Len(ctx'[t].toks) = Len(ctx[t].toks) + 1
<1>1. PICK tok \in req[t].tokens, room \in {TRUE, req[t].stream} :
        LET c == gen_on_token(t, tok, room) IN
        ctx' = [ctx EXCEPT ![t] = [c EXCEPT !.steps = @ + 1,
                                            !.toks = IF c.failed THEN <<>> ELSE Append(@, tok)]]
  BY DEF Token
<1> DEFINE c == gen_on_token(t, tok, room)
           s == IF c.failed THEN <<>> ELSE Append(c.toks, tok)
           x == [c EXCEPT !.steps = @ + 1, !.toks = s]
<1>2. /\ IsCtx(c) /\ c.steps = ctx[t].steps /\ c.toks = ctx[t].toks /\ c.id = ctx[t].id
      /\ c.st = ctx[t].st /\ (ctx[t].failed => c.failed)
  BY OnToken
<1> HIDE DEF c
<1>3. IsSeq(s) /\ (~c.failed => Len(s) = Len(c.toks) + 1)
  <2>1. c.toks \in Seq(Range(c.toks) \cup {tok})
    BY <1>2 DEF IsCtx, IsSeq
  <2>2. Append(c.toks, tok) \in Seq(Range(c.toks) \cup {tok})
        /\ Len(Append(c.toks, tok)) = Len(c.toks) + 1
    BY <2>1, AppendProperties
  <2>3. QED
    BY <2>2, SeqIsSeq, WholeIsSeq, OneIsSeq, EmptyIsSeq
<1> HIDE DEF s
<1>4. IsCtx(x) /\ x.steps = c.steps + 1 /\ x.toks = s /\ x.id = c.id /\ x.st = c.st
      /\ (x.failed <=> c.failed)
  <2>1. PICK d : d = [c EXCEPT !.steps = @ + 1]
    OBVIOUS
  <2>2. /\ IsCtx(d) /\ d.steps = c.steps + 1 /\ d.id = c.id /\ d.st = c.st
        /\ d.failed = c.failed
    BY <1>2, <2>1, CtxStep
  <2>3. x = [d EXCEPT !.toks = s]
    BY <2>1
  <2> HIDE DEF x
  <2>4. QED
    BY <1>3, <2>2, <2>3, CtxToks
<1>5. ctx' = [ctx EXCEPT ![t] = x]
  BY <1>1 DEF c, s
<1> HIDE DEF x
<1>6. ctx'[t] = x
  BY <1>5 DEF TypeOK
<1>7. QED
  BY <1>2, <1>3, <1>4, <1>5, <1>6

\* One context changes.
LEMMA CtxSet ==
    ASSUME TypeOK, NEW t \in Conns, NEW c, IsCtx(c), ctx' = [ctx EXCEPT ![t] = c]
    PROVE  /\ ctx' = [u \in Conns |-> ctx'[u]]
           /\ \A u \in Conns : IsCtx(ctx'[u])
           /\ \A u \in Conns : u # t => ctx'[u] = ctx[u]
           /\ ctx'[t] = c
BY DEF TypeOK

\* What the steps that change a context leave of it.
LEMMA CtxAfter ==
    ASSUME TypeOK, NEW t \in Conns
    PROVE  /\ \A u \in Conns : IsCtx(ctx[u])
           /\ SeqRead(t) => ctx'[t].steps = ctx[t].steps /\ ctx'[t].toks = ctx[t].toks
                            /\ ctx'[t].id = gw_seq
           /\ SeqRead(t) \/ (Apply(t) /\ req[t].seed) \/ pai_session_generate(t)
                \/ GenerateEnds(t) \/ Token(t)
                => \E c : IsCtx(c) /\ ctx' = [ctx EXCEPT ![t] = c]
           /\ (Apply(t) /\ req[t].seed) \/ pai_session_generate(t) \/ GenerateEnds(t)
                => /\ ctx'[t].steps = ctx[t].steps /\ ctx'[t].toks = ctx[t].toks
                   /\ ctx'[t].id = ctx[t].id
           /\ pai_session_generate(t) \/ GenerateEnds(t) => ctx'[t].failed = ctx[t].failed
<1>1. \A u \in Conns : IsCtx(ctx[u])
  BY DEF TypeOK
<1>2. CASE SeqRead(t)
  <2>1. PICK c : c = [ctx[t] EXCEPT !.id = gw_seq]
    OBVIOUS
  <2>2. gw_seq \in Nat /\ ctx' = [ctx EXCEPT ![t] = c]
    BY <1>2, <2>1 DEF SeqRead, TypeOK
  <2>3. IsCtx(c) /\ c.steps = ctx[t].steps /\ c.toks = ctx[t].toks /\ c.id = gw_seq
    BY <1>1, <2>1, <2>2, CtxId
  <2>4. pc[t] = "seq"
    BY <1>2 DEF SeqRead, At
  <2>5. QED
    BY <1>1, <2>2, <2>3, <2>4, CtxSet DEF Apply, pai_session_generate,
       GenerateEnds, At
<1>3. CASE Apply(t) /\ req[t].seed
  <2>1. PICK c : c = [ctx[t] EXCEPT !.failed = req[t].stream /\ req[t].echo /\ peer[t] = "gone"]
    OBVIOUS
  <2>2. ctx' = [ctx EXCEPT ![t] = c] /\ pc[t] = "apply"
    BY <1>3, <2>1 DEF Apply, At
  <2>3. IsCtx(c) /\ c.steps = ctx[t].steps /\ c.toks = ctx[t].toks /\ c.id = ctx[t].id
    BY <1>1, <2>1, CtxFailed
  <2>4. QED
    BY <1>1, <2>2, <2>3, CtxSet DEF SeqRead, pai_session_generate,
       GenerateEnds, At
<1>4. CASE pai_session_generate(t) \/ GenerateEnds(t)
  <2>1. \/ \E v : ctx' = [ctx EXCEPT ![t] = [ctx[t] EXCEPT !.st = v]]
        \/ ctx' = ctx
    BY <1>4 DEF pai_session_generate, GenerateEnds
  <2>2. PICK c : IsCtx(c) /\ ctx' = [ctx EXCEPT ![t] = c] /\ c.steps = ctx[t].steps
                 /\ c.toks = ctx[t].toks /\ c.id = ctx[t].id /\ c.failed = ctx[t].failed
    <3>1. CASE ctx' = ctx
      <4>1. ctx' = [ctx EXCEPT ![t] = ctx[t]]
        BY <3>1 DEF TypeOK
      <4>2. QED
        BY <1>1, <4>1
    <3>2. ASSUME NEW v, ctx' = [ctx EXCEPT ![t] = [ctx[t] EXCEPT !.st = v]]
          PROVE  \E c : IsCtx(c) /\ ctx' = [ctx EXCEPT ![t] = c] /\ c.steps = ctx[t].steps
                        /\ c.toks = ctx[t].toks /\ c.id = ctx[t].id /\ c.failed = ctx[t].failed
      <4>1. PICK c : c = [ctx[t] EXCEPT !.st = v]
        OBVIOUS
      <4>2. IsCtx(ctx[t])
        BY <1>1
      <4>3. IsCtx(c) /\ c.steps = ctx[t].steps /\ c.toks = ctx[t].toks /\ c.id = ctx[t].id
            /\ c.failed = ctx[t].failed
        BY <4>1, <4>2, CtxSt
      <4>4. QED
        BY <3>2, <4>1, <4>3
    <3>3. QED
      BY <2>1, <3>1, <3>2
  <2>3. pc[t] \in {"generate", "loop"}
    BY <1>4 DEF pai_session_generate, GenerateEnds, At
  <2>4. QED
    BY <1>1, <2>2, <2>3, CtxSet DEF SeqRead, Apply, At
<1>5. CASE Token(t)
  <2>1. ctx' = [ctx EXCEPT ![t] = ctx'[t]] /\ IsCtx(ctx'[t])
    BY <1>5, TokenCtx
  <2>2. pc[t] = "loop"
    BY <1>5 DEF Token, At
  <2>3. \E c : IsCtx(c) /\ ctx' = [ctx EXCEPT ![t] = c]
    BY <2>1
  <2>4. ~SeqRead(t) /\ ~Apply(t) /\ ~pai_session_generate(t)
    BY <2>2 DEF SeqRead, Apply, pai_session_generate, At
  <2>5. CASE GenerateEnds(t)
    BY <1>4, <2>5
  <2>6. CASE ~GenerateEnds(t)
    BY <1>1, <2>3, <2>4, <2>6
  <2>7. QED
    BY <2>5, <2>6
<1>6. QED
  BY <1>1, <1>2, <1>3, <1>4, <1>5

\* The contexts: only its own.
LEMMA FrameCtx ==
    ASSUME TypeOK, NEW t \in Conns, Thread(t) \/ PeerGone(t)
    PROVE  /\ ctx' = [u \in Conns |-> ctx'[u]]
           /\ \A u \in Conns : IsCtx(ctx'[u])
           /\ \A u \in Conns : u # t => ctx'[u] = ctx[u]
<1>1. \/ UNCHANGED ctx
      \/ \E c : IsCtx(c) /\ ctx' = [ctx EXCEPT ![t] = c]
  <2>1. ASSUME Return(t) PROVE \E c : IsCtx(c) /\ ctx' = [ctx EXCEPT ![t] = c]
    BY <2>1, NoCtxOK DEF Return
  <2>2. CASE pai_gw_handle_request(t) \/ EnsureReady(t) \/ FinishWhole(t) \/ Unlock(t)
              \/ EmbeddingsReply(t)
    BY <2>1, <2>2 DEF pai_gw_handle_request, EnsureReady, FinishWhole, Unlock,
       EmbeddingsReply
  <2>3. CASE Apply(t)
    BY <2>1, <2>3, CtxAfter DEF Apply
  <2>4. CASE handle_embeddings(t)
    <3>1. CASE ctx' = [ctx EXCEPT ![t].steps = @ + 1]
      <4>1. PICK c : c = [ctx[t] EXCEPT !.steps = @ + 1]
        OBVIOUS
      <4>2. QED
        BY <3>1, <4>1, CtxStep DEF TypeOK
    <3>2. QED
      BY <2>1, <2>4, <3>1 DEF handle_embeddings
  <2>5. CASE SeqRead(t) \/ pai_session_generate(t) \/ Token(t) \/ GenerateEnds(t)
    BY <2>5, CtxAfter
  <2>6. CASE pai_http_server_run(t) \/ Recv(t) \/ SeqWrite(t) \/ Lock(t) \/ FinishStream(t)
              \/ gw_conn_thread_end(t) \/ PeerGone(t)
    BY <2>6 DEF pai_http_server_run, Recv, SeqWrite, Lock, FinishStream,
       gw_conn_thread_end,
       PeerGone
  <2>7. QED
    BY <2>2, <2>3, <2>4, <2>5, <2>6 DEF Thread
<1>2. CASE UNCHANGED ctx
  BY <1>2 DEF TypeOK
<1>3. QED
  BY <1>1, <1>2, CtxSet

\* What a step puts on the wire, by its kind: a whole reply that is not a
\* generation's, the beginning of a stream, a token, the end of a stream, the
\* answer of a generation, or a terminal chunk.
Plain(what) == Len(what) = 2 /\ what[1].k = "head" /\ ~what[1].chunked
               /\ what[2].k \in {"error", "body", "models"}
Opening(what) == Len(what) >= 1 /\ what[1] = StatusLine(200, TRUE)
                 /\ \A i \in 2..Len(what) : what[i].k \in {"role", "echo"}
Ending(t, what) ==
    \E n \in {1, 2} :
       /\ Len(what) = n + 2 /\ what[n + 1].k = "done" /\ what[n + 2].k = "end"
       /\ what[1] = (IF Bad(t) THEN Ev("sse_error") ELSE Answer(t, "final"))
       /\ n = 2 => what[2].k = "usage"

\* The pieces of a reply are sequences.
LEMMA ReplyIsSeq ==
    ASSUME NEW t \in Conns
    PROVE  /\ \A status \in Nat : \A b : b.k \in {"error", "body", "models"} =>
                IsSeq(Whole(status, b)) /\ Plain(Whole(status, b))
           /\ IsSeq(StreamBegins(t)) /\ Opening(StreamBegins(t))
<1>1. ASSUME NEW status \in Nat, NEW b, b.k \in {"error", "body", "models"}
      PROVE  IsSeq(Whole(status, b)) /\ Plain(Whole(status, b))
  BY <1>1, WholeIsSeq, OneIsSeq, EmptyIsSeq DEF Whole, Plain, StatusLine
<1>2. IsSeq(StreamBegins(t)) /\ Opening(StreamBegins(t))
  <2> DEFINE h == StatusLine(200, TRUE)
             r == IF req[t].path = "chat" THEN <<Ev("role")>> ELSE <<>>
             e == IF req[t].echo THEN <<Ev("echo")>> ELSE <<>>
  <2>1. /\ IsSeq(<<h>>) /\ Len(<<h>>) = 1 /\ <<h>>[1] = h
        /\ IsSeq(r) /\ IsSeq(e) /\ Len(r) \in {0, 1} /\ Len(e) \in {0, 1}
        /\ \A i \in 1..Len(r) : r[i].k = "role"
        /\ \A i \in 1..Len(e) : e[i].k = "echo"
    <3>1. IsSeq(<<h>>) /\ Len(<<h>>) = 1 /\ <<h>>[1] = h
      BY WholeIsSeq, OneIsSeq, EmptyIsSeq
    <3>2. IsSeq(r) /\ Len(r) \in {0, 1} /\ \A i \in 1..Len(r) : r[i].k = "role"
      <4>1. CASE req[t].path = "chat"
        BY <4>1, WholeIsSeq, OneIsSeq, EmptyIsSeq DEF Ev
      <4>2. CASE req[t].path # "chat"
        BY <4>2, WholeIsSeq, OneIsSeq, EmptyIsSeq
      <4>3. QED
        BY <4>1, <4>2
    <3>3. IsSeq(e) /\ Len(e) \in {0, 1} /\ \A i \in 1..Len(e) : e[i].k = "echo"
      <4>1. CASE req[t].echo
        BY <4>1, WholeIsSeq, OneIsSeq, EmptyIsSeq DEF Ev
      <4>2. CASE ~req[t].echo
        BY <4>2, WholeIsSeq, OneIsSeq, EmptyIsSeq
      <4>3. QED
        BY <4>1, <4>2
    <3>4. QED
      BY <3>1, <3>2, <3>3
  <2> HIDE DEF h, r, e
  <2>2. /\ IsSeq(<<h>> \o r) /\ Len(<<h>> \o r) = 1 + Len(r) /\ (<<h>> \o r)[1] = h
        /\ \A i \in 2..1 + Len(r) : (<<h>> \o r)[i].k = "role"
    BY <2>1, ConcatIsSeq
  <2> DEFINE s == <<h>> \o r
  <2> HIDE DEF s
  <2>3. /\ IsSeq(s \o e) /\ Len(s \o e) = Len(s) + Len(e) /\ (s \o e)[1] = h
        /\ \A i \in 2..Len(s) + Len(e) : (s \o e)[i].k \in {"role", "echo"}
    <3>1. IsSeq(s) /\ Len(s) = 1 + Len(r) /\ s[1] = h /\ \A i \in 2..Len(s) : s[i].k = "role"
      BY <2>2 DEF s
    <3>2. /\ IsSeq(s \o e) /\ Len(s \o e) = Len(s) + Len(e) /\ Len(s) >= 1 /\ Len(s) \in Nat
          /\ \A i \in 1..Len(s) : (s \o e)[i] = s[i]
          /\ \A i \in 1..(Len(s) + Len(e)) : i \notin 1..Len(s) =>
               i - Len(s) \in 1..Len(e) /\ (s \o e)[i] = e[i - Len(s)]
      <4>1. IsSeq(s) /\ IsSeq(e) /\ Len(s) = 1 + Len(r) /\ Len(r) \in {0, 1}
        BY <2>1, <3>1
      <4>2. Len(s) >= 1 /\ Len(s) \in Nat
        BY <4>1
      <4>3. /\ IsSeq(s \o e) /\ Len(s \o e) = Len(s) + Len(e)
            /\ \A i \in 1..Len(s) : (s \o e)[i] = s[i]
            /\ \A i \in 1..(Len(s) + Len(e)) : i \notin 1..Len(s) =>
                 i - Len(s) \in 1..Len(e) /\ (s \o e)[i] = e[i - Len(s)]
        BY <4>1, ConcatIsSeq
      <4>4. QED
        BY <4>2, <4>3
    <3>3. ASSUME NEW i \in 2..Len(s) + Len(e) PROVE (s \o e)[i].k \in {"role", "echo"}
      <4>1. CASE i \in 1..Len(s)
        BY <3>1, <3>2, <4>1
      <4>2. CASE i \notin 1..Len(s)
        BY <2>1, <3>2, <4>2
      <4>3. QED
        BY <4>1, <4>2
    <3>4. QED
      BY <3>1, <3>2, <3>3
  <2>4. StreamBegins(t) = s \o e /\ Len(s) >= 1
    BY <2>1, <2>2 DEF StreamBegins, s, h, r, e
  <2>5. QED
    BY <2>1, <2>2, <2>3, <2>4 DEF Opening, h, s
<1>3. QED
  BY <1>1, <1>2

\* The end of a stream.
LEMMA EndingIsSeq ==
    ASSUME NEW t \in Conns,
           NEW what, what = (IF Bad(t) THEN <<Ev("sse_error")>>
                             ELSE <<Answer(t, "final")>>
                                  \o (IF req[t].usage THEN <<Ev("usage")>> ELSE <<>>))
                            \o <<Ev("done"), Ev("end")>>
    PROVE  IsSeq(what) /\ Ending(t, what)
<1> DEFINE m == IF Bad(t) THEN Ev("sse_error") ELSE Answer(t, "final")
           u == IF ~Bad(t) /\ req[t].usage THEN <<Ev("usage")>> ELSE <<>>
           z == <<Ev("done"), Ev("end")>>
<1>1. /\ IsSeq(<<m>>) /\ Len(<<m>>) = 1 /\ <<m>>[1] = m
      /\ IsSeq(u) /\ Len(u) \in {0, 1} /\ (Len(u) = 1 => u[1].k = "usage")
      /\ IsSeq(z) /\ Len(z) = 2 /\ z[1].k = "done" /\ z[2].k = "end"
  <2>1. IsSeq(<<m>>) /\ Len(<<m>>) = 1 /\ <<m>>[1] = m
    BY WholeIsSeq, OneIsSeq, EmptyIsSeq
  <2>2. IsSeq(u) /\ Len(u) \in {0, 1} /\ (Len(u) = 1 => u[1].k = "usage")
    <3>1. CASE ~Bad(t) /\ req[t].usage
      BY <3>1, WholeIsSeq, OneIsSeq, EmptyIsSeq DEF Ev
    <3>2. CASE ~(~Bad(t) /\ req[t].usage)
      BY <3>2, WholeIsSeq, OneIsSeq, EmptyIsSeq
    <3>3. QED
      BY <3>1, <3>2
  <2>3. IsSeq(z) /\ Len(z) = 2 /\ z[1].k = "done" /\ z[2].k = "end"
    BY WholeIsSeq, OneIsSeq, EmptyIsSeq DEF Ev
  <2>4. QED
    BY <2>1, <2>2, <2>3
<1>2. what = (<<m>> \o u) \o z
  <2>1. IsSeq(<<Ev("sse_error")>>) /\ <<Ev("sse_error")>> \o <<>> = <<Ev("sse_error")>>
    <3>1. <<Ev("sse_error")>> \in Seq({Ev("sse_error")})
      OBVIOUS
    <3>2. QED
      BY <3>1, ConcatEmptySeq, WholeIsSeq, OneIsSeq, EmptyIsSeq
  <2>2. CASE Bad(t)
    BY <2>1, <2>2
  <2>3. CASE ~Bad(t)
    BY <2>3
  <2>4. QED
    BY <2>2, <2>3
<1> HIDE DEF m, u, z
<1> DEFINE s == <<m>> \o u
<1>3. IsSeq(s) /\ Len(s) = 1 + Len(u) /\ s[1] = m /\ (Len(u) = 1 => s[2].k = "usage")
  BY <1>1, ConcatIsSeq
<1> HIDE DEF s
<1>4. /\ IsSeq(s \o z) /\ Len(s \o z) = Len(s) + 2 /\ (s \o z)[1] = m
      /\ (Len(s) = 2 => (s \o z)[2].k = "usage")
      /\ (s \o z)[Len(s) + 1].k = "done" /\ (s \o z)[Len(s) + 2].k = "end"
  <2>1. 1 \in 1..Len(s) /\ (Len(s) = 2 => 2 \in 1..Len(s)) /\ 1 \in 1..Len(z) /\ 2 \in 1..Len(z)
    BY <1>1, <1>3
  <2>2. /\ IsSeq(s \o z) /\ Len(s \o z) = Len(s) + Len(z)
        /\ \A i \in 1..Len(s) : (s \o z)[i] = s[i]
        /\ \A i \in 1..Len(z) : (s \o z)[Len(s) + i] = z[i]
    <3>1. IsSeq(s) /\ IsSeq(z)
      BY <1>1, <1>3
    <3>2. QED
      BY <3>1, ConcatIsSeq
  <2>3. (s \o z)[1] = m /\ (Len(s) = 2 => (s \o z)[2].k = "usage")
    BY <1>1, <1>3, <2>1, <2>2
  <2>4. (s \o z)[Len(s) + 1].k = "done" /\ (s \o z)[Len(s) + 2].k = "end"
    BY <1>1, <2>1, <2>2
  <2>5. QED
    BY <1>1, <2>2, <2>3, <2>4
<1>5. what = s \o z /\ Len(s) \in {1, 2}
  BY <1>1, <1>2, <1>3 DEF s
<1>6. QED
  BY <1>4, <1>5 DEF Ending, m

\* The sends of each step.
PlainSend(t) ==
    /\ \E what : IsSeq(what) /\ Plain(what) /\ Send(t, what)
    /\ \/ pc[t] = "recv" /\ pc'[t] = "closed"
       \/ pc[t] \in {"route", "ready", "apply", "embed", "send"} /\ pc'[t] = "end"
       \/ pc[t] = "finish" /\ ~req[t].stream /\ pc'[t] \in {"end", "unlock"}
AnswerSend(t) ==
    /\ pc[t] = "finish" /\ ~req[t].stream /\ ~Bad(t) /\ pc'[t] = "unlock"
    /\ Send(t, Whole(200, Answer(t, "answer")))
OpeningSend(t) ==
    /\ pc[t] = "apply" /\ req[t].stream /\ pc'[t] = "generate"
    /\ \E what : IsSeq(what) /\ Opening(what) /\ Send(t, what)
TokenSend(t) ==
    pc[t] = "loop" /\ req[t].stream /\ pc'[t] \in {"loop", "finish"}
    /\ Send(t, <<Ev("token")>>)
EndingSend(t) ==
    /\ pc[t] = "finish" /\ req[t].stream /\ pc'[t] = "unlock"
    /\ \E what : IsSeq(what) /\ Ending(t, what) /\ Send(t, what)
CloseSend(t) ==
    pc[t] = "end" /\ pc'[t] = "closed" /\ Chunked(t) /\ Send(t, <<Ev("end")>>)
\* Nothing is sent, and nothing was due.
NoSend(t) ==
    /\ UNCHANGED wire
    /\ \/ pc'[t] = pc[t]
       \/ pc[t] = "idle" /\ pc'[t] \in {"recv", "closed"}
       \/ pc[t] = "recv" /\ pc'[t] \in {"route", "closed"}
       \/ pc[t] = "route" /\ pc'[t] \in {"seq", "lock"}
       \/ pc[t] = "seq" /\ pc'[t] = "seq_write"
       \/ pc[t] = "seq_write" /\ pc'[t] = "lock"
       \/ pc[t] = "lock" /\ pc'[t] = "ready"
       \/ pc[t] = "ready" /\ pc'[t] \in {"apply", "embed"}
       \/ pc[t] = "apply" /\ ~req[t].stream /\ pc'[t] = "generate"
       \/ pc[t] = "generate" /\ pc'[t] \in {"loop", "finish"}
       \/ pc[t] = "loop" /\ pc'[t] \in {"loop", "finish"}
       \/ pc[t] = "unlock" /\ pc'[t] = "end"
       \/ pc[t] = "embed" /\ pc'[t] = "send"
       \/ pc[t] = "end" /\ ~Chunked(t) /\ pc'[t] = "closed"
Sends(t) == PlainSend(t) \/ AnswerSend(t) \/ OpeningSend(t) \/ TokenSend(t) \/ EndingSend(t)
            \/ CloseSend(t) \/ NoSend(t)

\* Sending nothing leaves the wire alone.
LEMMA SendNothing ==
    ASSUME TypeOK, NEW t \in Conns, Send(t, <<>>)
    PROVE  UNCHANGED wire
<1>1. wire[t] \in Seq(Range(wire[t]))
  BY DEF TypeOK, IsSeq
<1>2. wire[t] \o <<>> = wire[t]
  BY <1>1, ConcatEmptySeq
<1>3. QED
  BY <1>2 DEF Send, TypeOK

\* An error is a plain reply.
LEMMA ErrorIsPlain ==
    ASSUME NEW t \in Conns, NEW status \in Nat, send_error(t, status)
    PROVE  \E what : IsSeq(what) /\ Plain(what) /\ Send(t, what)
BY ReplyIsSeq DEF send_error, Ev

\* Every step is one of those.
LEMMA StepSends ==
    ASSUME TypeOK, NEW t \in Conns, Thread(t) \/ PeerGone(t)
    PROVE  Sends(t)
<1> USE DEF At
<1>0. ASSUME NEW l, Go(t, l) PROVE pc'[t] = l
  BY <1>0 DEF Go, TypeOK
<1>1. CASE pai_http_server_run(t) \/ SeqRead(t) \/ SeqWrite(t) \/ Lock(t)
  BY <1>0, <1>1 DEF pai_http_server_run, SeqRead, SeqWrite, Lock, Sends, NoSend
<1>2. CASE pai_session_generate(t) \/ GenerateEnds(t) \/ Unlock(t) \/ PeerGone(t)
  BY <1>0, <1>2 DEF pai_session_generate, GenerateEnds, Unlock, Return,
     PeerGone, Sends, NoSend
<1>3. CASE Recv(t)
  <2> DEFINE st == pai_http_parse_request(req[t], got[t] + 1)
  <2>1. CASE UNCHANGED wire
    BY <1>0, <1>3, <2>1 DEF Recv, Sends, NoSend
  <2>2. CASE Go(t, "closed") /\ send_error(t, Refusal(st))
    <3>1. Refusal(st) \in Nat
      BY DEF Refusal
    <3>2. QED
      BY <1>0, <1>3, <2>2, <3>1, ErrorIsPlain DEF Recv, Sends, PlainSend
  <2>3. QED
    BY <1>3, <2>1, <2>2 DEF Recv
<1>4. CASE pai_gw_handle_request(t)
  <2>1. CASE UNCHANGED <<ctx, wire>> /\ \E l \in {"seq", "lock"} : Go(t, l)
    BY <1>0, <1>4, <2>1 DEF pai_gw_handle_request, Sends, NoSend
  <2>2. CASE Return(t) /\ \E s \in Nat : send_error(t, s)
    BY <1>0, <1>4, <2>2, ErrorIsPlain DEF pai_gw_handle_request, Return, Sends,
       PlainSend
  <2>3. CASE Return(t) /\ (Send(t, Whole(200, Ev("body"))) \/ Send(t, Whole(200, handle_models)))
    BY <1>0, <1>4, <2>3, ReplyIsSeq
    DEF pai_gw_handle_request, Return, Sends, PlainSend, Ev, handle_models
  <2>4. handle_checks(req[t]) \in Nat
    BY DEF handle_checks
  <2>5. QED
    BY <1>4, <2>1, <2>2, <2>3, <2>4 DEF pai_gw_handle_request
<1>5. CASE EnsureReady(t)
  <2>1. CASE UNCHANGED wire /\ \E l \in {"apply", "embed"} : Go(t, l)
    BY <1>0, <1>5, <2>1 DEF EnsureReady, Sends, NoSend
  <2>2. CASE Return(t) /\ send_error(t, 500)
    BY <1>0, <1>5, <2>2, ErrorIsPlain DEF EnsureReady, Return, Sends, PlainSend
  <2>3. QED
    BY <1>5, <2>1, <2>2 DEF EnsureReady
<1>6. CASE Apply(t)
  <2>1. CASE req[t].seed /\ req[t].stream
    BY <1>0, <1>6, <2>1, ReplyIsSeq DEF Apply, Sends, OpeningSend
  <2>2. CASE req[t].seed /\ ~req[t].stream
    BY <1>0, <1>6, <2>2, SendNothing DEF Apply, Sends, NoSend
  <2>3. CASE ~req[t].seed
    BY <1>0, <1>6, <2>3, ErrorIsPlain DEF Apply, Return, Sends, PlainSend
  <2>4. QED
    BY <2>1, <2>2, <2>3
<1>7. CASE Token(t)
  <2>1. \E l \in {"finish", "loop"} : Go(t, l)
    BY <1>7 DEF Token
  <2>2. CASE req[t].stream /\ Send(t, <<Ev("token")>>)
    BY <1>0, <1>7, <2>1, <2>2 DEF Token, Sends, TokenSend
  <2>3. CASE Send(t, <<>>)
    BY <1>0, <1>7, <2>1, <2>3, SendNothing DEF Token, Sends, NoSend
  <2>4. QED
    BY <1>7, <2>2, <2>3 DEF Token
<1>8. CASE FinishStream(t)
  BY <1>0, <1>8, EndingIsSeq DEF FinishStream, Sends, EndingSend
<1>9. CASE FinishWhole(t)
  <2>1. CASE ~Bad(t) /\ Send(t, Whole(200, Answer(t, "answer"))) /\ Go(t, "unlock")
    BY <1>0, <1>9, <2>1 DEF FinishWhole, Sends, AnswerSend
  <2>2. CASE \E s \in Nat : send_error(t, s) /\ (Return(t) \/ Go(t, "unlock"))
    BY <1>0, <1>9, <2>2, ErrorIsPlain DEF FinishWhole, Return, Sends, PlainSend
  <2>3. QED
    BY <1>9, <2>1, <2>2 DEF FinishWhole
<1>10. CASE handle_embeddings(t)
  <2>1. CASE UNCHANGED <<pc, wire>> \/ (UNCHANGED wire /\ Go(t, "send"))
    BY <1>0, <1>10, <2>1 DEF handle_embeddings, Sends, NoSend
  <2>2. CASE Return(t) /\ \E s \in Nat : send_error(t, s)
    BY <1>0, <1>10, <2>2, ErrorIsPlain DEF handle_embeddings, Return, Sends,
       PlainSend
  <2>3. QED
    BY <1>10, <2>1, <2>2 DEF handle_embeddings
<1>11. CASE EmbeddingsReply(t)
  BY <1>0, <1>11, ReplyIsSeq DEF EmbeddingsReply, Return, Sends, PlainSend, Ev
<1>12. CASE gw_conn_thread_end(t)
  BY <1>0, <1>12, SendNothing DEF gw_conn_thread_end, Sends, CloseSend, NoSend
<1>13. QED
  BY <1>1, <1>2, <1>3, <1>4, <1>5, <1>6, <1>7, <1>8, <1>9, <1>10, <1>11, <1>12
     DEF Thread

\* A reply of a generation is made from its context, and it is the whole answer
\* only when the reply is not streamed.
OwnAnswer(t, x) == x = Answer(t, x.k) /\ (x.k = "answer" => ~req[t].stream)

\* The wires: only its own, at the end of which the step may add something; a
\* reply that carries an id is made from the context of a generation.
Added(t, what) ==
    /\ IsSeq(what) /\ wire'[t] = wire[t] \o what
    /\ \A i \in 1..Len(what) : what[i].k \in {"answer", "final"} =>
          pc[t] = "finish" /\ ~Bad(t) /\ OwnAnswer(t, what[i])

\* A step of one thread appends to its own wire or leaves it, and the others'
\* wires stay as they are.
LEMMA FrameWire ==
    ASSUME TypeOK, NEW t \in Conns, Thread(t) \/ PeerGone(t)
    PROVE  /\ wire' = [u \in Conns |-> wire'[u]]
           /\ \A u \in Conns : IsSeq(wire'[u])
           /\ \A u \in Conns : u # t => wire'[u] = wire[u]
           /\ wire'[t] = wire[t] \/ \E what : Added(t, what)
<1>1. \/ UNCHANGED wire
      \/ \E what : /\ IsSeq(what) /\ Send(t, what)
                   /\ \A i \in 1..Len(what) : what[i].k \in {"answer", "final"} =>
                        pc[t] = "finish" /\ ~Bad(t) /\ OwnAnswer(t, what[i])
  <2>1. CASE PlainSend(t)
    <3>1. PICK what : IsSeq(what) /\ Plain(what) /\ Send(t, what)
      BY <2>1 DEF PlainSend
    <3>2. \A i \in 1..Len(what) : what[i].k \notin {"answer", "final"}
      BY <3>1 DEF Plain
    <3>3. QED
      BY <3>1, <3>2
  <2>2. CASE AnswerSend(t)
    <3> DEFINE h == StatusLine(200, FALSE)
               b == Answer(t, "answer")
    <3>1. IsSeq(<<h, b>>) /\ Len(<<h, b>>) = 2
      BY WholeIsSeq
    <3>2. <<h, b>>[1].k = "head" /\ <<h, b>>[2] = b /\ b.k = "answer"
      BY DEF StatusLine, Answer
    <3>3. Send(t, <<h, b>>)
      BY <2>2 DEF AnswerSend, Whole
    <3>4. ASSUME NEW i \in 1..Len(<<h, b>>), <<h, b>>[i].k \in {"answer", "final"}
          PROVE  pc[t] = "finish" /\ ~Bad(t) /\ OwnAnswer(t, <<h, b>>[i])
      <4>1. i = 1 \/ i = 2
        BY <3>1
      <4>2. i # 1
        BY <3>2, <3>4
      <4>3. QED
        BY <2>2, <3>2, <4>1, <4>2 DEF AnswerSend, OwnAnswer
    <3>5. QED
      BY <3>1, <3>3, <3>4
  <2>3. CASE OpeningSend(t)
    <3>1. PICK what : IsSeq(what) /\ Opening(what) /\ Send(t, what)
      BY <2>3 DEF OpeningSend
    <3>2. \A i \in 1..Len(what) : what[i].k \notin {"answer", "final"}
      BY <3>1 DEF Opening, StatusLine
    <3>3. QED
      BY <3>1, <3>2
  <2>4. CASE TokenSend(t)
    BY <2>4, OneIsSeq DEF TokenSend, Ev
  <2>5. CASE EndingSend(t)
    <3>1. PICK what : IsSeq(what) /\ Ending(t, what) /\ Send(t, what)
      BY <2>5 DEF EndingSend
    <3>2. PICK n \in {1, 2} :
            /\ Len(what) = n + 2 /\ what[n + 1].k = "done" /\ what[n + 2].k = "end"
            /\ what[1] = (IF Bad(t) THEN Ev("sse_error") ELSE Answer(t, "final"))
            /\ n = 2 => what[2].k = "usage"
      BY <3>1 DEF Ending
    <3>3. ASSUME NEW i \in 1..Len(what), what[i].k \in {"answer", "final"}
          PROVE  i = 1 /\ ~Bad(t) /\ OwnAnswer(t, what[i])
      <4>1. i = 1
        BY <3>2, <3>3
      <4>2. ~Bad(t)
        BY <3>2, <3>3, <4>1 DEF Ev
      <4>3. QED
        BY <3>2, <4>1, <4>2 DEF Answer, OwnAnswer
    <3>4. QED
      BY <2>5, <3>1, <3>3 DEF EndingSend
  <2>6. CASE CloseSend(t)
    BY <2>6, OneIsSeq DEF CloseSend, Ev
  <2>7. CASE NoSend(t)
    BY <2>7 DEF NoSend
  <2>8. QED
    BY <2>1, <2>2, <2>3, <2>4, <2>5, <2>6, <2>7, StepSends DEF Sends
<1>2. CASE UNCHANGED wire
  BY <1>2 DEF TypeOK
<1>3. ASSUME NEW what, IsSeq(what), Send(t, what),
             \A i \in 1..Len(what) : what[i].k \in {"answer", "final"} =>
                pc[t] = "finish" /\ ~Bad(t) /\ OwnAnswer(t, what[i])
      PROVE  /\ wire' = [u \in Conns |-> wire'[u]]
             /\ \A u \in Conns : IsSeq(wire'[u])
             /\ \A u \in Conns : u # t => wire'[u] = wire[u]
             /\ wire'[t] = wire[t] \/ \E x : Added(t, x)
  <2>1. peer[t] \in {"reads", "gone"}
    BY DEF TypeOK
  <2>2. wire'[t] = wire[t] \/ Added(t, what)
    BY <1>3, <2>1, Sent DEF Added
  <2>3. QED
    BY <1>3, <2>2, Sent
<1>4. QED
  BY <1>1, <1>2, <1>3

\* One entry changes.
LEMMA EntrySet ==
    ASSUME TypeOK, NEW e \in Names, NEW n, IsEntry(n), entry' = [entry EXCEPT ![e] = n]
    PROVE  /\ entry' = [x \in Names |-> entry'[x]]
           /\ \A x \in Names : IsEntry(entry'[x])
           /\ \A x \in Names : x # e => entry'[x] = entry[x]
           /\ entry'[e] = n
BY DEF TypeOK

\* An entry with another value of opened.
LEMMA EntryOpened ==
    ASSUME NEW n, IsEntry(n), NEW v, NEW d, d = [n EXCEPT !.opened = v]
    PROVE  IsEntry(d) /\ d.sampler = n.sampler /\ d.generated = n.generated
<1>1. d = [opened |-> v, broken |-> n.broken, sampler |-> n.sampler,
           cancelled |-> n.cancelled, generated |-> n.generated]
  BY DEF IsEntry
<1>2. QED
  BY <1>1 DEF IsEntry

\* An entry with another value of broken.
LEMMA EntryBroken ==
    ASSUME NEW n, IsEntry(n), NEW v, NEW d, d = [n EXCEPT !.broken = v]
    PROVE  IsEntry(d) /\ d.sampler = n.sampler /\ d.generated = n.generated
<1>1. d = [opened |-> n.opened, broken |-> v, sampler |-> n.sampler,
           cancelled |-> n.cancelled, generated |-> n.generated]
  BY DEF IsEntry
<1>2. QED
  BY <1>1 DEF IsEntry

\* An entry with another value of sampler.
LEMMA EntrySampler ==
    ASSUME NEW n, IsEntry(n), NEW v, NEW d, d = [n EXCEPT !.sampler = v]
    PROVE  IsEntry(d) /\ d.generated = n.generated /\ d.sampler = v
<1>1. d = [opened |-> n.opened, broken |-> n.broken, sampler |-> v,
           cancelled |-> n.cancelled, generated |-> n.generated]
  BY DEF IsEntry
<1>2. QED
  BY <1>1 DEF IsEntry

\* An entry with another value of cancelled.
LEMMA EntryCancelled ==
    ASSUME NEW n, IsEntry(n), NEW v, NEW d, d = [n EXCEPT !.cancelled = v]
    PROVE  IsEntry(d) /\ d.sampler = n.sampler /\ d.generated = n.generated
<1>1. d = [opened |-> n.opened, broken |-> n.broken, sampler |-> n.sampler,
           cancelled |-> v, generated |-> n.generated]
  BY DEF IsEntry
<1>2. QED
  BY <1>1 DEF IsEntry

\* An entry with another value of generated.
LEMMA EntryGenerated ==
    ASSUME NEW n, IsEntry(n), NEW v, NEW d, d = [n EXCEPT !.generated = v]
    PROVE  IsEntry(d) /\ d.sampler = n.sampler /\ d.generated = v
<1>1. d = [opened |-> n.opened, broken |-> n.broken, sampler |-> n.sampler,
           cancelled |-> n.cancelled, generated |-> v]
  BY DEF IsEntry
<1>2. QED
  BY <1>1 DEF IsEntry

\* What becomes of the entry of a thread that has its lock, by step.
EntryStep(t) ==
    /\ pc[t] \in Inside /\ entry' = [entry EXCEPT ![E(t)] = entry'[E(t)]]
    /\ IsEntry(entry'[E(t)])
    /\ EnsureReady(t) => /\ entry'[E(t)].sampler = entry[E(t)].sampler
                         /\ entry'[E(t)].generated = entry[E(t)].generated
    /\ Apply(t) => Remote(E(t)) \/ entry'[E(t)].sampler = t
    /\ pai_session_generate(t) \/ Token(t) => entry'[E(t)].sampler = entry[E(t)].sampler
    /\ pai_session_generate(t) /\ pc'[t] = "loop" =>
          Remote(E(t)) \/ entry'[E(t)].generated = 0
    /\ Token(t) => Remote(E(t)) \/ entry'[E(t)].generated = entry[E(t)].generated + 1

\* Only the thread that holds the lock of an entry changes it, and only in
\* the way its step allows.
LEMMA EntryAfter ==
    ASSUME TypeOK, Locks, NEW t \in Conns,
           EnsureReady(t) \/ Apply(t) \/ pai_session_generate(t) \/ Token(t)
    PROVE  EntryStep(t)
<1>1. pc[t] \in Inside /\ E(t) \in Names /\ IsEntry(entry[E(t)])
  BY DEF EnsureReady, Apply, pai_session_generate, Token, At, Inside, Locks,
     TypeOK
<1>2. ASSUME NEW n, IsEntry(n), entry' = [entry EXCEPT ![E(t)] = n]
      PROVE  entry' = [entry EXCEPT ![E(t)] = entry'[E(t)]] /\ entry'[E(t)] = n
  BY <1>1, <1>2 DEF TypeOK
<1>3. CASE EnsureReady(t)
  <2>1. PICK v, w : entry' = [entry EXCEPT ![E(t)].opened = v, ![E(t)].broken = w]
    BY <1>3 DEF EnsureReady
  <2>2. PICK n : n = [entry[E(t)] EXCEPT !.opened = v, !.broken = w]
    OBVIOUS
  <2>3. entry' = [entry EXCEPT ![E(t)] = n]
    BY <1>1, <2>1, <2>2 DEF TypeOK
  <2>4. IsEntry(n) /\ n.sampler = entry[E(t)].sampler /\ n.generated = entry[E(t)].generated
    <3>1. PICK m : m = [entry[E(t)] EXCEPT !.opened = v]
      OBVIOUS
    <3>2. IsEntry(m) /\ m.sampler = entry[E(t)].sampler /\ m.generated = entry[E(t)].generated
      BY <1>1, <3>1, EntryOpened
    <3>3. n = [m EXCEPT !.broken = w]
      BY <2>2, <3>1
    <3>4. QED
      BY <3>2, <3>3, EntryBroken
  <2>5. pc[t] = "ready"
    BY <1>3 DEF EnsureReady, At
  <2>6. QED
    BY <1>1, <1>2, <2>3, <2>4, <2>5 DEF EntryStep, Apply, pai_session_generate,
       Token, At
<1>4. CASE Apply(t)
  <2>1. PICK n : n = [entry[E(t)] EXCEPT !.sampler = IF Remote(E(t)) THEN @ ELSE t]
    OBVIOUS
  <2>2. entry' = [entry EXCEPT ![E(t)] = n] /\ pc[t] = "apply"
    BY <1>4, <2>1 DEF Apply, At
  <2>3. IsEntry(n) /\ (Remote(E(t)) \/ n.sampler = t)
    BY <1>1, <2>1, EntrySampler
  <2>4. QED
    BY <1>1, <1>2, <2>2, <2>3 DEF EntryStep, EnsureReady, pai_session_generate,
       Token, At
<1>5. CASE pai_session_generate(t)
  <2>1. pc[t] = "generate"
    BY <1>5 DEF pai_session_generate, At
  <2>2. CASE UNCHANGED entry
    <3>1. entry' = [entry EXCEPT ![E(t)] = entry[E(t)]]
      BY <2>2 DEF TypeOK
    <3>2. CASE pc'[t] = "loop"
      <4>1. PICK n : n = [entry[E(t)] EXCEPT
                            !.generated = IF Remote(E(t)) THEN @ ELSE 0, !.cancelled = FALSE]
        OBVIOUS
      <4>2. entry' = [entry EXCEPT ![E(t)] = n]
        BY <1>1, <1>5, <3>2, <4>1 DEF pai_session_generate, Go, TypeOK
      <4>3. IsEntry(n) /\ n.sampler = entry[E(t)].sampler
            /\ n.generated = IF Remote(E(t)) THEN entry[E(t)].generated ELSE 0
        <5>1. PICK m : m = [entry[E(t)] EXCEPT !.generated = IF Remote(E(t)) THEN @ ELSE 0]
          OBVIOUS
        <5>2. IsEntry(m) /\ m.sampler = entry[E(t)].sampler
              /\ m.generated = IF Remote(E(t)) THEN entry[E(t)].generated ELSE 0
          BY <1>1, <5>1, EntryGenerated
        <5>3. PICK v : n = [m EXCEPT !.cancelled = v]
          BY <4>1, <5>1
        <5>4. QED
          BY <5>2, <5>3, EntryCancelled
      <4>4. QED
        BY <1>1, <1>2, <2>1, <4>2, <4>3 DEF EntryStep, EnsureReady, Apply,
           Token, At
    <3>3. QED
      BY <1>1, <2>1, <2>2, <3>1, <3>2 DEF EntryStep, EnsureReady, Apply, Token,
         At
  <2>3. CASE entry' = [entry EXCEPT ![E(t)].generated = IF Remote(E(t)) THEN @ ELSE 0,
                                    ![E(t)].cancelled = FALSE]
    <3>1. PICK n : n = [entry[E(t)] EXCEPT
                          !.generated = IF Remote(E(t)) THEN @ ELSE 0, !.cancelled = FALSE]
      OBVIOUS
    <3>2. entry' = [entry EXCEPT ![E(t)] = n]
      BY <1>1, <2>3, <3>1 DEF TypeOK
    <3>3. IsEntry(n) /\ n.sampler = entry[E(t)].sampler
          /\ n.generated = IF Remote(E(t)) THEN entry[E(t)].generated ELSE 0
      <4>1. PICK m : m = [entry[E(t)] EXCEPT !.generated = IF Remote(E(t)) THEN @ ELSE 0]
        OBVIOUS
      <4>2. IsEntry(m) /\ m.sampler = entry[E(t)].sampler
            /\ m.generated = IF Remote(E(t)) THEN entry[E(t)].generated ELSE 0
        BY <1>1, <4>1, EntryGenerated
      <4>3. PICK v : n = [m EXCEPT !.cancelled = v]
        BY <3>1, <4>1
      <4>4. QED
        BY <4>2, <4>3, EntryCancelled
    <3>4. QED
      BY <1>1, <1>2, <2>1, <3>2, <3>3 DEF EntryStep, EnsureReady, Apply, Token,
         At
  <2>4. QED
    BY <1>5, <2>2, <2>3 DEF pai_session_generate
<1>6. CASE Token(t)
  <2>1. PICK c : entry' = [entry EXCEPT ![E(t)].generated = IF Remote(E(t)) THEN @ ELSE @ + 1,
                                        ![E(t)].cancelled = @ \/ c]
    BY <1>6 DEF Token
  <2>2. PICK n : n = [entry[E(t)] EXCEPT !.generated = IF Remote(E(t)) THEN @ ELSE @ + 1,
                                         !.cancelled = @ \/ c]
    OBVIOUS
  <2>3. entry' = [entry EXCEPT ![E(t)] = n]
    BY <1>1, <2>1, <2>2 DEF TypeOK
  <2>4. IsEntry(n) /\ n.sampler = entry[E(t)].sampler
        /\ n.generated = IF Remote(E(t)) THEN entry[E(t)].generated
                                         ELSE entry[E(t)].generated + 1
    <3>1. PICK m : m = [entry[E(t)] EXCEPT !.generated = IF Remote(E(t)) THEN @ ELSE @ + 1]
      OBVIOUS
    <3>2. IsEntry(m) /\ m.sampler = entry[E(t)].sampler
          /\ m.generated = IF Remote(E(t)) THEN entry[E(t)].generated ELSE entry[E(t)].generated + 1
      BY <1>1, <3>1, EntryGenerated
    <3>3. PICK v : n = [m EXCEPT !.cancelled = v]
      BY <2>2, <3>1
    <3>4. QED
      BY <3>2, <3>3, EntryCancelled
  <2>5. pc[t] = "loop"
    BY <1>6 DEF Token, At
  <2>6. QED
    BY <1>1, <1>2, <2>3, <2>4, <2>5 DEF EntryStep, EnsureReady, Apply,
       pai_session_generate, At
<1>7. QED
  BY <1>3, <1>4, <1>5, <1>6

\* How a step changes who has which lock.
LEMMA LockAfter ==
    ASSUME TypeOK, NEW t \in Conns, Thread(t) \/ PeerGone(t)
    PROVE  /\ \/ UNCHANGED lock /\ (pc'[t] \in Inside => pc[t] \in Inside)
              \/ Lock(t) /\ pc[t] = "lock" /\ pc'[t] = "ready"
              \/ Unlocked(t) /\ pc[t] \in Inside /\ pc'[t] \notin Inside
           /\ pc'[t] \in Queued => pc[t] \in Queued \/ E(t) \in Names
<1> USE DEF At, Inside, Queued
<1>0. ASSUME NEW l, Go(t, l) PROVE pc'[t] = l
  BY <1>0 DEF Go, TypeOK
<1>1. CASE pai_http_server_run(t) \/ SeqRead(t) \/ SeqWrite(t) \/ Lock(t)
  BY <1>0, <1>1 DEF pai_http_server_run, SeqRead, SeqWrite, Lock
<1>2. CASE pai_session_generate(t) \/ GenerateEnds(t) \/ Unlock(t) \/ PeerGone(t)
  BY <1>0, <1>2 DEF pai_session_generate, GenerateEnds, Unlock, Return, PeerGone
<1>3. CASE Recv(t)
  BY <1>0, <1>3 DEF Recv
<1>4. CASE pai_gw_handle_request(t)
  <2>1. CASE Return(t)
    BY <1>0, <1>4, <2>1 DEF pai_gw_handle_request, Return
  <2>2. CASE ~Return(t)
    <3>1. handle_checks(req[t]) = 0 /\ \E l \in {"seq", "lock"} : Go(t, l)
      BY <1>4, <2>2 DEF pai_gw_handle_request
    <3>2. E(t) \in Names
      BY <3>1 DEF handle_checks, E
    <3>3. QED
      BY <1>0, <1>4, <3>1, <3>2 DEF pai_gw_handle_request
  <2>3. QED
    BY <2>1, <2>2
<1>5. CASE EnsureReady(t) \/ Apply(t)
  BY <1>0, <1>5 DEF EnsureReady, Apply, Return
<1>6. CASE Token(t)
  BY <1>0, <1>6 DEF Token
<1>7. CASE FinishStream(t) \/ FinishWhole(t)
  BY <1>0, <1>7 DEF FinishStream, FinishWhole, Return
<1>8. CASE handle_embeddings(t) \/ EmbeddingsReply(t) \/ gw_conn_thread_end(t)
  BY <1>0, <1>8 DEF handle_embeddings, EmbeddingsReply, Return,
     gw_conn_thread_end
<1>9. QED
  BY <1>1, <1>2, <1>3, <1>4, <1>5, <1>6, <1>7, <1>8 DEF Thread

\* The entries: only one whose lock it holds.
LEMMA FrameEntry ==
    ASSUME TypeOK, Locks, NEW t \in Conns, Thread(t) \/ PeerGone(t)
    PROVE  /\ entry' = [e \in Names |-> entry'[e]]
           /\ \A e \in Names : IsEntry(entry'[e])
           /\ \A u \in Conns : u # t /\ pc[u] \in Inside => entry'[E(u)] = entry[E(u)]
<1>1. CASE UNCHANGED entry
  BY <1>1 DEF TypeOK
<1>2. CASE EntryStep(t)
  <2>1. E(t) \in Names /\ lock[E(t)] = t
    BY <1>2 DEF EntryStep, Locks
  <2>2. ASSUME NEW u \in Conns, u # t, pc[u] \in Inside PROVE E(u) \in Names /\ E(u) # E(t)
    BY <2>1, <2>2 DEF Locks
  <2>3. PICK n : IsEntry(n) /\ entry' = [entry EXCEPT ![E(t)] = n]
    BY <1>2 DEF EntryStep
  <2>4. QED
    BY <2>1, <2>2, <2>3, EntrySet
<1>3. UNCHANGED entry \/ EnsureReady(t) \/ Apply(t) \/ pai_session_generate(t) \/ Token(t)
  <2>1. CASE pai_http_server_run(t) \/ SeqRead(t) \/ SeqWrite(t) \/ Lock(t) \/ Recv(t)
              \/ pai_gw_handle_request(t) \/ PeerGone(t)
    BY <2>1 DEF pai_http_server_run, SeqRead, SeqWrite, Lock, Recv,
       pai_gw_handle_request, PeerGone
  <2>2. CASE GenerateEnds(t) \/ FinishStream(t) \/ FinishWhole(t) \/ Unlock(t)
              \/ handle_embeddings(t) \/ EmbeddingsReply(t) \/ gw_conn_thread_end(t)
    BY <2>2 DEF GenerateEnds, FinishStream, FinishWhole, Unlock,
       handle_embeddings,
       EmbeddingsReply, gw_conn_thread_end
  <2>3. QED
    BY <2>1, <2>2 DEF Thread
<1>4. QED
  BY <1>1, <1>2, <1>3, EntryAfter

\* The rest of the state.
LEMMA FrameRest ==
    ASSUME TypeOK, NEW t \in Conns, Thread(t) \/ PeerGone(t)
    PROVE  /\ req' = req
           /\ got' \in [Conns -> Nat]
           /\ peer' \in [Conns -> {"reads", "gone"}]
           /\ \A u \in Conns : u # t => got'[u] = got[u] /\ peer'[u] = peer[u]
           /\ gw_seq' \in Nat /\ seqLock' \in Conns \cup {NoOne}
           /\ pc[t] # "recv" => got' = got
           /\ Thread(t) => peer' = peer
           /\ PeerGone(t) => peer'[t] = "gone"
<1>1. CASE Recv(t)
  <2>1. /\ pc[t] = "recv" /\ UNCHANGED <<req, peer, gw_seq, seqLock>>
        /\ got' = got \/ got' = [got EXCEPT ![t] = @ + 1]
    BY <1>1 DEF Recv, At
  <2>2. QED
    BY <2>1 DEF TypeOK, PeerGone
<1>2. CASE PeerGone(t)
  <2>1. ~Thread(t) \/ peer' = peer
    BY <1>2 DEF Thread, PeerGone, At, pai_http_server_run, SeqRead, SeqWrite,
       Lock, Recv,
       pai_gw_handle_request, EnsureReady, Apply, pai_session_generate, Token, GenerateEnds,
       FinishStream, FinishWhole, Unlock, handle_embeddings, EmbeddingsReply,
       gw_conn_thread_end
  <2>2. QED
    BY <1>2, <2>1 DEF PeerGone, TypeOK
<1>3. CASE SeqRead(t)
  BY <1>3 DEF SeqRead, TypeOK, PeerGone
<1>4. CASE SeqWrite(t)
  <2>1. ctx[t].id \in Nat
    BY DEF TypeOK, IsCtx
  <2>2. QED
    BY <1>4, <2>1 DEF SeqWrite, TypeOK, PeerGone
<1>5. CASE UNCHANGED <<req, got, peer, gw_seq, seqLock>>
  BY <1>5 DEF TypeOK, PeerGone
<1>6. UNCHANGED <<req, got, peer, gw_seq, seqLock>> \/ Recv(t) \/ PeerGone(t) \/ SeqRead(t)
      \/ SeqWrite(t)
  <2>1. CASE pai_http_server_run(t) \/ Lock(t) \/ pai_gw_handle_request(t) \/ EnsureReady(t)
              \/ Apply(t) \/ pai_session_generate(t) \/ Token(t)
    BY <2>1 DEF pai_http_server_run, Lock, pai_gw_handle_request, EnsureReady,
       Apply,
       pai_session_generate, Token
  <2>2. CASE GenerateEnds(t) \/ FinishStream(t) \/ FinishWhole(t) \/ Unlock(t)
              \/ handle_embeddings(t) \/ EmbeddingsReply(t) \/ gw_conn_thread_end(t)
    BY <2>2 DEF GenerateEnds, FinishStream, FinishWhole, Unlock,
       handle_embeddings,
       EmbeddingsReply, gw_conn_thread_end
  <2>3. QED
    BY <2>1, <2>2 DEF Thread
<1>7. QED
  BY <1>1, <1>2, <1>3, <1>4, <1>5, <1>6

\* A step keeps the types and the lock discipline, and leaves the other
\* threads and the entries they hold alone.
Untouched(t) ==
    /\ req' = req
    /\ \A u \in Conns : u # t =>
          /\ pc'[u] = pc[u] /\ ctx'[u] = ctx[u] /\ wire'[u] = wire[u]
          /\ got'[u] = got[u] /\ peer'[u] = peer[u]
          /\ pc[u] \in Inside => entry'[E(u)] = entry[E(u)]

\* One step of one connection keeps the types and the locks, and is seen by
\* no other connection.
LEMMA Frame ==
    ASSUME TypeOK, Locks, NEW t \in Conns, Thread(t) \/ PeerGone(t)
    PROVE  TypeOK' /\ Locks' /\ Untouched(t) /\ \A u \in Conns : E(u)' = E(u)
<1>1. \A u \in Conns : E(u)' = E(u)
  BY FrameRest DEF E
<1>2. Untouched(t)
  BY FramePc, FrameCtx, FrameWire, FrameEntry, FrameRest DEF Untouched
<1>3. lock' \in [Names -> Conns \cup {NoOne}]
  BY LockAfter DEF TypeOK, Lock, Unlocked
<1>4. TypeOK'
  <2>1. \A u \in Conns : req'[u] \in Requests[u]
    BY FrameRest DEF TypeOK
  <2>2. QED
    BY <1>3, <2>1, FramePc, FrameCtx, FrameWire, FrameEntry, FrameRest
       DEF TypeOK
<1>5. Locks'
  <2>1. ASSUME NEW u \in Conns, u # t
        PROVE  /\ pc'[u] \in Queued \cup Inside => E(u)' \in Names
               /\ pc'[u] \in Inside => lock'[E(u)'] = u
    <3>1. pc'[u] = pc[u] /\ E(u)' = E(u) /\ (pc[u] \in Queued \cup Inside => E(u) \in Names)
      BY <1>1, <1>2, <2>1 DEF Untouched, Locks
    <3>2. ASSUME pc[u] \in Inside PROVE lock'[E(u)] = u
      <4>1. lock[E(u)] = u /\ E(u) \in Names /\ u # NoOne
        BY <3>2, NoOneAssumption DEF Locks
      <4>2. CASE UNCHANGED lock
        BY <4>1, <4>2
      <4>3. CASE Lock(t)
        BY <4>1, <4>3 DEF Lock, TypeOK
      <4>4. CASE Unlocked(t) /\ pc[t] \in Inside
        <5>1. E(t) # E(u)
          BY <2>1, <4>1, <4>4 DEF Locks
        <5>2. QED
          BY <4>1, <4>4, <5>1 DEF Unlocked, TypeOK
      <4>5. QED
        BY <4>2, <4>3, <4>4, LockAfter
    <3>3. QED
      BY <3>1, <3>2
  <2>2. /\ pc'[t] \in Queued \cup Inside => E(t) \in Names
        /\ pc'[t] \in Inside => lock'[E(t)] = t
    <3>1. pc'[t] \in Queued \cup Inside => E(t) \in Names
      BY LockAfter DEF Locks, Queued
    <3>2. pc'[t] \in Inside => lock'[E(t)] = t
      BY <3>1, LockAfter DEF Locks, Lock, TypeOK
    <3>3. QED
      BY <3>1, <3>2
  <2>3. QED
    BY <1>1, <2>1, <2>2 DEF Locks
<1>6. QED
  BY <1>1, <1>2, <1>4, <1>5

-----------------------------------------------------------------------------
(* A generation runs alone. *)

Sampled ==
    \A t \in Conns : pc[t] \in {"generate", "loop", "finish"} =>
       Remote(E(t)) \/ entry[E(t)].sampler = t

\* The count the usage is taken from, while the tokens come and after them.
Counted ==
    \A t \in Conns :
       /\ pc[t] \in Early \cup Queued \cup {"ready", "apply", "generate"} =>
             ctx[t].steps = 0 /\ ctx[t].toks = <<>>
       /\ pc[t] = "loop" \/ (pc[t] = "finish" /\ ctx[t].st = "ok") =>
             /\ Remote(E(t)) \/ entry[E(t)].generated = ctx[t].steps
             /\ ctx[t].failed \/ Len(ctx[t].toks) = ctx[t].steps

\* Every reply on a wire reports as many tokens as it was made of.
UsageExact ==
    \A t \in Conns : \A i \in DOMAIN wire[t] :
       wire[t][i].k \in {"answer", "final"} => wire[t][i].used = Len(wire[t][i].toks)

OwnInv == TypeOK /\ Locks /\ Sampled /\ Counted /\ UsageExact

\* No thread has begun.
LEMMA InitOwn == Init => OwnInv
<1> SUFFICES ASSUME Init PROVE OwnInv
  OBVIOUS
<1>1. TypeOK
  <2>1. \A t \in Conns : ctx[t] = NoCtx /\ wire[t] = <<>>
    BY DEF Init
  <2>2. \A t \in Conns : IsCtx(ctx[t]) /\ IsSeq(wire[t])
    BY <2>1, NoCtxOK, EmptyIsSeq
  <2>3. \A e \in Names : IsEntry(entry[e])
    BY DEF Init, IsEntry
  <2>4. QED
    BY <2>2, <2>3, NoOneAssumption DEF Init, TypeOK, Early
<1>2. Locks /\ Sampled
  BY DEF Init, Locks, Sampled, Queued, Inside
<1>3. Counted
  BY DEF Init, Counted, NoCtx
<1>4. UsageExact
  BY DEF Init, UsageExact
<1>5. QED
  BY <1>1, <1>2, <1>3, <1>4 DEF OwnInv

\* A step keeps what is said of the other threads' generations.
LEMMA OwnOthers ==
    ASSUME OwnInv, NEW t \in Conns, Thread(t) \/ PeerGone(t), NEW u \in Conns, u # t
    PROVE  /\ pc'[u] \in {"generate", "loop", "finish"} =>
                Remote(E(u)) \/ entry'[E(u)].sampler = u
           /\ pc'[u] \in Early \cup Queued \cup {"ready", "apply", "generate"} =>
                ctx'[u].steps = 0 /\ ctx'[u].toks = <<>>
           /\ pc'[u] = "loop" \/ (pc'[u] = "finish" /\ ctx'[u].st = "ok") =>
                /\ Remote(E(u)) \/ entry'[E(u)].generated = ctx'[u].steps
                /\ ctx'[u].failed \/ Len(ctx'[u].toks) = ctx'[u].steps
           /\ \A i \in DOMAIN wire'[u] : wire'[u][i].k \in {"answer", "final"} =>
                wire'[u][i].used = Len(wire'[u][i].toks)
<1>1. /\ pc'[u] = pc[u] /\ ctx'[u] = ctx[u] /\ wire'[u] = wire[u]
      /\ pc[u] \in Inside => entry'[E(u)] = entry[E(u)]
  BY Frame DEF OwnInv, Untouched
<1>2. {"generate", "loop", "finish"} \subseteq Inside
  BY DEF Inside
<1>3. QED
  BY <1>1, <1>2 DEF OwnInv, Sampled, Counted, UsageExact

\* The step keeps what is said of its own thread's generation.
LEMMA OwnSelf ==
    ASSUME OwnInv, NEW t \in Conns, Thread(t) \/ PeerGone(t)
    PROVE  /\ pc'[t] \in {"generate", "loop", "finish"} =>
                Remote(E(t)) \/ entry'[E(t)].sampler = t
           /\ pc'[t] \in Early \cup Queued \cup {"ready", "apply", "generate"} =>
                ctx'[t].steps = 0 /\ ctx'[t].toks = <<>>
           /\ pc'[t] = "loop" \/ (pc'[t] = "finish" /\ ctx'[t].st = "ok") =>
                /\ Remote(E(t)) \/ entry'[E(t)].generated = ctx'[t].steps
                /\ ctx'[t].failed \/ Len(ctx'[t].toks) = ctx'[t].steps
<1> DEFINE Goal == /\ pc'[t] \in {"generate", "loop", "finish"} =>
                        Remote(E(t)) \/ entry'[E(t)].sampler = t
                   /\ pc'[t] \in Early \cup Queued \cup {"ready", "apply", "generate"} =>
                        ctx'[t].steps = 0 /\ ctx'[t].toks = <<>>
                   /\ pc'[t] = "loop" \/ (pc'[t] = "finish" /\ ctx'[t].st = "ok") =>
                        /\ Remote(E(t)) \/ entry'[E(t)].generated = ctx'[t].steps
                        /\ ctx'[t].failed \/ Len(ctx'[t].toks) = ctx'[t].steps
<1> USE DEF At, Early, Queued, Inside
<1>0. ASSUME NEW l, Go(t, l) PROVE pc'[t] = l
  BY <1>0 DEF Go, TypeOK, OwnInv
<1>1. /\ pc[t] \in {"generate", "loop", "finish"} =>
           Remote(E(t)) \/ entry[E(t)].sampler = t
      /\ pc[t] \in Early \cup Queued \cup {"ready", "apply", "generate"} =>
           ctx[t].steps = 0 /\ ctx[t].toks = <<>>
      /\ pc[t] = "loop" \/ (pc[t] = "finish" /\ ctx[t].st = "ok") =>
           /\ Remote(E(t)) \/ entry[E(t)].generated = ctx[t].steps
           /\ ctx[t].failed \/ Len(ctx[t].toks) = ctx[t].steps
  BY DEF OwnInv, Sampled, Counted
<1>2. CASE pc'[t] \in {"end", "closed", "unlock", "send"}
  BY <1>2
<1>3. CASE pc'[t] = pc[t] /\ ctx' = ctx /\ entry' = entry
  BY <1>1, <1>3
<1>4. CASE SeqRead(t)
  BY <1>0, <1>1, <1>4, CtxAfter DEF SeqRead, OwnInv
<1>5. CASE EnsureReady(t) /\ pc'[t] # "end"
  BY <1>0, <1>1, <1>5 DEF EnsureReady, Return
<1>6. CASE Apply(t) /\ pc'[t] # "end"
  <2>1. req[t].seed /\ pc[t] = "apply" /\ pc'[t] = "generate"
    BY <1>0, <1>6 DEF Apply, Return
  <2>2. EntryStep(t)
    BY <1>6, EntryAfter DEF OwnInv
  <2>3. QED
    BY <1>1, <1>6, <2>1, <2>2, CtxAfter DEF EntryStep, OwnInv
<1>7. CASE pai_session_generate(t)
  <2>1. pc[t] = "generate" /\ EntryStep(t)
        /\ ctx'[t].steps = 0 /\ ctx'[t].toks = <<>>
    BY <1>1, <1>7, CtxAfter, EntryAfter DEF OwnInv, pai_session_generate
  <2>2. CASE pc'[t] = "loop"
    BY <1>1, <1>7, <2>1, <2>2, EmptyIsSeq DEF EntryStep
  <2>3. CASE pc'[t] # "loop"
    <3>1. PICK st \in {"mismatch", "failed"} : ctx' = [ctx EXCEPT ![t].st = st]
      BY <1>0, <1>7, <2>3 DEF pai_session_generate
    <3>2. PICK c : c = [ctx[t] EXCEPT !.st = st]
      OBVIOUS
    <3>3. IsCtx(ctx[t])
      BY DEF OwnInv, TypeOK
    <3>4. c.st = st /\ IsCtx(c) /\ ctx' = [ctx EXCEPT ![t] = c]
      BY <3>1, <3>2, <3>3, CtxSt
    <3>5. ctx'[t].st # "ok"
      BY <3>4, CtxSet DEF OwnInv
    <3>6. pc'[t] = "finish" /\ UNCHANGED entry
      BY <1>0, <1>7, <2>3 DEF pai_session_generate
    <3>7. QED
      BY <1>1, <2>1, <3>5, <3>6
  <2>4. QED
    BY <2>2, <2>3
<1>8. CASE Token(t)
  <2>1. pc[t] = "loop" /\ EntryStep(t)
    BY <1>8, EntryAfter DEF OwnInv, Token
  <2>2. pc'[t] \in {"loop", "finish"}
    BY <1>0, <1>8 DEF Token
  <2>3. /\ ctx'[t].steps = ctx[t].steps + 1 /\ (ctx[t].failed => ctx'[t].failed)
        /\ ~ctx'[t].failed => Len(ctx'[t].toks) = Len(ctx[t].toks) + 1
    BY <1>8, TokenCtx DEF OwnInv
  <2>4. QED
    BY <1>1, <1>8, <2>1, <2>2, <2>3 DEF EntryStep
<1>9. CASE GenerateEnds(t)
  <2>1. /\ pc[t] = "loop" /\ pc'[t] = "finish" /\ UNCHANGED entry
        /\ ctx'[t].steps = ctx[t].steps /\ ctx'[t].toks = ctx[t].toks
        /\ ctx'[t].failed = ctx[t].failed
    BY <1>0, <1>9, CtxAfter DEF OwnInv, GenerateEnds
  <2>2. QED
    BY <1>1, <2>1
<1>10. CASE pai_http_server_run(t) \/ SeqWrite(t) \/ Lock(t)
  BY <1>0, <1>1, <1>10 DEF pai_http_server_run, SeqWrite, Lock
<1>11. CASE Recv(t)
  <2>1. pc[t] = "recv" /\ ctx' = ctx /\ pc'[t] \in {"recv", "route", "closed"}
    BY <1>0, <1>11 DEF Recv
  <2>2. QED
    BY <1>1, <2>1
<1>12. CASE pai_gw_handle_request(t) /\ pc'[t] # "end"
  <2>1. pc[t] = "route" /\ ctx' = ctx /\ pc'[t] \in {"seq", "lock"}
    BY <1>0, <1>12 DEF pai_gw_handle_request, Return
  <2>2. QED
    BY <1>1, <2>1
<1>13. CASE handle_embeddings(t)
  <2>1. pc'[t] \in {"embed", "send", "end"}
    BY <1>0, <1>13 DEF handle_embeddings, Return
  <2>2. QED
    BY <2>1
<1>14. CASE PeerGone(t)
  BY <1>3, <1>14 DEF PeerGone
<1>15. CASE FinishStream(t) \/ FinishWhole(t) \/ Unlock(t) \/ EmbeddingsReply(t)
             \/ gw_conn_thread_end(t)
  BY <1>0, <1>2, <1>15 DEF FinishStream, FinishWhole, Unlock, EmbeddingsReply,
     gw_conn_thread_end, Return
<1>16. QED
  BY <1>2, <1>4, <1>5, <1>6, <1>7, <1>8, <1>9, <1>10, <1>11, <1>12, <1>13,
     <1>14, <1>15
  DEF Thread

\* A reply of a generation on a wire was there before the step, or the step
\* made it from its context.
LEMMA NewReply ==
    ASSUME TypeOK, NEW t \in Conns, Thread(t) \/ PeerGone(t), NEW i \in DOMAIN wire'[t],
           wire'[t][i].k \in {"answer", "final"}
    PROVE  \/ i \in DOMAIN wire[t] /\ wire'[t][i] = wire[t][i]
           \/ pc[t] = "finish" /\ ~Bad(t) /\ OwnAnswer(t, wire'[t][i])
<1>1. CASE wire'[t] = wire[t]
  BY <1>1
<1>2. ASSUME NEW what, Added(t, what)
      PROVE  \/ i \in DOMAIN wire[t] /\ wire'[t][i] = wire[t][i]
             \/ pc[t] = "finish" /\ ~Bad(t) /\ OwnAnswer(t, wire'[t][i])
  <2>1. IsSeq(wire[t]) /\ IsSeq(what) /\ wire'[t] = wire[t] \o what
    BY <1>2 DEF Added, TypeOK
  <2>2. PICK s : s = wire[t]
    OBVIOUS
  <2>3. /\ IsSeq(s) /\ IsSeq(what)
    BY <2>1, <2>2
  <2>4. /\ DOMAIN s = 1..Len(s) /\ DOMAIN (s \o what) = 1..(Len(s) + Len(what))
        /\ \A x \in 1..Len(s) : (s \o what)[x] = s[x]
        /\ \A x \in 1..(Len(s) + Len(what)) : x \notin 1..Len(s) =>
             x - Len(s) \in 1..Len(what) /\ (s \o what)[x] = what[x - Len(s)]
    BY <2>3, ConcatIsSeq
  <2>5. CASE i \in 1..Len(s)
    BY <2>1, <2>2, <2>4, <2>5
  <2>6. CASE i \notin 1..Len(s)
    <3>1. PICK j \in 1..Len(what) : wire'[t][i] = what[j]
      BY <2>1, <2>2, <2>4, <2>6
    <3>2. QED
      BY <1>2, <3>1 DEF Added
  <2>7. QED
    BY <2>5, <2>6
<1>3. QED
  BY <1>1, <1>2, FrameWire

\* What is new on a wire counts its own tokens.
LEMMA OwnWire ==
    ASSUME OwnInv, NEW t \in Conns, Thread(t) \/ PeerGone(t), NEW i \in DOMAIN wire'[t],
           wire'[t][i].k \in {"answer", "final"}
    PROVE  wire'[t][i].used = Len(wire'[t][i].toks)
<1>1. CASE i \in DOMAIN wire[t] /\ wire'[t][i] = wire[t][i]
  BY <1>1 DEF OwnInv, UsageExact
<1>2. CASE pc[t] = "finish" /\ ~Bad(t) /\ wire'[t][i] = Answer(t, wire'[t][i].k)
  <2>1. Generated(t) = Len(ctx[t].toks)
    BY <1>2 DEF Generated, Bad, OwnInv, Counted
  <2>2. QED
    BY <1>2, <2>1 DEF Answer
<1>3. QED
  BY <1>1, <1>2, NewReply DEF OwnInv, OwnAnswer

\* Every step keeps the invariant of the generations.
LEMMA NextOwn == OwnInv /\ [Next]_vars => OwnInv'
<1> SUFFICES ASSUME OwnInv, [Next]_vars PROVE OwnInv'
  OBVIOUS
<1>1. ASSUME NEW t \in Conns, Thread(t) \/ PeerGone(t) PROVE OwnInv'
  <2>1. TypeOK' /\ Locks' /\ \A u \in Conns : E(u)' = E(u)
    BY <1>1, Frame DEF OwnInv
  <2>2. Sampled'
    BY <1>1, <2>1, OwnOthers, OwnSelf DEF Sampled
  <2>3. Counted'
    <3>1. \A u \in Conns :
            pc'[u] \in Early \cup Queued \cup {"ready", "apply", "generate"} =>
              ctx'[u].steps = 0 /\ ctx'[u].toks = <<>>
      BY <1>1, OwnOthers, OwnSelf
    <3>2. \A u \in Conns :
            pc'[u] = "loop" \/ (pc'[u] = "finish" /\ ctx'[u].st = "ok") =>
              /\ Remote(E(u)) \/ entry'[E(u)].generated = ctx'[u].steps
              /\ ctx'[u].failed \/ Len(ctx'[u].toks) = ctx'[u].steps
      BY <1>1, OwnOthers, OwnSelf
    <3>3. QED
      BY <2>1, <3>1, <3>2 DEF Counted
  <2>4. UsageExact'
    BY <1>1, OwnOthers, OwnWire DEF UsageExact
  <2>5. QED
    BY <2>1, <2>2, <2>3, <2>4 DEF OwnInv
<1>2. CASE UNCHANGED vars
  <2>1. \A u \in Conns : E(u)' = E(u)
    BY <1>2 DEF vars, E
  <2>2. TypeOK'
    BY <1>2 DEF vars, OwnInv, TypeOK
  <2>3. Locks' /\ Sampled' /\ Counted' /\ UsageExact'
    BY <1>2, <2>1 DEF vars, OwnInv, Locks, Sampled, Counted, UsageExact
  <2>4. QED
    BY <2>2, <2>3 DEF OwnInv
<1>3. QED
  BY <1>1, <1>2 DEF Next

\* However requests interleave, a generation has its entry to itself with its
\* own sampler settings from the moment they are applied to its reply, and the
\* usage reported to a client is the number of its own tokens.
THEOREM GenerationsOwn == Spec => []OwnGeneration
<1>1. OwnInv => OwnGeneration
  <2>1. {"generate", "loop", "finish"} \subseteq Inside
    BY DEF Inside
  <2>2. QED
    BY <2>1 DEF OwnInv, Locks, Sampled, UsageExact, OwnGeneration
<1>2. QED
  BY <1>1, InitOwn, NextOwn, PTL DEF Spec

-----------------------------------------------------------------------------
(* No id is given twice. *)

\* Where a thread that generates has drawn its id.
Numbered == {"lock", "ready", "apply", "generate", "loop", "finish", "unlock"}
HasId(t) == pc[t] \in Numbered /\ Generates(req[t])

\* seq_lock makes the read and the write of the counter one step; ids drawn
\* are below it and differ, on their way and on the wires.
Ids ==
    /\ \A t \in Conns :
          /\ pc[t] = "seq_write" => seqLock = t /\ ctx[t].id = gw_seq
          /\ pc[t] \in {"seq", "seq_write", "apply", "generate", "loop", "finish"} =>
                Generates(req[t])
          /\ HasId(t) => ctx[t].id < gw_seq
    /\ \A t, u \in Conns : HasId(t) /\ HasId(u) /\ t # u => ctx[t].id # ctx[u].id
    /\ \A t \in Conns : \A i \in DOMAIN wire[t] : wire[t][i].k \in {"answer", "final"} =>
          /\ wire[t][i].id < gw_seq /\ wire[t][i].id \in Nat
          /\ \A u \in Conns : u # t /\ HasId(u) => wire[t][i].id # ctx[u].id

IdInv == TypeOK /\ Locks /\ Ids /\ IdsUnique

\* What a step does to the counter, its lock and the id it draws.
LEMMA IdsAfter ==
    ASSUME IdInv, NEW t \in Conns, Thread(t) \/ PeerGone(t)
    PROVE  \/ /\ SeqRead(t) /\ pc'[t] = "seq_write" /\ seqLock' = t /\ ctx'[t].id = gw_seq
              /\ gw_seq' = gw_seq /\ \A u \in Conns : pc[u] # "seq_write"
           \/ /\ SeqWrite(t) /\ pc[t] = "seq_write" /\ pc'[t] = "lock" /\ seqLock' = NoOne
              /\ gw_seq' = gw_seq + 1 /\ ctx'[t].id = gw_seq
              /\ \A u \in Conns : u # t => pc[u] # "seq_write"
           \/ /\ UNCHANGED <<seqLock, gw_seq>>
              /\ pc[t] = "seq_write" => pc'[t] = "seq_write"
              /\ pc'[t] = "seq_write" => pc[t] = "seq_write"
              /\ pc'[t] \in Queued \cup Inside => ctx'[t].id = ctx[t].id
              /\ HasId(t)' => HasId(t)
              /\ pc'[t] \in {"seq", "seq_write", "apply", "generate", "loop", "finish"} =>
                   Generates(req[t])
<1> USE DEF At, Queued, Inside
<1>0. ASSUME NEW l, Go(t, l) PROVE pc'[t] = l
  BY <1>0 DEF Go, TypeOK, IdInv
<1>a. /\ \A u \in Conns : pc[u] = "seq_write" => seqLock = u
      /\ pc[t] = "seq_write" => ctx[t].id = gw_seq
      /\ pc[t] \in {"seq", "seq_write", "apply", "generate", "loop", "finish"} =>
           Generates(req[t])
  BY DEF IdInv, Ids
<1>b. req' = req
  BY FrameRest DEF IdInv
<1>1. CASE SeqRead(t)
  BY <1>0, <1>a, <1>1, CtxAfter, NoOneAssumption DEF SeqRead, SeqLock, IdInv
<1>2. CASE SeqWrite(t)
  BY <1>0, <1>a, <1>2 DEF SeqWrite
<1>3. CASE UNCHANGED <<seqLock, gw_seq>> /\ pc'[t] \in {"end", "closed", "send", "route", "recv"}
           /\ pc[t] # "seq_write"
  BY <1>b, <1>3 DEF HasId, Numbered
<1>4. CASE pai_http_server_run(t) \/ Recv(t)
  BY <1>0, <1>3, <1>4 DEF pai_http_server_run, Recv
<1>5. CASE pai_gw_handle_request(t)
  <2>1. CASE pc'[t] = "end"
    BY <1>3, <1>5, <2>1 DEF pai_gw_handle_request
  <2>2. CASE pc'[t] # "end"
    <3>1. UNCHANGED <<ctx, seqLock, gw_seq>> /\ pc[t] = "route"
          /\ pc'[t] = IF Generates(req[t]) THEN "seq" ELSE "lock"
      BY <1>0, <1>5, <2>2 DEF pai_gw_handle_request, Return
    <3>2. QED
      BY <1>b, <3>1 DEF HasId, Numbered
  <2>3. QED
    BY <2>1, <2>2
<1>6. CASE Lock(t) \/ PeerGone(t)
  BY <1>0, <1>a, <1>b, <1>6 DEF Lock, PeerGone, HasId, Numbered
<1>7. CASE EnsureReady(t)
  BY <1>0, <1>a, <1>b, <1>7 DEF EnsureReady, Return, HasId, Numbered
<1>8. CASE Apply(t)
  <2>1. CASE req[t].seed
    <3>1. UNCHANGED <<seqLock, gw_seq>> /\ pc[t] = "apply" /\ pc'[t] = "generate"
      BY <1>0, <1>8, <2>1 DEF Apply
    <3>2. QED
      BY <1>a, <1>b, <1>8, <2>1, <3>1, CtxAfter DEF HasId, Numbered, IdInv
  <2>2. CASE ~req[t].seed
    BY <1>0, <1>3, <1>8, <2>2 DEF Apply, Return
  <2>3. QED
    BY <2>1, <2>2
<1>9. CASE pai_session_generate(t) \/ GenerateEnds(t)
  <2>1. UNCHANGED <<seqLock, gw_seq>> /\ pc[t] \in {"generate", "loop"}
        /\ pc'[t] \in {"loop", "finish"}
    BY <1>0, <1>9 DEF pai_session_generate, GenerateEnds
  <2>2. QED
    BY <1>a, <1>b, <1>9, <2>1, CtxAfter DEF HasId, Numbered, IdInv
<1>10. CASE Token(t)
  <2>1. UNCHANGED <<seqLock, gw_seq>> /\ pc[t] = "loop" /\ pc'[t] \in {"loop", "finish"}
    BY <1>0, <1>10 DEF Token
  <2>2. QED
    BY <1>a, <1>b, <1>10, <2>1, TokenCtx DEF HasId, Numbered, IdInv
<1>11. CASE FinishStream(t) \/ FinishWhole(t)
  BY <1>0, <1>a, <1>b, <1>11 DEF FinishStream, FinishWhole, Return, HasId,
     Numbered
<1>12. CASE handle_embeddings(t)
  <2>1. UNCHANGED <<seqLock, gw_seq>> /\ pc[t] = "embed"
        /\ pc'[t] \in {"embed", "send", "end"}
    BY <1>0, <1>12 DEF handle_embeddings, Return
  <2>2. CASE pc'[t] # "embed"
    BY <1>3, <2>1, <2>2
  <2>3. CASE pc'[t] = "embed"
    <3>1. ctx'[t].id = ctx[t].id
      <4>1. ctx' = [ctx EXCEPT ![t].steps = @ + 1]
        BY <1>0, <1>12, <2>3 DEF handle_embeddings, Return
      <4>2. PICK c : c = [ctx[t] EXCEPT !.steps = @ + 1]
        OBVIOUS
      <4>3. ctx' = [ctx EXCEPT ![t] = c]
        BY <4>1, <4>2
      <4>4. IsCtx(ctx[t])
        BY DEF IdInv, TypeOK
      <4>5. IsCtx(c) /\ c.id = ctx[t].id
        BY <4>2, <4>4, CtxStep
      <4>6. QED
        BY <4>3, <4>5, CtxSet DEF IdInv
    <3>2. QED
      BY <1>b, <2>1, <2>3, <3>1 DEF HasId, Numbered
  <2>4. QED
    BY <2>1, <2>2, <2>3
<1>13. CASE Unlock(t) \/ EmbeddingsReply(t) \/ gw_conn_thread_end(t)
  BY <1>0, <1>3, <1>13 DEF Unlock, EmbeddingsReply, gw_conn_thread_end, Return
<1>14. QED
  BY <1>1, <1>2, <1>4, <1>5, <1>6, <1>7, <1>8, <1>9, <1>10, <1>11, <1>12, <1>13
     DEF Thread

\* Every step keeps the ids apart.
LEMMA NextIds == IdInv /\ [Next]_vars => IdInv'
<1> SUFFICES ASSUME IdInv, [Next]_vars PROVE IdInv'
  OBVIOUS
<1>1. ASSUME NEW t \in Conns, Thread(t) \/ PeerGone(t) PROVE IdInv'
  <2>1. TypeOK' /\ Locks' /\ Untouched(t) /\ gw_seq \in Nat
        /\ \A u \in Conns : ctx[u].id \in Nat /\ ctx'[u].id \in Nat
    BY <1>1, Frame DEF IdInv, TypeOK, IsCtx
  <2>2. \A u \in Conns : u # t => /\ pc'[u] = pc[u] /\ ctx'[u] = ctx[u] /\ wire'[u] = wire[u]
                                  /\ (HasId(u)' <=> HasId(u))
    BY <2>1 DEF Untouched, HasId
  <2>3. gw_seq' >= gw_seq /\ gw_seq' \in Nat
    BY <1>1, <2>1, IdsAfter
  <2>4. HasId(t)' => \/ HasId(t) /\ ctx'[t].id = ctx[t].id
                     \/ ctx'[t].id = gw_seq /\ gw_seq' = gw_seq + 1
    BY <1>1, IdsAfter DEF HasId, Numbered, Queued, Inside
  <2>5. ASSUME NEW i \in DOMAIN wire'[t], wire'[t][i].k \in {"answer", "final"}
        PROVE  \/ i \in DOMAIN wire[t] /\ wire'[t][i] = wire[t][i]
               \/ HasId(t) /\ wire'[t][i].id = ctx[t].id
    <3>1. CASE i \in DOMAIN wire[t] /\ wire'[t][i] = wire[t][i]
      BY <3>1
    <3>2. CASE pc[t] = "finish" /\ wire'[t][i] = Answer(t, wire'[t][i].k)
      BY <3>2 DEF HasId, Numbered, Answer, IdInv, Ids
    <3>3. QED
      BY <1>1, <2>5, <3>1, <3>2, NewReply DEF IdInv, OwnAnswer
  <2>6. \A u \in Conns :
          /\ pc'[u] = "seq_write" => seqLock' = u /\ ctx'[u].id = gw_seq'
          /\ pc'[u] \in {"seq", "seq_write", "apply", "generate", "loop", "finish"} =>
                Generates(req'[u])
    <3>1. req' = req
      BY <2>1 DEF Untouched
    <3>2. ASSUME NEW u \in Conns, u # t
          PROVE  /\ pc'[u] = "seq_write" => seqLock' = u /\ ctx'[u].id = gw_seq'
                 /\ pc'[u] \in {"seq", "seq_write", "apply", "generate", "loop", "finish"} =>
                       Generates(req'[u])
      BY <1>1, <2>2, <3>1, <3>2, IdsAfter DEF IdInv, Ids
    <3>3. /\ pc'[t] = "seq_write" => seqLock' = t /\ ctx'[t].id = gw_seq'
          /\ pc'[t] \in {"seq", "seq_write", "apply", "generate", "loop", "finish"} =>
                Generates(req'[t])
      BY <1>1, <3>1, IdsAfter DEF IdInv, Ids, Queued, SeqRead, At
    <3>4. QED
      BY <3>2, <3>3
  <2>7. \A u \in Conns : HasId(u)' => ctx'[u].id < gw_seq'
    BY <2>1, <2>2, <2>3, <2>4 DEF IdInv, Ids
  <2>8. \A u, v \in Conns : HasId(u)' /\ HasId(v)' /\ u # v => ctx'[u].id # ctx'[v].id
    BY <2>1, <2>2, <2>4 DEF IdInv, Ids
  <2>9. ASSUME NEW u \in Conns, NEW i \in DOMAIN wire'[u], wire'[u][i].k \in {"answer", "final"}
        PROVE  /\ wire'[u][i].id < gw_seq' /\ wire'[u][i].id \in Nat
               /\ \A v \in Conns : v # u /\ HasId(v)' => wire'[u][i].id # ctx'[v].id
    <3>1. CASE i \in DOMAIN wire[u] /\ wire'[u][i] = wire[u][i]
      <4>1. /\ wire[u][i].id < gw_seq /\ wire[u][i].id \in Nat
            /\ \A v \in Conns : v # u /\ HasId(v) => wire[u][i].id # ctx[v].id
        BY <2>9, <3>1 DEF IdInv, Ids
      <4>2. QED
        BY <2>1, <2>2, <2>3, <2>4, <3>1, <4>1
    <3>2. CASE u = t /\ HasId(t) /\ wire'[t][i].id = ctx[t].id
      <4>1. ctx[t].id < gw_seq /\ \A v \in Conns : v # t /\ HasId(v) => ctx[t].id # ctx[v].id
        BY <3>2 DEF IdInv, Ids
      <4>2. QED
        BY <2>1, <2>2, <2>3, <3>2, <4>1
    <3>3. QED
      BY <2>2, <2>5, <2>9, <3>1, <3>2
  <2>10. IdsUnique'
    <3>1. ASSUME NEW u \in Conns, NEW v \in Conns, NEW i \in DOMAIN wire'[u],
                 NEW j \in DOMAIN wire'[v], wire'[u][i].k \in {"answer", "final"},
                 wire'[v][j].k \in {"answer", "final"}, wire'[u][i].id = wire'[v][j].id, u # v
          PROVE  FALSE
      <4>1. CASE u # t /\ v # t
        BY <2>2, <3>1, <4>1 DEF IdInv, IdsUnique
      <4>2. CASE u = t /\ v # t
        BY <2>2, <2>5, <3>1, <4>2 DEF IdInv, IdsUnique, Ids
      <4>3. CASE u # t /\ v = t
        BY <2>2, <2>5, <3>1, <4>3 DEF IdInv, IdsUnique, Ids
      <4>4. QED
        BY <3>1, <4>1, <4>2, <4>3
    <3>2. QED
      BY <3>1 DEF IdsUnique
  <2>11. QED
    BY <2>1, <2>6, <2>7, <2>8, <2>9, <2>10 DEF IdInv, Ids
<1>2. CASE UNCHANGED vars
  <2>1. \A u \in Conns : E(u)' = E(u) /\ (HasId(u)' <=> HasId(u))
    BY <1>2 DEF vars, E, HasId
  <2>2. TypeOK' /\ Locks'
    BY <1>2, <2>1 DEF vars, IdInv, TypeOK, Locks
  <2>3. Ids' /\ IdsUnique'
    BY <1>2, <2>1 DEF vars, IdInv, Ids, IdsUnique
  <2>4. QED
    BY <2>2, <2>3 DEF IdInv
<1>3. QED
  BY <1>1, <1>2 DEF Next

\* Two responses never carry the same id, however the threads that read and
\* write the registry's counter interleave.
THEOREM ResponseIdsUnique == Spec => []IdsUnique
<1>1. Init => IdInv
  <2>1. Init => TypeOK /\ Locks
    BY InitOwn DEF OwnInv
  <2>2. Init => Ids /\ IdsUnique
    BY DEF Init, Ids, IdsUnique, HasId, Numbered
  <2>3. QED
    BY <2>1, <2>2 DEF IdInv
<1>2. IdInv => IdsUnique
  BY DEF IdInv
<1>3. QED
  BY <1>1, <1>2, NextIds, PTL DEF Spec

-----------------------------------------------------------------------------
(* One response. *)

\* The shapes of a wire: the head first and only there; what a stream has
\* while its tokens come; what it has once it has ended: p is where the answer
\* or the error is and d where [DONE] is.
HeadFirst(w) == \A i \in DOMAIN w : w[i].k = "head" <=> i = 1
OpenWire(w) ==
    /\ w # <<>> => w[1] = StatusLine(200, TRUE)
    /\ \A i \in DOMAIN w : w[i].k \in {"head", "role", "echo", "token"}
EndedAt(w, p, d) ==
    /\ p < d /\ w[p].k \in {"final", "sse_error"} /\ w[d].k = "done"
    /\ \A i \in DOMAIN w :
          /\ i < p => w[i].k \in {"head", "role", "echo", "token"}
          /\ p < i /\ i < d => w[i].k = "usage"
          /\ d < i => w[i].k = "end"
EndedWire(w) == \E p, d \in DOMAIN w : EndedAt(w, p, d)
PlainWire(w) ==
    /\ w # <<>> /\ w[1] # StatusLine(200, TRUE)
    /\ \A i \in DOMAIN w : w[i].k \in {"head", "error", "body", "models", "answer"}

\* The wire w of a connection whose thread is at l, for the peer p, g receives
\* and the request r.
WireOf(w, l, p, g, r) ==
    /\ HeadFirst(w)
    /\ l \in {"idle", "recv"} => g < r.pieces
    /\ l \in Early \cup Queued \cup {"ready", "apply", "embed", "send"} => w = <<>>
    /\ l \in {"generate", "loop", "finish"} =>
          /\ OpenWire(w)
          /\ ~r.stream => w = <<>>
          /\ r.stream /\ p = "reads" => w # <<>>
    /\ l \in {"unlock", "end", "closed"} =>
          /\ w = <<>> \/ PlainWire(w) \/ EndedWire(w) \/ (OpenWire(w) /\ p = "gone")
          /\ w = <<>> => p = "gone" \/ (l = "closed" /\ g < r.pieces)
Wires == \A t \in Conns : WireOf(wire[t], pc[t], peer[t], got[t], req[t])

WireInv == TypeOK /\ Locks /\ Wires

\* A wire that has such a shape is one response.
LEMMA ShapeCounts ==
    ASSUME NEW w, IsSeq(w), HeadFirst(w),
           w = <<>> \/ PlainWire(w) \/ EndedWire(w) \/ OpenWire(w)
    PROVE  LET N(k) == Cardinality({i \in DOMAIN w : w[i].k = k}) IN
           /\ N("head") <= 1
           /\ N("final") + N("sse_error") <= 1
           /\ EndedWire(w) => N("final") + N("sse_error") = 1 /\ N("done") = 1
           /\ \A i, j \in DOMAIN w : i < j =>
                 /\ w[i].k = "done" => w[j].k = "end"
                 /\ w[i].k \in {"final", "sse_error"} => w[j].k # "token"
<1> DEFINE At0(k) == {i \in DOMAIN w : w[i].k = k}
<1>1. DOMAIN w = 1..Len(w) /\ Len(w) \in Nat
  BY LenProperties DEF IsSeq
<1>2. ASSUME NEW k, NEW x, At0(k) \subseteq {x} PROVE Cardinality(At0(k)) \in {0, 1}
  <2>1. At0(k) = {} \/ At0(k) = {x}
    BY <1>2
  <2>2. QED
    BY <2>1, FS_EmptySet, FS_Singleton
<1>3. ASSUME NEW k, At0(k) = {} PROVE Cardinality(At0(k)) = 0
  BY <1>3, FS_EmptySet
<1>4. ASSUME NEW k, NEW x, At0(k) = {x} PROVE Cardinality(At0(k)) = 1
  BY <1>4, FS_Singleton
<1> HIDE DEF At0
<1>5. Cardinality(At0("head")) <= 1
  <2>1. At0("head") \subseteq {1}
    BY DEF HeadFirst, At0
  <2>2. Cardinality(At0("head")) \in {0, 1}
    BY <1>2, <2>1
  <2>3. QED
    BY <2>2
<1>6. CASE w = <<>> \/ PlainWire(w) \/ OpenWire(w)
  <2>1. \A i \in DOMAIN w : w[i].k \notin {"final", "sse_error", "done"}
    <3>1. CASE w = <<>>
      BY <3>1
    <3>2. CASE PlainWire(w) \/ OpenWire(w)
      BY <3>2 DEF PlainWire, OpenWire
    <3>3. QED
      BY <1>6, <3>1, <3>2
  <2>2. At0("final") = {} /\ At0("sse_error") = {}
    BY <2>1 DEF At0
  <2>3. Cardinality(At0("final")) = 0 /\ Cardinality(At0("sse_error")) = 0
    BY <1>3, <2>2
  <2>4. ~EndedWire(w)
    BY <2>1 DEF EndedWire, EndedAt
  <2>5. QED
    BY <1>5, <2>1, <2>3, <2>4 DEF At0
<1>7. CASE EndedWire(w)
  <2>1. PICK p \in DOMAIN w, d \in DOMAIN w : EndedAt(w, p, d)
    BY <1>7 DEF EndedWire
  <2>2. ASSUME NEW i \in DOMAIN w
        PROVE  /\ i # p => w[i].k \notin {"final", "sse_error"}
               /\ i # d => w[i].k # "done"
               /\ i > p => w[i].k # "token"
               /\ i > d => w[i].k = "end"
    <3>1. i < p \/ i = p \/ (p < i /\ i < d) \/ i = d \/ d < i
      BY <1>1
    <3>2. QED
      BY <1>1, <2>1, <3>1 DEF EndedAt
  <2>3. At0("done") = {d}
    BY <2>1, <2>2 DEF EndedAt, At0
  <2>4. \/ At0("final") = {p} /\ At0("sse_error") = {}
        \/ At0("final") = {} /\ At0("sse_error") = {p}
    BY <2>1, <2>2 DEF EndedAt, At0
  <2>5. Cardinality(At0("final")) + Cardinality(At0("sse_error")) = 1
    <3>1. CASE At0("final") = {p} /\ At0("sse_error") = {}
      <4>1. Cardinality(At0("final")) = 1 /\ Cardinality(At0("sse_error")) = 0
        BY <1>3, <1>4, <3>1
      <4>2. QED
        BY <4>1
    <3>2. CASE At0("final") = {} /\ At0("sse_error") = {p}
      <4>1. Cardinality(At0("final")) = 0 /\ Cardinality(At0("sse_error")) = 1
        BY <1>3, <1>4, <3>2
      <4>2. QED
        BY <4>1
    <3>3. QED
      BY <2>4, <3>1, <3>2
  <2>6. Cardinality(At0("done")) = 1
    BY <1>4, <2>3
  <2>7. \A i, j \in DOMAIN w : i < j =>
           /\ w[i].k = "done" => w[j].k = "end"
           /\ w[i].k \in {"final", "sse_error"} => w[j].k # "token"
    BY <1>1, <2>2
  <2>8. QED
    BY <1>5, <2>5, <2>6, <2>7 DEF At0
<1>8. QED
  BY <1>6, <1>7

\* What a wire is after a send.
LEMMA WireGrows ==
    ASSUME NEW w, IsSeq(w), NEW what, IsSeq(what)
    PROVE  /\ w = <<>> => w \o what = what
           /\ w # <<>> => Len(w) >= 1 /\ w \o what # <<>> /\ (w \o what)[1] = w[1]
<1>1. w = <<>> => w \o what = what
  <2>1. what \in Seq(Range(what))
    BY DEF IsSeq
  <2>2. QED
    BY <2>1, ConcatEmptySeq
<1>2. w # <<>> => Len(w) >= 1
  <2>1. w \in Seq(Range(w))
    BY DEF IsSeq
  <2>2. QED
    BY <2>1, EmptySeq
<1>3. w # <<>> => w \o what # <<>> /\ (w \o what)[1] = w[1]
  <2>1. Len(<<>>) = 0
    BY EmptyIsSeq
  <2>2. /\ Len(w) \in Nat /\ Len(what) \in Nat /\ Len(w \o what) = Len(w) + Len(what)
        /\ \A i \in 1..Len(w) : (w \o what)[i] = w[i]
    BY ConcatIsSeq
  <2>3. QED
    BY <1>2, <2>1, <2>2
<1>4. QED
  BY <1>1, <1>2, <1>3

\* A plain reply, and the answer of a generation, are responses; so is the
\* beginning of a stream.
LEMMA PlainShape ==
    ASSUME NEW what, IsSeq(what), Plain(what)
    PROVE  HeadFirst(what) /\ PlainWire(what)
<1>1. DOMAIN what = 1..2 /\ what # <<>>
  BY LenProperties, EmptyIsSeq DEF IsSeq, Plain
<1>2. QED
  BY <1>1 DEF Plain, HeadFirst, PlainWire, StatusLine

\* A whole answer begins with its only head and streams nothing.
LEMMA AnswerShape ==
    ASSUME NEW t \in Conns
    PROVE  LET what == Whole(200, Answer(t, "answer")) IN
           IsSeq(what) /\ HeadFirst(what) /\ PlainWire(what)
<1> DEFINE h == StatusLine(200, FALSE)
           b == Answer(t, "answer")
           what == <<h, b>>
<1>1. IsSeq(what) /\ Len(what) = 2
  BY WholeIsSeq
<1>2. h.k = "head" /\ ~h.chunked /\ b.k = "answer" /\ what[1] = h /\ what[2] = b
  BY DEF StatusLine, Answer
<1>3. h # StatusLine(200, TRUE)
  BY <1>2 DEF StatusLine
<1> HIDE DEF h, b
<1>4. DOMAIN what = {1, 2} /\ what # <<>>
  BY <1>1
<1>5. HeadFirst(what) /\ PlainWire(what)
  BY <1>2, <1>3, <1>4 DEF HeadFirst, PlainWire
<1>6. QED
  BY <1>1, <1>5 DEF Whole, h, b

\* The opening of a stream begins with its only head and ends nothing.
LEMMA OpeningShape ==
    ASSUME NEW what, IsSeq(what), Opening(what)
    PROVE  HeadFirst(what) /\ OpenWire(what) /\ what # <<>>
<1>1. DOMAIN what = 1..Len(what) /\ Len(what) \in Nat /\ what # <<>>
  BY LenProperties, EmptyIsSeq DEF IsSeq, Opening
<1>2. ASSUME NEW i \in DOMAIN what
      PROVE  /\ what[i].k = "head" <=> i = 1
             /\ what[i].k \in {"head", "role", "echo", "token"}
  <2>1. CASE i = 1
    BY <2>1 DEF Opening, StatusLine
  <2>2. CASE i # 1
    BY <1>1, <2>2 DEF Opening
  <2>3. QED
    BY <2>1, <2>2
<1>3. QED
  BY <1>1, <1>2 DEF HeadFirst, OpenWire, Opening

\* A token extends a stream.
LEMMA TokenShape ==
    ASSUME NEW w, IsSeq(w), HeadFirst(w), OpenWire(w), w # <<>>,
           NEW v, v = w \o <<Ev("token")>>
    PROVE  HeadFirst(v) /\ OpenWire(v) /\ v # <<>>
<1> DEFINE what == <<Ev("token")>>
<1>1. IsSeq(what) /\ Len(what) = 1 /\ what[1].k = "token" /\ v = w \o what
  BY OneIsSeq DEF Ev
<1> HIDE DEF what
<1>2. /\ DOMAIN v = 1..(Len(w) + 1) /\ DOMAIN w = 1..Len(w) /\ Len(w) \in Nat /\ Len(w) >= 1
      /\ \A i \in 1..Len(w) : v[i] = w[i]
      /\ v[Len(w) + 1] = what[1] /\ v # <<>> /\ v[1] = w[1]
  BY <1>1, WireGrows, ConcatIsSeq
<1>3. ASSUME NEW i \in DOMAIN v
      PROVE  /\ v[i].k = "head" <=> i = 1
             /\ v[i].k \in {"head", "role", "echo", "token"}
  <2>1. CASE i \in 1..Len(w)
    BY <1>2, <2>1 DEF HeadFirst, OpenWire
  <2>2. CASE i = Len(w) + 1
    BY <1>1, <1>2, <2>2
  <2>3. QED
    BY <1>2, <2>1, <2>2
<1>4. QED
  BY <1>2, <1>3 DEF HeadFirst, OpenWire

\* The end of a stream completes it.
LEMMA EndingShape ==
    ASSUME NEW w, IsSeq(w), HeadFirst(w), OpenWire(w), w # <<>>, NEW t \in Conns,
           NEW what, IsSeq(what), Ending(t, what), NEW v, v = w \o what
    PROVE  HeadFirst(v) /\ EndedWire(v) /\ v # <<>>
<1>1. PICK n \in {1, 2} :
        /\ Len(what) = n + 2 /\ what[n + 1].k = "done" /\ what[n + 2].k = "end"
        /\ what[1].k \in {"sse_error", "final"}
        /\ n = 2 => what[2].k = "usage"
  BY DEF Ending, Ev, Answer
<1>2. /\ DOMAIN v = 1..(Len(w) + Len(what)) /\ DOMAIN w = 1..Len(w)
      /\ Len(w) \in Nat /\ Len(w) >= 1
      /\ \A i \in 1..Len(w) : v[i] = w[i]
      /\ \A i \in 1..Len(what) : v[Len(w) + i] = what[i]
      /\ v # <<>>
  BY WireGrows, ConcatIsSeq
<1> DEFINE p == Len(w) + 1
           d == Len(w) + (n + 1)
<1>3. /\ p \in DOMAIN v /\ d \in DOMAIN v /\ p < d
      /\ v[p].k \in {"sse_error", "final"} /\ v[d].k = "done" /\ v[d + 1].k = "end"
      /\ n = 2 => v[p + 1].k = "usage"
  <2>1. 1 \in 1..Len(what) /\ n + 1 \in 1..Len(what) /\ n + 2 \in 1..Len(what)
        /\ (n = 2 => 2 \in 1..Len(what))
    BY <1>1
  <2>2. /\ v[Len(w) + 1] = what[1] /\ v[Len(w) + (n + 1)] = what[n + 1]
        /\ v[Len(w) + (n + 2)] = what[n + 2] /\ (n = 2 => v[Len(w) + 2] = what[2])
    BY <1>2, <2>1
  <2>3. d + 1 = Len(w) + (n + 2) /\ (n = 2 => p + 1 = Len(w) + 2)
    BY <1>1, <1>2
  <2>4. p \in DOMAIN v /\ d \in DOMAIN v /\ p < d
    BY <1>1, <1>2
  <2>5. QED
    BY <1>1, <2>2, <2>3, <2>4
<1>4. ASSUME NEW i \in DOMAIN v
      PROVE  /\ i < p => v[i].k \in {"head", "role", "echo", "token"}
             /\ p < i /\ i < d => v[i].k = "usage"
             /\ d < i => v[i].k = "end"
             /\ v[i].k = "head" <=> i = 1
  <2>1. CASE i < p
    <3>1. i \in 1..Len(w) /\ v[i] = w[i] /\ ~(p < i) /\ ~(d < i)
      BY <1>2, <1>3, <2>1
    <3>2. QED
      BY <1>2, <3>1 DEF OpenWire, HeadFirst
  <2>2. CASE i = p
    BY <1>2, <1>3, <2>2
  <2>3. CASE p < i /\ i < d
    <3>1. n = 2 /\ i = p + 1
      BY <1>1, <1>2, <2>3
    <3>2. QED
      BY <1>2, <1>3, <2>3, <3>1
  <2>4. CASE i = d
    BY <1>2, <1>3, <2>4
  <2>5. CASE d < i
    <3>1. i = d + 1
      BY <1>1, <1>2, <2>5
    <3>2. QED
      BY <1>2, <1>3, <2>5, <3>1
  <2>6. QED
    BY <1>2, <2>1, <2>2, <2>3, <2>4, <2>5
<1>5. EndedAt(v, p, d)
  BY <1>3, <1>4 DEF EndedAt
<1>6. HeadFirst(v)
  BY <1>4 DEF HeadFirst
<1>7. QED
  BY <1>2, <1>3, <1>5, <1>6 DEF EndedWire

\* One more terminal chunk leaves it complete.
LEMMA CloseShape ==
    ASSUME NEW w, IsSeq(w), HeadFirst(w), EndedWire(w), NEW v, v = w \o <<Ev("end")>>
    PROVE  HeadFirst(v) /\ EndedWire(v) /\ v # <<>>
<1> DEFINE what == <<Ev("end")>>
<1>1. IsSeq(what) /\ Len(what) = 1 /\ what[1].k = "end" /\ v = w \o what
  BY OneIsSeq DEF Ev
<1> HIDE DEF what
<1>2. PICK p \in DOMAIN w, d \in DOMAIN w : EndedAt(w, p, d)
  BY DEF EndedWire
<1>3. w # <<>>
  BY <1>2
<1>4. /\ DOMAIN v = 1..(Len(w) + 1) /\ DOMAIN w = 1..Len(w) /\ Len(w) \in Nat /\ Len(w) >= 1
      /\ \A i \in 1..Len(w) : v[i] = w[i]
      /\ v[Len(w) + 1] = what[1] /\ v # <<>>
  BY <1>1, <1>3, WireGrows, ConcatIsSeq
<1>5. ASSUME NEW i \in DOMAIN v
      PROVE  /\ i < p => v[i].k \in {"head", "role", "echo", "token"}
             /\ p < i /\ i < d => v[i].k = "usage"
             /\ d < i => v[i].k = "end"
             /\ v[i].k = "head" <=> i = 1
  <2>1. CASE i \in 1..Len(w)
    BY <1>2, <1>4, <2>1 DEF EndedAt, HeadFirst
  <2>2. CASE i = Len(w) + 1
    <3>1. ~(i < p) /\ ~(i < d) /\ i # 1 /\ v[i].k = "end"
      BY <1>1, <1>4, <2>2
    <3>2. QED
      BY <3>1
  <2>3. QED
    BY <1>4, <2>1, <2>2
<1>6. p \in DOMAIN v /\ d \in DOMAIN v /\ v[p] = w[p] /\ v[d] = w[d]
  BY <1>4
<1>7. EndedAt(v, p, d)
  BY <1>2, <1>5, <1>6 DEF EndedAt
<1>8. QED
  BY <1>4, <1>5, <1>6, <1>7 DEF HeadFirst, EndedWire

\* The receives of one connection.
LEMMA RecvAfter ==
    ASSUME WireInv, NEW t \in Conns, Recv(t)
    PROVE  /\ pc[t] = "recv" /\ peer' = peer
           /\ \/ pc'[t] = "recv" /\ got'[t] < req[t].pieces /\ wire' = wire
              \/ pc'[t] = "route" /\ wire' = wire
              \/ pc'[t] = "closed" /\ got'[t] < req[t].pieces /\ wire' = wire
              \/ pc'[t] = "closed" /\ \E what : IsSeq(what) /\ Plain(what) /\ Send(t, what)
<1> DEFINE st == pai_http_parse_request(req[t], got[t] + 1)
<1>0. ASSUME NEW l, Go(t, l) PROVE pc'[t] = l
  BY <1>0 DEF Go, TypeOK, WireInv
<1>1. pc[t] = "recv" /\ peer' = peer /\ got[t] \in Nat /\ got[t] < req[t].pieces
  BY DEF Recv, At, WireInv, Wires, WireOf, TypeOK
<1>2. req[t].http # "incomplete" /\ req[t].pieces \in Nat
  BY RequestsAssumption DEF WireInv, TypeOK
<1>3. CASE Go(t, "closed") /\ UNCHANGED <<got, wire>>
  BY <1>0, <1>1, <1>3
<1>4. CASE got' = [got EXCEPT ![t] = @ + 1]
  <2>1. got'[t] = got[t] + 1
    BY <1>4 DEF WireInv, TypeOK
  <2>2. CASE st = "incomplete"
    <3>1. got'[t] < req[t].pieces
      BY <1>1, <1>2, <2>1, <2>2 DEF pai_http_parse_request
    <3>2. QED
      BY <1>0, <1>1, <1>3, <2>2, <3>1 DEF Recv
  <2>3. CASE st = "ok"
    BY <1>0, <1>1, <1>3, <2>3 DEF Recv
  <2>4. CASE st \notin {"incomplete", "ok"}
    <3>1. Refusal(st) \in Nat
      BY DEF Refusal
    <3>2. QED
      BY <1>0, <1>1, <1>3, <2>4, <3>1, ErrorIsPlain DEF Recv
  <2>5. QED
    BY <2>2, <2>3, <2>4
<1>5. QED
  BY <1>3, <1>4 DEF Recv

\* The step leaves its own wire in shape.
LEMMA WireSelf ==
    ASSUME WireInv, NEW t \in Conns, Thread(t) \/ PeerGone(t)
    PROVE  WireOf(wire'[t], pc'[t], peer'[t], got'[t], req[t])
<1> DEFINE w == wire[t]
           v == wire'[t]
<1>1. WireOf(w, pc[t], peer[t], got[t], req[t]) /\ IsSeq(w) /\ peer[t] \in {"reads", "gone"}
  BY DEF WireInv, Wires, TypeOK
<1>2. HeadFirst(<<>>) /\ OpenWire(<<>>)
  BY DEF HeadFirst, OpenWire
<1>3. ASSUME NEW what, IsSeq(what), Send(t, what)
      PROVE  /\ peer[t] = "gone" => v = w
             /\ peer[t] = "reads" => v = w \o what
             /\ peer[t] = "reads" /\ w = <<>> => v = what
  <2>1. (peer[t] = "gone" => v = w) /\ (peer[t] = "reads" => v = w \o what)
    BY <1>3, Sent DEF WireInv
  <2>2. w = <<>> => w \o what = what
    BY <1>1, <1>3, WireGrows, ConcatIsSeq
  <2>3. QED
    BY <2>1, <2>2
<1> HIDE DEF w, v
<1>4. ASSUME w = <<>>, peer' = peer, pc'[t] \in {"unlock", "end", "closed"},
             NEW what, IsSeq(what), Send(t, what), HeadFirst(what), PlainWire(what)
      PROVE  WireOf(v, pc'[t], peer'[t], got'[t], req[t])
  <2>1. v = what \/ (v = <<>> /\ peer[t] = "gone")
    BY <1>1, <1>3, <1>4
  <2>2. what # <<>>
    BY <1>4 DEF PlainWire
  <2>3. QED
    BY <1>2, <1>4, <2>1, <2>2 DEF WireOf, Early, Queued
<1>5. CASE Recv(t)
  <2>1. pc[t] = "recv" /\ w = <<>> /\ peer' = peer
    BY <1>1, <1>5, RecvAfter DEF WireOf, Early
  <2>2. CASE wire' = wire
    <3>1. v = <<>>
      BY <2>1, <2>2 DEF v, w
    <3>2. CASE pc'[t] = "recv" /\ got'[t] < req[t].pieces
      BY <1>2, <3>1, <3>2 DEF WireOf, v
    <3>3. CASE pc'[t] = "route"
      BY <1>2, <3>1, <3>3 DEF WireOf, v
    <3>4. CASE pc'[t] = "closed" /\ got'[t] < req[t].pieces
      BY <1>2, <3>1, <3>4 DEF WireOf, Early, Queued, v
    <3>5. CASE pc'[t] = "closed" /\ \E what : IsSeq(what) /\ Plain(what) /\ Send(t, what)
      BY <1>4, <2>1, <3>5, PlainShape DEF v
    <3>6. QED
      BY <1>5, <3>2, <3>3, <3>4, <3>5, RecvAfter
  <2>3. CASE pc'[t] = "closed" /\ \E what : IsSeq(what) /\ Plain(what) /\ Send(t, what)
    BY <1>4, <2>1, <2>3, PlainShape DEF v
  <2>4. QED
    BY <1>5, <2>2, <2>3, RecvAfter
<1>6. CASE PeerGone(t)
  <2>1. v = w /\ pc' = pc /\ got' = got /\ peer'[t] = "gone"
    BY <1>6 DEF PeerGone, v, w, WireInv, TypeOK
  <2>2. QED
    BY <1>1, <2>1 DEF WireOf, v
<1>7. ASSUME Thread(t), ~Recv(t) PROVE WireOf(v, pc'[t], peer'[t], got'[t], req[t])
  <2>1. peer' = peer /\ pc[t] # "recv" /\ got' = got
    <3>1. pc[t] # "recv"
      BY <1>7 DEF Thread, At, pai_http_server_run, SeqRead, SeqWrite, Lock,
         pai_gw_handle_request, EnsureReady, Apply, pai_session_generate, Token, GenerateEnds,
         FinishStream, FinishWhole, Unlock, handle_embeddings, EmbeddingsReply,
         gw_conn_thread_end
    <3>2. QED
      BY <1>7, <3>1, FrameRest DEF WireInv
  <2>2. CASE PlainSend(t)
    <3>1. w = <<>> /\ pc'[t] \in {"unlock", "end", "closed"}
      BY <1>1, <2>1, <2>2 DEF PlainSend, WireOf, Early
    <3>2. QED
      BY <1>4, <2>1, <2>2, <3>1, PlainShape DEF PlainSend
  <2>3. CASE AnswerSend(t)
    <3>1. w = <<>> /\ pc'[t] = "unlock" /\ Send(t, Whole(200, Answer(t, "answer")))
      BY <1>1, <2>3 DEF AnswerSend, WireOf
    <3>2. QED
      BY <1>4, <2>1, <3>1, AnswerShape
  <2>4. CASE OpeningSend(t)
    <3>1. PICK what : IsSeq(what) /\ Opening(what) /\ Send(t, what)
      BY <2>4 DEF OpeningSend
    <3>2. w = <<>> /\ pc'[t] = "generate" /\ req[t].stream
      BY <1>1, <2>4 DEF OpeningSend, WireOf
    <3>3. (v = what \/ (v = <<>> /\ peer[t] = "gone"))
      BY <1>1, <1>3, <3>1, <3>2
    <3>4. HeadFirst(v) /\ OpenWire(v) /\ (peer[t] = "reads" => v # <<>>)
      BY <1>2, <3>1, <3>3, OpeningShape
    <3>5. QED
      BY <2>1, <3>2, <3>4 DEF WireOf, Early, Queued
  <2>5. CASE TokenSend(t)
    <3>1. /\ HeadFirst(w) /\ OpenWire(w) /\ req[t].stream /\ pc'[t] \in {"loop", "finish"}
          /\ peer[t] = "reads" => w # <<>>
      BY <1>1, <2>5 DEF TokenSend, WireOf
    <3>2. (peer[t] = "gone" => v = w) /\ (peer[t] = "reads" => v = w \o <<Ev("token")>>)
      BY <1>3, <2>5, OneIsSeq DEF TokenSend
    <3>3. HeadFirst(v) /\ OpenWire(v) /\ (peer[t] = "reads" => v # <<>>)
      BY <1>1, <3>1, <3>2, TokenShape
    <3>4. QED
      BY <2>1, <3>1, <3>3 DEF WireOf, Early, Queued
  <2>6. CASE EndingSend(t)
    <3>1. PICK what : IsSeq(what) /\ Ending(t, what) /\ Send(t, what)
      BY <2>6 DEF EndingSend
    <3>2. /\ HeadFirst(w) /\ OpenWire(w) /\ req[t].stream /\ pc'[t] = "unlock"
          /\ peer[t] = "reads" => w # <<>>
      BY <1>1, <2>6 DEF EndingSend, WireOf
    <3>3. (peer[t] = "gone" => v = w) /\ (peer[t] = "reads" => v = w \o what)
      BY <1>3, <3>1
    <3>4. CASE peer[t] = "gone"
      BY <2>1, <3>2, <3>3, <3>4 DEF WireOf, Early, Queued
    <3>5. CASE peer[t] = "reads"
      <4>1. HeadFirst(v) /\ EndedWire(v) /\ v # <<>>
        BY <1>1, <3>1, <3>2, <3>3, <3>5, EndingShape
      <4>2. QED
        BY <2>1, <3>2, <4>1 DEF WireOf, Early, Queued
    <3>6. QED
      BY <1>1, <3>4, <3>5
  <2>7. CASE CloseSend(t)
    <3>1. /\ HeadFirst(w) /\ pc[t] = "end" /\ pc'[t] = "closed"
          /\ w # <<>> /\ w[1] = StatusLine(200, TRUE)
          /\ EndedWire(w) \/ (OpenWire(w) /\ peer[t] = "gone")
      BY <1>1, <2>7 DEF CloseSend, Chunked, WireOf, PlainWire, w
    <3>2. (peer[t] = "gone" => v = w) /\ (peer[t] = "reads" => v = w \o <<Ev("end")>>)
      BY <1>3, <2>7, OneIsSeq DEF CloseSend
    <3>3. HeadFirst(v) /\ v # <<>> /\ (EndedWire(v) \/ (OpenWire(v) /\ peer[t] = "gone"))
      BY <1>1, <3>1, <3>2, CloseShape
    <3>4. QED
      BY <2>1, <3>1, <3>3 DEF WireOf, Early, Queued
  <2>8. CASE NoSend(t)
    <3>1. v = w
      BY <2>8 DEF NoSend, v, w
    <3>2. QED
      BY <1>1, <1>2, <2>1, <2>8, <3>1 DEF NoSend, WireOf, Early, Queued
  <2>9. QED
    BY <1>7, <2>2, <2>3, <2>4, <2>5, <2>6, <2>7, <2>8, StepSends DEF Sends,
       WireInv
<1>8. QED
  BY <1>5, <1>6, <1>7 DEF v

\* Every step keeps the wires in shape.
LEMMA NextWires == WireInv /\ [Next]_vars => WireInv'
<1> SUFFICES ASSUME WireInv, [Next]_vars PROVE WireInv'
  OBVIOUS
<1>1. ASSUME NEW t \in Conns, Thread(t) \/ PeerGone(t) PROVE WireInv'
  <2>1. TypeOK' /\ Locks' /\ Untouched(t)
    BY <1>1, Frame DEF WireInv
  <2>2. ASSUME NEW u \in Conns, u # t PROVE WireOf(wire'[u], pc'[u], peer'[u], got'[u], req'[u])
    BY <2>1, <2>2 DEF Untouched, WireInv, Wires
  <2>3. WireOf(wire'[t], pc'[t], peer'[t], got'[t], req'[t])
    BY <1>1, <2>1, WireSelf DEF Untouched
  <2>4. QED
    BY <2>1, <2>2, <2>3 DEF WireInv, Wires
<1>2. CASE UNCHANGED vars
  <2>1. \A u \in Conns : E(u)' = E(u)
    BY <1>2 DEF vars, E
  <2>2. QED
    BY <1>2, <2>1 DEF vars, WireInv, TypeOK, Locks, Wires
<1>3. QED
  BY <1>1, <1>2 DEF Next

\* A client that stays gets one response with one head; a stream has one
\* answer or one error, then [DONE] once; a request that was complete has been
\* answered when its connection is closed.
THEOREM OneResponse == Spec => []AnsweredOnce
<1>1. Init => WireInv
  <2>1. Init => TypeOK /\ Locks
    BY InitOwn DEF OwnInv
  <2>2. ASSUME Init, NEW t \in Conns
        PROVE  WireOf(wire[t], pc[t], peer[t], got[t], req[t])
    <3>1. req[t] \in Requests[t] /\ wire[t] = <<>> /\ pc[t] = "idle" /\ got[t] = 0
      BY <2>2 DEF Init
    <3>2. 0 < req[t].pieces
      BY <3>1, RequestsAssumption
    <3>3. QED
      BY <3>1, <3>2 DEF WireOf, HeadFirst
  <2>3. QED
    BY <2>1, <2>2 DEF WireInv, Wires
<1>2. WireInv => AnsweredOnce
  <2> SUFFICES ASSUME WireInv, NEW t \in Conns
               PROVE  /\ Count(t, "head") <= 1
                      /\ (wire[t] # <<>> => wire[t][1].k = "head")
                      /\ Count(t, "final") + Count(t, "sse_error") <= 1
                      /\ \A i, j \in DOMAIN wire[t] : i < j =>
                            /\ wire[t][i].k = "done" => wire[t][j].k = "end"
                            /\ wire[t][i].k \in {"final", "sse_error"} => wire[t][j].k # "token"
                      /\ At(t, "end") /\ Chunked(t) /\ peer[t] = "reads" =>
                            Count(t, "final") + Count(t, "sse_error") = 1
                      /\ At(t, "closed") /\ got[t] = req[t].pieces /\ peer[t] = "reads" =>
                            wire[t] # <<>> /\ (Chunked(t) => Count(t, "done") = 1)
    BY DEF AnsweredOnce
  <2>1. /\ WireOf(wire[t], pc[t], peer[t], got[t], req[t]) /\ IsSeq(wire[t])
        /\ pc[t] \in Early \cup Queued \cup Inside \cup Late
    BY DEF WireInv, Wires, TypeOK
  <2>2. /\ HeadFirst(wire[t])
        /\ wire[t] = <<>> \/ PlainWire(wire[t]) \/ EndedWire(wire[t]) \/ OpenWire(wire[t])
    BY <2>1 DEF WireOf, Early, Queued, Inside, Late
  <2>3. /\ Count(t, "head") <= 1
        /\ Count(t, "final") + Count(t, "sse_error") <= 1
        /\ EndedWire(wire[t]) => /\ Count(t, "final") + Count(t, "sse_error") = 1
                                 /\ Count(t, "done") = 1
        /\ \A i, j \in DOMAIN wire[t] : i < j =>
              /\ wire[t][i].k = "done" => wire[t][j].k = "end"
              /\ wire[t][i].k \in {"final", "sse_error"} => wire[t][j].k # "token"
    BY <2>1, <2>2, ShapeCounts DEF Count
  <2>4. wire[t] # <<>> => wire[t][1].k = "head"
    <3>1. wire[t] # <<>> => 1 \in DOMAIN wire[t]
      <4>1. wire[t] \in Seq(Range(wire[t]))
        BY <2>1 DEF IsSeq
      <4>2. QED
        BY <4>1, EmptySeq, LenProperties
    <3>2. QED
      BY <2>2, <3>1 DEF HeadFirst
  <2>5. pc[t] \in {"end", "closed"} /\ Chunked(t) /\ peer[t] = "reads" => EndedWire(wire[t])
    BY <2>1 DEF WireOf, Chunked, PlainWire
  <2>6. pc[t] = "closed" /\ got[t] = req[t].pieces /\ peer[t] = "reads" => wire[t] # <<>>
    <3>1. got[t] \in Nat
      BY DEF WireInv, TypeOK
    <3>2. QED
      BY <2>1, <3>1 DEF WireOf
  <2>7. QED
    BY <2>3, <2>4, <2>5, <2>6 DEF At
<1>3. QED
  BY <1>1, <1>2, NextWires, PTL DEF Spec

-----------------------------------------------------------------------------
(* The text of a reply. *)

\* A set of numbers has a least one.
LEMMA LeastNat ==
    ASSUME NEW S \in SUBSET Nat, S # {}
    PROVE  \E x \in S : \A y \in S : x <= y
<1>1. PICK x \in S : \A y \in S : ~(<<y, x>> \in OpToRel(<, Nat))
  BY NatLessThanWellFounded, WFMin
<1>2. OpToRel(<, Nat) = {ss \in Nat \X Nat : ss[1] < ss[2]}
  BY Zenon DEF OpToRel
<1>3. ASSUME NEW u \in Nat, NEW w \in Nat, w < u
      PROVE  <<w, u>> \in {ss \in Nat \X Nat : ss[1] < ss[2]}
  BY <1>3
<1>4. \A y \in S : ~(y < x)
  BY <1>1, <1>2, <1>3
<1>5. QED
  BY <1>4

\* The text of the first i tokens, from that of one token less.
Joined(g, s, i) == IF i = 1 THEN s[i] ELSE g[i - 1] \o s[i]
\* g[i] is the text of the first i tokens of s, for every i up to k.
Joins(g, s, k) == \A i \in 1..k : g[i] = Joined(g, s, i)

\* FlattenSeq, with its local recursion made explicit.
LEMMA FlattenChosen ==
    ASSUME NEW s, Len(s) # 0
    PROVE  FlattenSeq(s) = (CHOOSE g : g = [i \in 1..Len(s) |->
                              IF i = 1 THEN s[i] ELSE g[i - 1] \o s[i]])[Len(s)]
BY Zenon DEF FlattenSeq

\* The recursion has a solution, by induction on the number of tokens.
LEMMA JoinExists ==
    ASSUME NEW L, NEW s \in Seq(Seq(L)), NEW k \in Nat, k <= Len(s)
    PROVE  \E g \in [1..k -> Seq(L)] : Joins(g, s, k)
<1> DEFINE Good(n) == \E g \in [1..n -> Seq(L)] : Joins(g, s, n)
           Bads == {n \in Nat : n <= Len(s) /\ ~Good(n)}
<1>1. Bads = {}
  <2> SUFFICES ASSUME Bads # {} PROVE FALSE
    OBVIOUS
  <2>1. PICK n \in Bads : \A m \in Bads : n <= m
    BY LeastNat
  <2>2. n \in Nat /\ n <= Len(s) /\ ~Good(n)
    OBVIOUS
  <2>3. CASE n = 0
    <3>1. PICK g : g = [i \in 1..n |-> <<>>]
      OBVIOUS
    <3>2. g \in [1..n -> Seq(L)] /\ Joins(g, s, n)
      BY <2>3, <3>1 DEF Joins
    <3>3. QED
      BY <2>2, <3>2
  <2>4. CASE n > 0
    <3>1. n - 1 \in Nat /\ n - 1 <= Len(s) /\ n - 1 \notin Bads
      <4> HIDE DEF Bads
      <4>1. n \in Nat /\ \A m \in Bads : n <= m
        BY <2>1, <2>2
      <4>2. QED
        BY <2>2, <2>4, <4>1
    <3>2. Good(n - 1)
      BY <3>1, Zenon
    <3>3. PICK g \in [1..n - 1 -> Seq(L)] : Joins(g, s, n - 1)
      BY <3>2
    <3>4. PICK x : x = Joined(g, s, n)
      OBVIOUS
    <3>5. x \in Seq(L)
      <4>1. n \in 1..Len(s) /\ s[n] \in Seq(L)
        BY <2>2, <2>4
      <4>2. CASE n = 1
        BY <3>4, <4>1, <4>2 DEF Joined
      <4>3. CASE n # 1
        <5>1. g[n - 1] \in Seq(L)
          BY <2>2, <2>4, <3>3, <4>3
        <5>2. QED
          BY <3>4, <4>1, <4>3, <5>1, ConcatProperties DEF Joined
      <4>4. QED
        BY <4>2, <4>3
    <3>6. PICK h : h = [i \in 1..n |-> IF i = n THEN x ELSE g[i]]
      OBVIOUS
    <3>7. /\ h \in [1..n -> Seq(L)] /\ h[n] = x
          /\ \A i \in 1..n - 1 : h[i] = g[i]
      BY <2>2, <2>4, <3>3, <3>5, <3>6
    <3>8. Joins(h, s, n)
      <4>1. Joined(h, s, n) = Joined(g, s, n)
        <5>1. n # 1 => n - 1 \in 1..n - 1
          BY <2>2, <2>4
        <5>2. QED
          BY <3>7, <5>1 DEF Joined
      <4>2. ASSUME NEW i \in 1..n - 1 PROVE h[i] = Joined(h, s, i)
        <5>1. i # 1 => i - 1 \in 1..n - 1
          BY <2>2
        <5>2. Joined(h, s, i) = Joined(g, s, i)
          BY <3>7, <5>1 DEF Joined
        <5>3. QED
          BY <3>3, <3>7, <5>2 DEF Joins
      <4>3. \A i \in 1..n : i = n \/ i \in 1..n - 1
        BY <2>2
      <4>4. QED
        BY <3>4, <3>7, <4>1, <4>2, <4>3 DEF Joins
    <3>9. QED
      BY <2>2, <3>7, <3>8
  <2>5. QED
    BY <2>2, <2>3, <2>4
<1>2. QED
  BY <1>1

\* The first k tokens are the same.
Shares(s, p, k) == \A i \in 1..k : s[i] = p[i]

\* Two solutions agree as far as both go.
LEMMA JoinAgree ==
    ASSUME NEW s, NEW p, NEW k \in Nat, NEW g, NEW h, Joins(g, s, k), Joins(h, p, k),
           Shares(s, p, k)
    PROVE  Shares(g, h, k)
<1> DEFINE Bads == {n \in Nat : n \in 1..k /\ g[n] # h[n]}
<1>1. Bads = {}
  <2> SUFFICES ASSUME Bads # {} PROVE FALSE
    OBVIOUS
  <2>1. PICK n \in Bads : \A m \in Bads : n <= m
    BY LeastNat
  <2>2. n \in Nat /\ n \in 1..k /\ g[n] # h[n]
    OBVIOUS
  <2>3. n # 1 => n - 1 \in 1..k /\ n - 1 \in Nat /\ n - 1 \notin Bads
    <3> HIDE DEF Bads
    <3>1. QED
      BY <2>1, <2>2
  <2>4. n # 1 => g[n - 1] = h[n - 1]
    BY <2>3
  <2>5. Joined(g, s, n) = Joined(h, p, n)
    BY <2>2, <2>4 DEF Joined, Shares
  <2>6. QED
    BY <2>2, <2>5 DEF Joins
<1>2. QED
  BY <1>1 DEF Shares

\* The text of the first n tokens is the text of one less with the n-th added.
LEMMA TextStep ==
    ASSUME NEW L, NEW s \in Seq(Seq(L))
    PROVE  /\ Text(s, 0) = <<>>
           /\ \A n \in 0..Len(s) : Text(s, n) \in Seq(L)
           /\ \A n \in 1..Len(s) : Text(s, n) = Text(s, n - 1) \o s[n]
<1>1. Text(s, 0) = <<>> /\ <<>> \in Seq(L)
  <2>1. SubSeq(s, 1, 0) = <<>>
    BY EmptySeq, SubSeqProperties
  <2>2. QED
    BY <2>1 DEF Text, FlattenSeq
<1>2. Len(s) \in Nat
  BY LenProperties
<1>3. PICK g \in [1..Len(s) -> Seq(L)] : Joins(g, s, Len(s))
  BY <1>2, JoinExists
<1>4. ASSUME NEW n \in 1..Len(s) PROVE Text(s, n) = g[n]
  <2>1. PICK p : p = SubSeq(s, 1, n)
    OBVIOUS
  <2>2. /\ p \in Seq(Seq(L)) /\ Len(p) = n /\ n \in Nat /\ n <= Len(p) /\ n \in 1..n
        /\ Shares(p, s, n)
    BY <1>2, <2>1, SubSeqProperties DEF Shares
  <2>3. PICK h \in [1..n -> Seq(L)] : Joins(h, p, n)
    BY <2>2, JoinExists
  <2>4. h = [i \in 1..n |-> IF i = 1 THEN p[i] ELSE h[i - 1] \o p[i]]
    BY <2>3 DEF Joins, Joined
  <2>5. PICK c : /\ c = CHOOSE f : f = [i \in 1..Len(p) |->
                          IF i = 1 THEN p[i] ELSE f[i - 1] \o p[i]]
                 /\ FlattenSeq(p) = c[Len(p)]
    <3>1. Len(p) # 0
      BY <1>2, <2>2
    <3>2. QED
      BY <3>1, FlattenChosen, Zenon
  <2>6. c = [i \in 1..Len(p) |-> IF i = 1 THEN p[i] ELSE c[i - 1] \o p[i]]
    <3>1. h = [i \in 1..Len(p) |-> IF i = 1 THEN p[i] ELSE h[i - 1] \o p[i]]
      BY <2>2, <2>4
    <3>2. QED
      BY <2>5, <3>1, Zenon
  <2>7. Joins(c, p, n)
    BY <2>2, <2>6 DEF Joins, Joined
  <2>8. Joins(g, s, n)
    BY <1>2, <1>3 DEF Joins
  <2>9. Shares(c, g, n)
    BY <2>2, <2>7, <2>8, JoinAgree
  <2>10. QED
    BY <2>1, <2>2, <2>5, <2>9 DEF Text, Shares
<1>5. ASSUME NEW n \in 0..Len(s) PROVE Text(s, n) \in Seq(L)
  <2>1. CASE n = 0
    BY <1>1, <2>1
  <2>2. CASE n # 0
    <3>1. n \in 1..Len(s)
      BY <1>2, <2>2
    <3>2. QED
      BY <1>3, <1>4, <3>1
  <2>3. QED
    BY <2>1, <2>2
<1>6. ASSUME NEW n \in 1..Len(s) PROVE Text(s, n) = Text(s, n - 1) \o s[n]
  <2>1. g[n] = Joined(g, s, n) /\ Text(s, n) = g[n]
    BY <1>3, <1>4 DEF Joins
  <2>2. CASE n = 1
    <3>1. s[1] \in Seq(L)
      BY <1>2, <2>2
    <3>2. <<>> \o s[1] = s[1]
      BY <3>1, ConcatEmptySeq
    <3>3. QED
      BY <1>1, <2>1, <2>2, <3>2 DEF Joined
  <2>3. CASE n # 1
    <3>1. n - 1 \in 1..Len(s)
      BY <1>2, <2>3
    <3>2. Text(s, n - 1) = g[n - 1]
      BY <1>4, <3>1
    <3>3. QED
      BY <2>1, <2>3, <3>2 DEF Joined
  <2>4. QED
    BY <2>2, <2>3
<1>7. QED
  BY <1>1, <1>5, <1>6

\* v is s with one more token.
Grown(s, tok, v, L) ==
    /\ v \in Seq(Seq(L)) /\ Len(v) = Len(s) + 1 /\ Len(s) \in Nat
    /\ \A n \in 0..Len(s) : Text(v, n) = Text(s, n)
    /\ Text(v, Len(s) + 1) = Text(s, Len(s)) \o tok

\* One more token: the texts of the earlier prefixes stay, the whole grows.
LEMMA TextGrows ==
    ASSUME NEW L, NEW s \in Seq(Seq(L)), NEW tok \in Seq(L)
    PROVE  Grown(s, tok, Append(s, tok), L)
<1>0. PICK v : v = Append(s, tok)
  OBVIOUS
<1>1. /\ v \in Seq(Seq(L)) /\ Len(v) = Len(s) + 1 /\ Len(s) \in Nat
      /\ \A i \in 1..Len(s) : v[i] = s[i]
      /\ v[Len(s) + 1] = tok
  BY <1>0, AppendProperties, LenProperties
<1>2. ASSUME NEW n \in 0..Len(s) PROVE Text(v, n) = Text(s, n)
  <2>1. SubSeq(v, 1, n) = SubSeq(s, 1, n)
    <3>1. /\ SubSeq(v, 1, n) \in Seq(Seq(L)) /\ SubSeq(s, 1, n) \in Seq(Seq(L))
          /\ Len(SubSeq(v, 1, n)) = n /\ Len(SubSeq(s, 1, n)) = n
          /\ \A i \in 1..n : SubSeq(v, 1, n)[i] = v[i]
          /\ \A i \in 1..n : SubSeq(s, 1, n)[i] = s[i]
      BY <1>1, SubSeqProperties
    <3>2. \A i \in 1..n : v[i] = s[i]
      BY <1>1
    <3>3. QED
      BY <3>1, <3>2, SeqEqual
  <2>2. QED
    BY <2>1 DEF Text
<1>3. Text(v, Len(s) + 1) = Text(s, Len(s)) \o tok
  <2>1. Len(s) + 1 \in 1..Len(v) /\ (Len(s) + 1) - 1 = Len(s) /\ Len(s) \in 0..Len(s)
    BY <1>1
  <2>2. Text(v, Len(s) + 1) = Text(v, Len(s)) \o v[Len(s) + 1]
    BY <1>1, <2>1, TextStep
  <2>3. QED
    BY <1>1, <1>2, <2>1, <2>2
<1>4. QED
  BY <1>0, <1>1, <1>2, <1>3 DEF Grown

\* s is what t ends with, position by position.
Ends(s, t) ==
    Len(s) <= Len(t) /\ \A i \in 1..Len(s) : s[i] = t[(Len(t) - Len(s)) + i]

\* That is the library's suffix.
LEMMA SuffixEnds ==
    ASSUME NEW L, NEW s \in Seq(L), NEW t \in Seq(L)
    PROVE  IsSuffix(s, t) <=> Ends(s, t)
<1>1. PICK a, b : a = Reverse(s) /\ b = Reverse(t)
  OBVIOUS
<1>2. Len(s) \in Nat /\ Len(t) \in Nat
  BY LenProperties
<1>3. /\ a \in Seq(L) /\ b \in Seq(L) /\ Len(a) = Len(s) /\ Len(b) = Len(t)
      /\ \A i \in 1..Len(s) : a[i] = s[(Len(s) - i) + 1]
      /\ \A i \in 1..Len(t) : b[i] = t[(Len(t) - i) + 1]
  <2>1. a = [i \in 1..Len(s) |-> s[(Len(s) - i) + 1]]
        /\ b = [i \in 1..Len(t) |-> t[(Len(t) - i) + 1]]
    BY <1>1 DEF Reverse
  <2>2. \A i \in 1..Len(s) : (Len(s) - i) + 1 \in 1..Len(s)
    BY <1>2
  <2>3. \A i \in 1..Len(t) : (Len(t) - i) + 1 \in 1..Len(t)
    BY <1>2
  <2>4. a \in [1..Len(s) -> L] /\ b \in [1..Len(t) -> L]
    BY <2>1, <2>2, <2>3, ElementOfSeq
  <2>5. QED
    BY <1>2, <2>1, <2>4, LenProperties
<1>4. IsSuffix(s, t) <=> Len(s) <= Len(t) /\ SubSeq(a, 1, Len(s)) = SubSeq(b, 1, Len(s))
  BY <1>1, <1>3 DEF IsSuffix, IsPrefix
<1>5. ASSUME Len(s) <= Len(t)
      PROVE  SubSeq(a, 1, Len(s)) = SubSeq(b, 1, Len(s)) <=> \A i \in 1..Len(s) : a[i] = b[i]
  <2>1. PICK x, y : x = SubSeq(a, 1, Len(s)) /\ y = SubSeq(b, 1, Len(s))
    OBVIOUS
  <2>2. /\ x \in Seq(L) /\ y \in Seq(L) /\ Len(x) = Len(s) /\ Len(y) = Len(s)
        /\ \A i \in 1..Len(s) : x[i] = a[i]
        /\ \A i \in 1..Len(s) : y[i] = b[i]
    BY <1>2, <1>3, <1>5, <2>1, SubSeqProperties
  <2>3. x = y <=> \A i \in 1..Len(s) : a[i] = b[i]
    BY <2>2, SeqEqual
  <2>4. QED
    BY <2>1, <2>3
<1>6. ASSUME Len(s) <= Len(t)
      PROVE  (\A i \in 1..Len(s) : a[i] = b[i]) <=>
             (\A i \in 1..Len(s) : s[i] = t[(Len(t) - Len(s)) + i])
  <2>1. ASSUME NEW i \in 1..Len(s), NEW j, j = (Len(s) - i) + 1
        PROVE  /\ j \in 1..Len(s) /\ i = (Len(s) - j) + 1
               /\ a[i] = s[j] /\ b[i] = t[(Len(t) - Len(s)) + j]
    <3>1. j \in 1..Len(s) /\ i = (Len(s) - j) + 1
      BY <1>2, <2>1
    <3>2. i \in 1..Len(t) /\ (Len(t) - i) + 1 = (Len(t) - Len(s)) + j
      BY <1>2, <1>6, <2>1
    <3>3. QED
      BY <1>3, <2>1, <3>1, <3>2
  <2>2. ASSUME \A i \in 1..Len(s) : a[i] = b[i], NEW j \in 1..Len(s)
        PROVE  s[j] = t[(Len(t) - Len(s)) + j]
    <3>1. PICK i : i = (Len(s) - j) + 1
      OBVIOUS
    <3>2. i \in 1..Len(s) /\ j = (Len(s) - i) + 1
      BY <1>2, <3>1
    <3>3. QED
      BY <2>1, <2>2, <3>2
  <2>3. ASSUME \A i \in 1..Len(s) : s[i] = t[(Len(t) - Len(s)) + i], NEW i \in 1..Len(s)
        PROVE  a[i] = b[i]
    <3>1. PICK j : j = (Len(s) - i) + 1
      OBVIOUS
    <3>2. QED
      BY <2>1, <2>3, <3>1
  <2>4. QED
    BY <2>2, <2>3
<1>7. QED
  BY <1>4, <1>5, <1>6 DEF Ends

\* The stop sequences a request may have.
IsStops(stops, L) == \A s \in stops : s \in Seq(L) /\ Len(s) \in 1..StopMaxLen
\* Those a text ends with.
Hits(stops, text) == {s \in stops : IsSuffix(s, text)}

\* The longest of them.
Longest(H) ==
    LET hits == {Len(s) : s \in H}
    IN  IF hits = {} THEN 0 ELSE CHOOSE n \in hits : \A m \in hits : m <= n

\* What the check finds depends only on them.
LEMMA StopLenOf ==
    ASSUME NEW stops, NEW text
    PROVE  StopLen(stops, text) = Longest(Hits(stops, text))
BY Zenon DEF StopLen, Hits, Longest

\* The length found is 0 or that of a stop the text ends with.
LEMMA StopLenIs ==
    ASSUME NEW L, NEW stops, IsStops(stops, L), NEW text \in Seq(L)
    PROVE  /\ StopLen(stops, text) \in Nat
           /\ StopLen(stops, text) <= Len(text)
<1> DEFINE hits == {Len(s) : s \in Hits(stops, text)}
<1>1. StopLen(stops, text) = IF hits = {} THEN 0 ELSE CHOOSE n \in hits : \A m \in hits : m <= n
  BY StopLenOf DEF Longest
<1>2. StopMaxLen \in Nat
  BY SizesAssumption
<1>3. \A n \in hits : n \in 1..StopMaxLen /\ n <= Len(text)
  <2> SUFFICES ASSUME NEW s \in Hits(stops, text)
               PROVE  Len(s) \in 1..StopMaxLen /\ Len(s) <= Len(text)
    OBVIOUS
  <2>1. s \in Seq(L) /\ Len(s) \in 1..StopMaxLen /\ IsSuffix(s, text)
    BY DEF Hits, IsStops
  <2>2. QED
    BY <2>1, SuffixEnds DEF Ends
<1> HIDE DEF hits
<1>4. CASE hits = {}
  BY <1>1, <1>4, LenProperties
<1>5. CASE hits # {}
  <2> DEFINE gaps == {m \in Nat : \E n \in hits : m = StopMaxLen - n}
  <2>1. gaps # {} /\ gaps \in SUBSET Nat
    <3>1. PICK n : n \in hits
      BY <1>5
    <3>2. StopMaxLen - n \in Nat
      BY <1>2, <1>3, <3>1
    <3>3. QED
      BY <3>1, <3>2
  <2> HIDE DEF gaps
  <2>2. PICK m \in gaps : \A y \in gaps : m <= y
    BY <2>1, LeastNat
  <2>3. PICK n \in hits : m = StopMaxLen - n
    BY <2>2 DEF gaps
  <2>4. ASSUME NEW k \in hits PROVE k <= n
    <3>1. StopMaxLen - k \in gaps
      BY <1>2, <1>3 DEF gaps
    <3>2. m <= StopMaxLen - k
      BY <2>2, <3>1
    <3>3. QED
      BY <1>2, <1>3, <2>3, <3>2
  <2>5. \E x \in hits : \A k \in hits : k <= x
    BY <2>4
  <2>6. StopLen(stops, text) \in hits
    BY <1>1, <1>5, <2>5
  <2>7. QED
    BY <1>2, <1>3, <2>6
<1>6. QED
  BY <1>4, <1>5

\* The rolling tail: the end of the text, all of it unless it is at least as
\* long as any stop sequence.
Rolled(tail, text) == Ends(tail, text) /\ (tail = text \/ Len(tail) >= StopMaxLen)

\* The tail ends with a stop sequence when the text does.
LEMMA TailHits ==
    ASSUME NEW L, NEW stops, IsStops(stops, L), NEW tail \in Seq(L), NEW text \in Seq(L),
           Rolled(tail, text)
    PROVE  StopLen(stops, tail) = StopLen(stops, text)
<1>1. StopMaxLen \in Nat /\ Len(tail) \in Nat /\ Len(text) \in Nat
  BY SizesAssumption, LenProperties
<1>2. ASSUME NEW s \in stops PROVE IsSuffix(s, tail) <=> IsSuffix(s, text)
  <2>1. s \in Seq(L) /\ Len(s) \in 1..StopMaxLen
    BY DEF IsStops
  <2>2. CASE tail = text
    BY <2>2
  <2>3. CASE Len(tail) >= StopMaxLen
    <3>1. Len(s) \in Nat /\ Len(s) <= Len(tail) /\ Len(tail) <= Len(text)
      BY <1>1, <2>1, <2>3 DEF Rolled, Ends
    <3>2. ASSUME NEW i \in 1..Len(s)
          PROVE  tail[(Len(tail) - Len(s)) + i] = text[(Len(text) - Len(s)) + i]
      <4>1. PICK j : j = (Len(tail) - Len(s)) + i
        OBVIOUS
      <4>2. tail[j] = text[(Len(text) - Len(tail)) + j]
        <5>1. j \in 1..Len(tail)
          BY <1>1, <3>1, <4>1
        <5>2. QED
          BY <5>1 DEF Rolled, Ends
      <4>3. (Len(text) - Len(tail)) + j = (Len(text) - Len(s)) + i
        BY <1>1, <3>1, <4>1
      <4>4. QED
        BY <4>1, <4>2, <4>3
    <3>3. Ends(s, tail) <=> Ends(s, text)
      BY <1>1, <3>1, <3>2 DEF Ends
    <3>4. QED
      BY <2>1, <3>3, SuffixEnds
  <2>4. QED
    BY <2>2, <2>3 DEF Rolled
<1>3. Hits(stops, tail) = Hits(stops, text)
  BY <1>2 DEF Hits
<1>4. QED
  BY <1>3, StopLenOf

\* What follows what the text ends with.
LEMMA EndsConcat ==
    ASSUME NEW L, NEW s \in Seq(L), NEW t \in Seq(L), NEW w \in Seq(L), Ends(s, t)
    PROVE  Ends(s \o w, t \o w)
<1>1. /\ Len(s) \in Nat /\ Len(t) \in Nat /\ Len(w) \in Nat /\ Len(s) <= Len(t)
      /\ s \o w \in Seq(L) /\ t \o w \in Seq(L)
      /\ Len(s \o w) = Len(s) + Len(w) /\ Len(t \o w) = Len(t) + Len(w)
      /\ \A i \in 1..(Len(s) + Len(w)) :
           (s \o w)[i] = IF i <= Len(s) THEN s[i] ELSE w[i - Len(s)]
      /\ \A i \in 1..(Len(t) + Len(w)) :
           (t \o w)[i] = IF i <= Len(t) THEN t[i] ELSE w[i - Len(t)]
  BY LenProperties, ConcatProperties DEF Ends
<1>2. ASSUME NEW i \in 1..(Len(s) + Len(w))
      PROVE  (s \o w)[i] = (t \o w)[(Len(t) - Len(s)) + i]
  <2>0. PICK j : j = (Len(t) - Len(s)) + i
    OBVIOUS
  <2>1. j = (Len(t) - Len(s)) + i /\ j \in 1..(Len(t) + Len(w))
    BY <1>1, <2>0
  <2>2. CASE i <= Len(s)
    <3>1. j <= Len(t) /\ i \in 1..Len(s)
      BY <1>1, <2>1, <2>2
    <3>2. s[i] = t[j]
      BY <2>1, <3>1 DEF Ends
    <3>3. QED
      BY <1>1, <2>1, <2>2, <3>1, <3>2
  <2>3. CASE ~(i <= Len(s))
    <3>1. ~(j <= Len(t)) /\ j - Len(t) = i - Len(s)
      BY <1>1, <2>1, <2>3
    <3>2. QED
      BY <1>1, <2>1, <2>3, <3>1
  <2>4. QED
    BY <2>2, <2>3
<1>3. (Len(t) + Len(w)) - (Len(s) + Len(w)) = Len(t) - Len(s)
  BY <1>1
<1>4. QED
  BY <1>1, <1>2, <1>3 DEF Ends

\* A token the tail can take is added whole.
LEMMA TailWhole ==
    ASSUME NEW L, NEW tail, NEW tok \in Seq(L), Len(tok) < GW_TAIL_MAX,
           NEW keep, keep = GW_TAIL_MAX - 1 - Len(tok)
    PROVE  TailWith(tail, tok) =
             (IF Len(tail) + Len(tok) >= GW_TAIL_MAX /\ Len(tail) > keep
              THEN SubSeq(tail, Len(tail) - keep + 1, Len(tail)) ELSE tail) \o tok
<1>1. StopMaxLen \in Nat /\ TokenMaxLen \in Nat /\ Len(tok) \in Nat
  BY SizesAssumption, LenProperties
<1>2. ~(Len(tok) > GW_TAIL_MAX - 1)
  BY <1>1 DEF GW_TAIL_MAX
<1>3. SubSeq(tok, 1, Len(tok)) = tok
  BY SubSeqFull
<1>4. QED
  BY <1>2, <1>3 DEF TailWith

\* A token is added to the tail and the rest cut to fit: enough is kept.
LEMMA TailGrows ==
    ASSUME NEW L, NEW tail \in Seq(L), NEW text \in Seq(L), Rolled(tail, text),
           NEW tok \in Seq(L), Len(tok) < GW_TAIL_MAX
    PROVE  /\ TailWith(tail, tok) \in Seq(L)
           /\ Rolled(TailWith(tail, tok), text \o tok)
<1>1. /\ StopMaxLen \in Nat /\ TokenMaxLen \in Nat
      /\ Len(tail) \in Nat /\ Len(text) \in Nat /\ Len(tok) \in Nat
  BY SizesAssumption, LenProperties
<1>0. PICK keep : keep = GW_TAIL_MAX - 1 - Len(tok)
  OBVIOUS
<1>2. /\ keep = GW_TAIL_MAX - 1 - Len(tok) /\ keep \in Nat
      /\ keep + Len(tok) >= StopMaxLen
  BY <1>0, <1>1 DEF GW_TAIL_MAX
<1>3. ASSUME NEW s \in Seq(L), Ends(s, text), s = text \/ Len(s) + Len(tok) >= StopMaxLen,
             NEW v, v = s \o tok
      PROVE  v \in Seq(L) /\ Rolled(v, text \o tok)
  <2>1. v \in Seq(L) /\ Len(v) = Len(s) + Len(tok) /\ Len(s) \in Nat
    BY <1>3, ConcatProperties, LenProperties
  <2>2. Ends(v, text \o tok)
    BY <1>3, EndsConcat
  <2>3. v = text \o tok \/ Len(v) >= StopMaxLen
    <3>1. CASE s = text
      BY <1>3, <3>1
    <3>2. CASE Len(s) + Len(tok) >= StopMaxLen
      BY <2>1, <3>2
    <3>3. QED
      BY <1>3, <3>1, <3>2
  <2>4. QED
    BY <2>1, <2>2, <2>3 DEF Rolled
<1>4. CASE Len(tail) + Len(tok) >= GW_TAIL_MAX /\ Len(tail) > keep
  <2>1. PICK s : s = SubSeq(tail, Len(tail) - keep + 1, Len(tail))
    OBVIOUS
  <2>2. /\ s \in Seq(L) /\ Len(s) = keep
        /\ \A i \in 1..keep : s[i] = tail[(Len(tail) - keep) + i]
    <3>1. PICK m \in Nat : m = Len(tail) - keep + 1 /\ m \in 1..(Len(tail) + 1)
      BY <1>1, <1>2, <1>4
    <3>2. /\ s \in Seq(L) /\ Len(s) = Len(tail) - m + 1
          /\ \A i \in 1..(Len(tail) - m + 1) : s[i] = tail[m + i - 1]
      BY <1>1, <2>1, <3>1, SubSeqProperties
    <3>3. Len(tail) - m + 1 = keep /\ \A i \in 1..keep : m + i - 1 = (Len(tail) - keep) + i
      BY <1>1, <1>2, <3>1
    <3>4. QED
      BY <3>2, <3>3
  <2>3. Ends(s, text)
    <3>1. keep <= Len(text) /\ Len(tail) <= Len(text)
      BY <1>1, <1>2, <1>4 DEF Rolled, Ends
    <3>2. ASSUME NEW i \in 1..keep PROVE s[i] = text[(Len(text) - keep) + i]
      <4>1. PICK j \in 1..Len(tail) : j = (Len(tail) - keep) + i
        BY <1>1, <1>2, <1>4
      <4>2. tail[j] = text[(Len(text) - Len(tail)) + j]
        BY DEF Rolled, Ends
      <4>3. (Len(text) - Len(tail)) + j = (Len(text) - keep) + i
        BY <1>1, <1>2, <4>1
      <4>4. QED
        BY <2>2, <4>1, <4>2, <4>3
    <3>3. QED
      BY <2>2, <3>1, <3>2 DEF Ends
  <2>4. Len(s) + Len(tok) >= StopMaxLen
    BY <1>2, <2>2
  <2>5. TailWith(tail, tok) = s \o tok
    BY <1>0, <1>4, <2>1, TailWhole
  <2>6. QED
    BY <1>3, <2>2, <2>3, <2>4, <2>5
<1>5. CASE ~(Len(tail) + Len(tok) >= GW_TAIL_MAX /\ Len(tail) > keep)
  <2>1. TailWith(tail, tok) = tail \o tok
    BY <1>0, <1>5, TailWhole
  <2>2. Ends(tail, text) /\ (tail = text \/ Len(tail) + Len(tok) >= StopMaxLen)
    BY <1>1 DEF Rolled
  <2>3. QED
    BY <1>3, <2>1, <2>2
<1>6. QED
  BY <1>4, <1>5

\* What text is made of.
Letters == STRING

\* What a context says of the text: before a stop sequence was found none of
\* the texts ended with one, the tail is the end of the text, and the reply
\* has all of it; after that the reply was cut at the first token whose text
\* ended with one.
Unstopped(r, c) ==
    /\ \A m \in 1..Len(c.toks) : StopLen(r.stops, Text(c.toks, m)) = 0
    /\ r.stops # {} => /\ c.tail \in Seq(Letters)
                       /\ Rolled(c.tail, Text(c.toks, Len(c.toks)))
    /\ ~r.stream => c.out = Text(c.toks, Len(c.toks))
Cut(stops, full) == SubSeq(full, 1, Len(full) - StopLen(stops, full))
Stopped(r, c) ==
    \E n \in FirstStop(r.stops, c.toks) :
       ~r.stream => c.out = Cut(r.stops, Text(c.toks, n))
Texts(r, c) ==
    /\ c.toks \in Seq(r.tokens) /\ c.stop \in Nat
    /\ c.stop = 0 => Unstopped(r, c)
    /\ c.stop # 0 => Stopped(r, c)

\* It says so as long as the tail can take the tokens.
Told(r, c) == c.toks \in Seq(r.tokens) /\ (Fits(c.toks) => Texts(r, c))

\* What gen_on_token does to the text when the token is not lost.
OnText(r, c, d, tok) ==
    \/ c.stop > 0 /\ d.stop = c.stop /\ d.out = c.out
    \/ /\ ~(c.stop > 0)
       /\ d.tail = IF r.stops = {} THEN c.tail ELSE TailWith(c.tail, tok)
       /\ d.stop = StopLen(r.stops, d.tail)
       /\ LET out == c.out \o tok IN
          ~r.stream => d.out = IF Len(out) < d.stop THEN out
                               ELSE SubSeq(out, 1, Len(out) - d.stop)

\* The texts a request may have.
IsTextual(r) ==
    /\ \A k \in r.tokens : k \in Seq(Letters)
    /\ IsStops(r.stops, Letters)

\* Without stop sequences nothing is found.
LEMMA NoStops == \A text : StopLen({}, text) = 0
<1> SUFFICES ASSUME NEW text PROVE StopLen({}, text) = 0
  OBVIOUS
<1>1. Hits({}, text) = {}
  BY DEF Hits
<1>2. Longest({}) = 0
  BY DEF Longest
<1>3. QED
  BY <1>1, <1>2, StopLenOf

\* The first token with a stop stays the first when more tokens come.
LEMMA FirstStays ==
    ASSUME NEW stops, NEW s \in Seq(Seq(Letters)), NEW tok, NEW v, Grown(s, tok, v, Letters),
           NEW n \in FirstStop(stops, s)
    PROVE  n \in FirstStop(stops, v) /\ Text(v, n) = Text(s, n)
<1>0. /\ v \in Seq(Seq(Letters)) /\ Len(v) = Len(s) + 1
      /\ \A m \in 0..Len(s) : Text(v, m) = Text(s, m)
  BY DEF Grown
<1>1. /\ Len(v) = Len(s) + 1 /\ Len(s) \in Nat /\ DOMAIN s = 1..Len(s) /\ DOMAIN v = 1..Len(v)
      /\ \A m \in 0..Len(s) : Text(v, m) = Text(s, m)
  BY <1>0, LenProperties
<1>2. /\ n \in 1..Len(s) /\ StopLen(stops, Text(s, n)) > 0
      /\ \A m \in 1..n - 1 : StopLen(stops, Text(s, m)) = 0
  BY <1>1 DEF FirstStop
<1>3. n \in DOMAIN v /\ Text(v, n) = Text(s, n)
  BY <1>1, <1>2
<1>4. ASSUME NEW m \in 1..n - 1 PROVE StopLen(stops, Text(v, m)) = 0
  <2>1. m \in 0..Len(s)
    BY <1>1, <1>2
  <2>2. QED
    BY <1>1, <1>2, <2>1
<1>5. QED
  BY <1>2, <1>3, <1>4 DEF FirstStop

\* A token keeps what is said of the text.
LEMMA TextsStep ==
    ASSUME NEW r, IsTextual(r), NEW c, Texts(r, c), NEW tok \in r.tokens, NEW d,
           d.toks = Append(c.toks, tok), OnText(r, c, d, tok), Len(tok) < GW_TAIL_MAX
    PROVE  Texts(r, d)
<1>1. PICK s, v : s = c.toks /\ v = d.toks
  OBVIOUS
<1>2. tok \in Seq(Letters) /\ Len(tok) < GW_TAIL_MAX /\ IsStops(r.stops, Letters)
  BY DEF IsTextual
<1>3. s \in Seq(Seq(Letters)) /\ v = Append(s, tok) /\ v \in Seq(r.tokens)
  <2>1. r.tokens \subseteq Seq(Letters) /\ s \in Seq(r.tokens)
    BY <1>1 DEF IsTextual, Texts
  <2>2. v = Append(s, tok)
    BY <1>1
  <2>3. v \in Seq(r.tokens)
    BY <2>1, <2>2, AppendProperties, Zenon
  <2>4. s \in Seq(Seq(Letters))
    BY <2>1
  <2>5. QED
    BY <2>2, <2>3, <2>4
<1>g. Grown(s, tok, v, Letters)
  BY <1>2, <1>3, TextGrows
<1>4. /\ v \in Seq(Seq(Letters)) /\ Len(v) = Len(s) + 1 /\ Len(s) \in Nat
      /\ \A n \in 0..Len(s) : Text(v, n) = Text(s, n)
      /\ Text(v, Len(s) + 1) = Text(s, Len(s)) \o tok
  BY <1>g DEF Grown
<1>5. CASE c.stop > 0
  <2>1. d.stop = c.stop /\ d.out = c.out /\ d.stop \in Nat /\ d.stop # 0
    BY <1>5 DEF OnText, Texts
  <2>2. PICK n \in FirstStop(r.stops, s) : ~r.stream => c.out = Cut(r.stops, Text(s, n))
    BY <1>1, <1>5 DEF Texts, Stopped
  <2>3. n \in FirstStop(r.stops, v) /\ Text(v, n) = Text(s, n)
    BY <1>3, <1>g, FirstStays
  <2>4. Stopped(r, d)
    BY <1>1, <2>1, <2>2, <2>3 DEF Stopped
  <2>5. QED
    BY <1>1, <1>3, <2>1, <2>4 DEF Texts
<1>6. CASE ~(c.stop > 0)
  <2>1. c.stop = 0 /\ Unstopped(r, c)
    BY <1>6 DEF Texts
  <2>2. PICK old, full : old = Text(s, Len(s)) /\ full = Text(v, Len(v))
    OBVIOUS
  <2>3. old \in Seq(Letters) /\ full \in Seq(Letters) /\ full = old \o tok
    <3>1. Len(s) \in 0..Len(s) /\ Len(v) \in 0..Len(v)
      BY <1>4
    <3>2. /\ \A n \in 0..Len(s) : Text(s, n) \in Seq(Letters)
          /\ \A n \in 0..Len(v) : Text(v, n) \in Seq(Letters)
      BY <1>3, <1>4, TextStep, Zenon
    <3>3. QED
      BY <1>4, <2>2, <3>1, <3>2
  <2>4. d.tail = IF r.stops = {} THEN c.tail ELSE TailWith(c.tail, tok)
    BY <1>6 DEF OnText
  <2>5. r.stops # {} => d.tail \in Seq(Letters) /\ Rolled(d.tail, full)
    <3>1. ASSUME r.stops # {} PROVE d.tail \in Seq(Letters) /\ Rolled(d.tail, full)
      <4>1. c.tail \in Seq(Letters) /\ Rolled(c.tail, old) /\ d.tail = TailWith(c.tail, tok)
        BY <1>1, <2>1, <2>2, <2>4, <3>1 DEF Unstopped
      <4>2. QED
        BY <1>2, <2>3, <4>1, TailGrows
    <3>2. QED
      BY <3>1
  <2>6. d.stop = StopLen(r.stops, full)
    <3>1. d.stop = StopLen(r.stops, d.tail)
      BY <1>6 DEF OnText
    <3>2. CASE r.stops = {}
      BY <3>1, <3>2, NoStops
    <3>3. CASE r.stops # {}
      BY <1>2, <2>3, <2>5, <3>1, <3>3, TailHits
    <3>4. QED
      BY <3>2, <3>3
  <2>7. d.stop \in Nat /\ d.stop <= Len(full) /\ Len(full) \in Nat
    <3>1. StopLen(r.stops, full) \in Nat /\ StopLen(r.stops, full) <= Len(full)
      BY <1>2, <2>3, StopLenIs, Zenon
    <3>2. QED
      BY <2>3, <2>6, <3>1, LenProperties
  <2>8. ~r.stream => d.out = SubSeq(full, 1, Len(full) - d.stop)
    <3>1. ASSUME ~r.stream PROVE d.out = SubSeq(full, 1, Len(full) - d.stop)
      <4>1. c.out \o tok = full
        BY <1>1, <2>1, <2>2, <2>3, <3>1 DEF Unstopped
      <4>2. ~(Len(full) < d.stop)
        BY <2>7
      <4>3. QED
        BY <1>6, <3>1, <4>1, <4>2 DEF OnText
    <3>2. QED
      BY <3>1
  <2>9. ASSUME NEW m \in 1..Len(s) PROVE StopLen(r.stops, Text(v, m)) = 0
    <3>1. StopLen(r.stops, Text(s, m)) = 0 /\ m \in 0..Len(s)
      BY <1>1, <1>4, <2>1 DEF Unstopped
    <3>2. QED
      BY <1>4, <3>1
  <2>10. CASE d.stop = 0
    <3>1. ~r.stream => d.out = full
      <4>1. SubSeq(full, 1, Len(full)) = full
        BY <2>3, SubSeqFull
      <4>2. Len(full) - d.stop = Len(full)
        BY <2>7, <2>10
      <4>3. QED
        BY <2>8, <4>1, <4>2
    <3>2. ASSUME NEW m \in 1..Len(v) PROVE StopLen(r.stops, Text(v, m)) = 0
      <4>1. CASE m = Len(v)
        BY <2>2, <2>6, <2>10, <4>1
      <4>2. CASE m # Len(v)
        <5>1. m \in 1..Len(s)
          BY <1>4, <4>2
        <5>2. QED
          BY <2>9, <5>1
      <4>3. QED
        BY <4>1, <4>2
    <3>3. Unstopped(r, d)
      BY <1>1, <2>2, <2>5, <3>1, <3>2 DEF Unstopped
    <3>4. QED
      BY <1>1, <1>3, <2>10, <3>3 DEF Texts
  <2>11. CASE d.stop # 0
    <3>1. Len(v) \in DOMAIN v
      BY <1>4, LenProperties
    <3>2. StopLen(r.stops, Text(v, Len(v))) > 0
      BY <2>2, <2>6, <2>7, <2>11
    <3>3. \A m \in 1..Len(v) - 1 : StopLen(r.stops, Text(v, m)) = 0
      BY <1>4, <2>9
    <3>4. Len(v) \in FirstStop(r.stops, v)
      BY <3>1, <3>2, <3>3 DEF FirstStop
    <3>5. Stopped(r, d)
      BY <1>1, <2>2, <2>6, <2>8, <3>4 DEF Stopped, Cut
    <3>6. QED
      BY <1>1, <1>3, <2>7, <2>11, <3>5 DEF Texts
  <2>12. QED
    BY <2>10, <2>11
<1>7. QED
  BY <1>5, <1>6

\* What gen_on_token leaves of the text when the token is not lost.
LEMMA OnTokenText ==
    ASSUME TypeOK, NEW t \in Conns, NEW tok, NEW room, NEW k, k = gen_on_token(t, tok, room),
           ~k.failed
    PROVE  ~ctx[t].failed /\ OnText(req[t], ctx[t], k, tok)
<1>1. PICK c, r : c = ctx[t] /\ r = req[t]
  OBVIOUS
<1>2. IsCtx(c)
  BY <1>1 DEF TypeOK
<1> DEFINE tail == IF r.stops = {} THEN c.tail ELSE TailWith(c.tail, tok)
           n    == StopLen(r.stops, tail)
           whole == c.out \o tok
           out  == IF r.stream THEN c.out ELSE whole
           kept == IF r.stream \/ Len(out) < n THEN out ELSE SubSeq(out, 1, Len(out) - n)
<1>3. \/ (c.failed \/ c.stop > 0) /\ k = c
      \/ ~(c.failed \/ c.stop > 0) /\ k = [c EXCEPT !.failed = TRUE]
      \/ ~(c.failed \/ c.stop > 0) /\ k = [c EXCEPT !.tail = tail, !.stop = n, !.out = kept]
  BY <1>1, Zenon DEF gen_on_token
<1>4. ~r.stream => kept = IF Len(whole) < n THEN whole ELSE SubSeq(whole, 1, Len(whole) - n)
  OBVIOUS
<1>5. n = StopLen(r.stops, tail) /\ tail = (IF r.stops = {} THEN c.tail ELSE TailWith(c.tail, tok))
  OBVIOUS
<1> HIDE DEF tail, n, out, kept, whole
<1>6. CASE (c.failed \/ c.stop > 0) /\ k = c
  BY <1>1, <1>6 DEF OnText
<1>7. CASE k = [c EXCEPT !.failed = TRUE]
  <2>1. k.failed = TRUE
    BY <1>2, <1>7, CtxFailed
  <2>2. QED
    BY <2>1
<1>8. CASE ~(c.failed \/ c.stop > 0) /\ k = [c EXCEPT !.tail = tail, !.stop = n, !.out = kept]
  <2>1. k = [id |-> c.id, failed |-> c.failed, stop |-> n, out |-> kept,
             tail |-> tail, toks |-> c.toks, steps |-> c.steps, st |-> c.st]
    BY <1>2, <1>8 DEF IsCtx
  <2>2. k.stop = n /\ k.out = kept /\ k.tail = tail
    BY <2>1
  <2>3. QED
    BY <1>1, <1>4, <1>5, <1>8, <2>2 DEF OnText, whole
<1>9. QED
  BY <1>3, <1>6, <1>7, <1>8

\* A turn of the token loop adds its token to the text, or the reply is lost.
LEMMA TokenText ==
    ASSUME TypeOK, NEW t \in Conns, Token(t), ~ctx'[t].failed
    PROVE  /\ ~ctx[t].failed
           /\ \E tok \in req[t].tokens : /\ ctx'[t].toks = Append(ctx[t].toks, tok)
                                         /\ OnText(req[t], ctx[t], ctx'[t], tok)
<1>1. PICK tok \in req[t].tokens, room \in {TRUE, req[t].stream} :
        LET c == gen_on_token(t, tok, room) IN
        ctx' = [ctx EXCEPT ![t] = [c EXCEPT !.steps = @ + 1,
                                            !.toks = IF c.failed THEN <<>> ELSE Append(@, tok)]]
  BY DEF Token
<1>2. PICK c : c = gen_on_token(t, tok, room)
  OBVIOUS
<1>3. IsCtx(c) /\ c.toks = ctx[t].toks
  BY <1>2, OnToken
<1>4. PICK x : x = [c EXCEPT !.steps = @ + 1, !.toks = IF c.failed THEN <<>> ELSE Append(@, tok)]
  OBVIOUS
<1>5. x = [id |-> c.id, failed |-> c.failed, stop |-> c.stop, out |-> c.out, tail |-> c.tail,
           toks |-> IF c.failed THEN <<>> ELSE Append(c.toks, tok),
           steps |-> c.steps + 1, st |-> c.st]
  BY <1>3, <1>4 DEF IsCtx
<1>6. /\ x.failed = c.failed /\ x.stop = c.stop /\ x.out = c.out /\ x.tail = c.tail
      /\ x.toks = IF c.failed THEN <<>> ELSE Append(c.toks, tok)
  BY <1>5
<1>7. ctx'[t] = x
  BY <1>1, <1>2, <1>4 DEF TypeOK
<1>8. ~c.failed
  BY <1>6, <1>7
<1>9. ~ctx[t].failed /\ OnText(req[t], ctx[t], c, tok)
  BY <1>2, <1>8, OnTokenText
<1>10. OnText(req[t], ctx[t], x, tok)
  BY <1>6, <1>9 DEF OnText
<1>11. QED
  BY <1>3, <1>6, <1>7, <1>8, <1>9, <1>10

\* Where a thread has no token yet, and where it has what it got so far.
Before == Early \cup Queued \cup {"ready", "apply", "generate"}
Writing == {"loop", "finish"}
Blank(c) == c.toks = <<>> /\ c.out = <<>> /\ c.tail = <<>> /\ c.stop = 0

\* The texts of the threads; one whose client is gone or that ran out of
\* memory answers with an error.
Written ==
    \A t \in Conns :
       /\ pc[t] \in Before => Blank(ctx[t])
       /\ pc[t] \in Writing => ctx[t].failed \/ Told(req[t], ctx[t])

TextInv == TypeOK /\ Locks /\ Written /\ StopExact

\* The other steps leave the text alone, or are past it.
LEMMA TextAfter ==
    ASSUME TypeOK, NEW t \in Conns, Thread(t) \/ PeerGone(t), ~Token(t)
    PROVE  \/ pc'[t] \notin Before \cup Writing
           \/ /\ SameText(ctx[t], ctx'[t])
              /\ pc'[t] \in Before => pc[t] \in Before
              /\ pc'[t] \in Writing => /\ pc[t] \in {"generate"} \cup Writing
                                       /\ ctx'[t].failed = ctx[t].failed
<1> USE DEF At, Before, Writing, Early, Queued
<1>0. ASSUME NEW l, Go(t, l) PROVE pc'[t] = l
  BY <1>0 DEF Go, TypeOK
<1>a. ctx' = ctx => SameText(ctx[t], ctx'[t])
  BY DEF SameText
<1>b. IsCtx(ctx[t])
  BY DEF TypeOK
<1>c. Return(t) => pc'[t] = "end"
  BY <1>0 DEF Return
<1>1. CASE pai_http_server_run(t) \/ Recv(t) \/ gw_conn_thread_end(t) \/ FinishStream(t)
  BY <1>0, <1>a, <1>1 DEF pai_http_server_run, Recv, gw_conn_thread_end, FinishStream
<1>2. CASE PeerGone(t)
  BY <1>a, <1>2 DEF PeerGone
<1>3. CASE pai_gw_handle_request(t)
  BY <1>0, <1>a, <1>c, <1>3 DEF pai_gw_handle_request
<1>4. CASE SeqRead(t)
  <2>1. PICK c : c = [ctx[t] EXCEPT !.id = gw_seq]
    OBVIOUS
  <2>2. gw_seq \in Nat /\ ctx'[t] = c
    BY <1>4, <2>1 DEF SeqRead, TypeOK
  <2>3. SameText(ctx[t], c)
    BY <1>b, <2>1, <2>2, CtxId
  <2>4. pc[t] = "seq" /\ pc'[t] = "seq_write"
    BY <1>0, <1>4 DEF SeqRead
  <2>5. QED
    BY <2>2, <2>3, <2>4
<1>5. CASE SeqWrite(t) \/ Lock(t)
  BY <1>0, <1>a, <1>5 DEF SeqWrite, Lock
<1>6. CASE EnsureReady(t)
  BY <1>0, <1>a, <1>c, <1>6 DEF EnsureReady
<1>7. CASE Apply(t)
  <2>1. CASE req[t].seed
    <3>1. PICK c : c = [ctx[t] EXCEPT !.failed = req[t].stream /\ req[t].echo /\ peer[t] = "gone"]
      OBVIOUS
    <3>2. ctx'[t] = c
      BY <1>7, <2>1, <3>1 DEF Apply, TypeOK
    <3>3. SameText(ctx[t], c)
      BY <1>b, <3>1, CtxFailed
    <3>4. pc[t] = "apply" /\ pc'[t] = "generate"
      BY <1>0, <1>7, <2>1 DEF Apply
    <3>5. QED
      BY <3>2, <3>3, <3>4
  <2>2. CASE ~req[t].seed
    BY <1>c, <1>7, <2>2 DEF Apply
  <2>3. QED
    BY <2>1, <2>2
<1>8. CASE pai_session_generate(t) \/ GenerateEnds(t)
  <2>1. \/ \E v : ctx' = [ctx EXCEPT ![t] = [ctx[t] EXCEPT !.st = v]]
        \/ ctx' = ctx
    BY <1>8 DEF pai_session_generate, GenerateEnds
  <2>2. pc[t] \in {"generate", "loop"} /\ pc'[t] \in {"loop", "finish"}
    BY <1>0, <1>8 DEF pai_session_generate, GenerateEnds
  <2>3. SameText(ctx[t], ctx'[t]) /\ ctx'[t].failed = ctx[t].failed
    <3>1. CASE ctx' = ctx
      BY <1>a, <3>1
    <3>2. ASSUME NEW v, ctx' = [ctx EXCEPT ![t] = [ctx[t] EXCEPT !.st = v]]
          PROVE  SameText(ctx[t], ctx'[t]) /\ ctx'[t].failed = ctx[t].failed
      <4>1. PICK c : c = [ctx[t] EXCEPT !.st = v]
        OBVIOUS
      <4>2. ctx'[t] = c
        BY <3>2, <4>1 DEF TypeOK
      <4>3. SameText(ctx[t], c) /\ c.failed = ctx[t].failed
        BY <1>b, <4>1, CtxSt
      <4>4. QED
        BY <4>2, <4>3
    <3>3. QED
      BY <2>1, <3>1, <3>2
  <2>4. QED
    BY <2>2, <2>3
<1>9. CASE FinishWhole(t) \/ Unlock(t) \/ EmbeddingsReply(t)
  BY <1>0, <1>c, <1>9 DEF FinishWhole, Unlock, EmbeddingsReply
<1>10. CASE handle_embeddings(t)
  BY <1>0, <1>c, <1>10 DEF handle_embeddings
<1>11. QED
  BY <1>1, <1>2, <1>3, <1>4, <1>5, <1>6, <1>7, <1>8, <1>9, <1>10 DEF Thread

\* The requests of the connections have texts.
LEMMA ReqTextual == TypeOK => \A t \in Conns : IsTextual(req[t])
BY SizesAssumption, TextAssumption DEF TypeOK, IsTextual, IsStops, Letters

\* A text without tokens.
LEMMA BlankTexts ==
    ASSUME NEW r, NEW c, Blank(c)
    PROVE  Texts(r, c)
<1>1. c.toks = <<>> /\ c.toks \in Seq(r.tokens) /\ c.toks \in Seq(Seq(Letters)) /\ Len(c.toks) = 0
  BY DEF Blank
<1>2. Text(c.toks, 0) = <<>>
  BY <1>1, TextStep
<1>3. Rolled(<<>>, <<>>) /\ <<>> \in Seq(Letters)
  BY DEF Rolled, Ends
<1>4. Unstopped(r, c)
  BY <1>1, <1>2, <1>3 DEF Unstopped, Blank
<1>5. QED
  BY <1>1, <1>4 DEF Texts, Blank

\* What is said of the text depends on nothing else of the context.
LEMMA SameTexts ==
    ASSUME NEW r, NEW c, NEW d, SameText(c, d)
    PROVE  (Told(r, c) => Told(r, d)) /\ (Blank(c) => Blank(d))
<1>1. Texts(r, c) => Texts(r, d)
  BY DEF SameText, Texts, Unstopped, Stopped
<1>2. QED
  BY <1>1 DEF SameText, Told, Blank

\* Tokens that fit did so before the last one came, which fits as well.
LEMMA FitsBefore ==
    ASSUME NEW S, NEW s \in Seq(S), NEW tok \in S, Fits(Append(s, tok))
    PROVE  Fits(s) /\ Len(tok) < GW_TAIL_MAX
<1>1. PICK v : v = Append(s, tok)
  OBVIOUS
<1>2. /\ Len(s) \in Nat /\ Len(v) = Len(s) + 1 /\ DOMAIN s = 1..Len(s) /\ DOMAIN v = 1..Len(v)
      /\ v[Len(s) + 1] = tok /\ \A i \in 1..Len(s) : v[i] = s[i]
  BY <1>1, AppendProperties, LenProperties
<1>3. \A i \in DOMAIN v : Len(v[i]) < GW_TAIL_MAX
  BY <1>1 DEF Fits
<1>4. Len(s) + 1 \in DOMAIN v
  BY <1>2
<1>5. Len(tok) < GW_TAIL_MAX
  BY <1>2, <1>3, <1>4
<1>6. ASSUME NEW i \in DOMAIN s PROVE Len(s[i]) < GW_TAIL_MAX
  <2>1. i \in 1..Len(s) /\ i \in DOMAIN v
    BY <1>2
  <2>2. QED
    BY <1>2, <1>3, <2>1
<1>7. QED
  BY <1>5, <1>6 DEF Fits

\* A token keeps what is said as long as they fit.
LEMMA ToldStep ==
    ASSUME NEW r, IsTextual(r), NEW c, Told(r, c), NEW tok \in r.tokens, NEW d,
           d.toks = Append(c.toks, tok), OnText(r, c, d, tok)
    PROVE  Told(r, d)
<1>1. c.toks \in Seq(r.tokens)
  BY DEF Told
<1>2. d.toks \in Seq(r.tokens)
  <2>1. Append(c.toks, tok) \in Seq(r.tokens)
    BY <1>1, AppendProperties, Zenon
  <2>2. QED
    BY <2>1
<1>3. ASSUME Fits(d.toks) PROVE Texts(r, d)
  <2>1. Fits(c.toks) /\ Len(tok) < GW_TAIL_MAX
    BY <1>1, <1>3, FitsBefore
  <2>2. Texts(r, c)
    BY <2>1 DEF Told
  <2>3. QED
    BY <2>1, <2>2, TextsStep
<1>4. QED
  BY <1>2, <1>3 DEF Told

\* The step keeps what is said of its own thread's text.
LEMMA TextSelf ==
    ASSUME TextInv, NEW t \in Conns, Thread(t) \/ PeerGone(t)
    PROVE  /\ pc'[t] \in Before => Blank(ctx'[t])
           /\ pc'[t] \in Writing => ctx'[t].failed \/ Told(req[t], ctx'[t])
<1>1. /\ pc[t] \in Before => Blank(ctx[t])
      /\ pc[t] \in Writing => ctx[t].failed \/ Told(req[t], ctx[t])
      /\ TypeOK
  BY DEF TextInv, Written
<1>2. CASE Token(t)
  <2>1. pc[t] = "loop" /\ pc'[t] \in Writing
    BY <1>1, <1>2 DEF Token, At, Go, TypeOK, Writing
  <2>2. pc'[t] \notin Before
    BY <2>1 DEF Writing, Before, Early, Queued
  <2>3. ASSUME ~ctx'[t].failed PROVE Told(req[t], ctx'[t])
    <3>1. PICK tok \in req[t].tokens : /\ ctx'[t].toks = Append(ctx[t].toks, tok)
                                       /\ OnText(req[t], ctx[t], ctx'[t], tok)
      BY <1>1, <1>2, <2>3, TokenText
    <3>2. Told(req[t], ctx[t])
      BY <1>1, <1>2, <2>1, <2>3, TokenText DEF Writing
    <3>3. PICK r, c, d : r = req[t] /\ c = ctx[t] /\ d = ctx'[t]
      OBVIOUS
    <3>4. IsTextual(r) /\ Told(r, c) /\ tok \in r.tokens /\ d.toks = Append(c.toks, tok)
          /\ OnText(r, c, d, tok)
      BY <1>1, <3>1, <3>2, <3>3, ReqTextual
    <3>5. QED
      BY <3>3, <3>4, ToldStep
  <2>4. QED
    BY <2>1, <2>2, <2>3
<1>3. CASE ~Token(t)
  <2>1. CASE pc'[t] \notin Before \cup Writing
    BY <2>1
  <2>2. CASE /\ SameText(ctx[t], ctx'[t])
             /\ pc'[t] \in Before => pc[t] \in Before
             /\ pc'[t] \in Writing => /\ pc[t] \in {"generate"} \cup Writing
                                      /\ ctx'[t].failed = ctx[t].failed
    <3>1. "generate" \in Before
      BY DEF Before
    <3>2. /\ Told(req[t], ctx[t]) => Told(req[t], ctx'[t])
          /\ Blank(ctx[t]) => Blank(ctx'[t])
          /\ Blank(ctx[t]) => Told(req[t], ctx[t])
      BY <2>2, SameTexts, BlankTexts DEF Told, Texts
    <3>3. QED
      BY <1>1, <2>2, <3>1, <3>2
  <2>3. QED
    BY <1>1, <1>3, <2>1, <2>2, TextAfter
<1>4. QED
  BY <1>2, <1>3

\* The answer of a thread that got its text is exact.
LEMMA AnswerExact ==
    ASSUME TextInv, NEW t \in Conns, pc[t] = "finish", ~Bad(t), ~req[t].stream, NEW sent,
           sent = Answer(t, "answer"), Fits(sent.toks)
    PROVE  Exact(req[t], sent)
<1>1. PICK r, c : r = req[t] /\ c = ctx[t]
  OBVIOUS
<1>2. Texts(r, c) /\ ~r.stream
  <2>1. Told(r, c) /\ ~r.stream
    BY <1>1 DEF TextInv, Written, Writing, Bad
  <2>2. sent.toks = c.toks
    BY <1>1 DEF Answer
  <2>3. QED
    BY <2>1, <2>2 DEF Told
<1>3. sent.toks = c.toks /\ sent.text = Shown(r, c.out) /\ (c.stop > 0 => sent.reason = "stop")
  BY <1>1 DEF Answer, Reason
<1>4. CASE c.stop = 0
  <2>1. Unstopped(r, c)
    BY <1>2, <1>4 DEF Texts
  <2>2. FirstStop(r.stops, c.toks) = {}
    <3>1. DOMAIN c.toks = 1..Len(c.toks)
      BY <1>2, LenProperties DEF Texts
    <3>2. QED
      BY <2>1, <3>1 DEF FirstStop, Unstopped
  <2>3. QED
    BY <1>1, <1>2, <1>3, <2>1, <2>2 DEF Exact, Unstopped
<1>5. CASE c.stop # 0
  <2>1. c.stop > 0 /\ Stopped(r, c)
    BY <1>2, <1>5 DEF Texts
  <2>2. PICK n \in FirstStop(r.stops, c.toks) : c.out = Cut(r.stops, Text(c.toks, n))
    BY <1>2, <2>1 DEF Stopped
  <2>3. QED
    BY <1>1, <1>3, <2>1, <2>2 DEF Exact, Cut
<1>6. QED
  BY <1>4, <1>5

\* Every step keeps the texts and the answers exact.
LEMMA NextText == TextInv /\ [Next]_vars => TextInv'
<1> SUFFICES ASSUME TextInv, [Next]_vars PROVE TextInv'
  OBVIOUS
<1>1. ASSUME NEW t \in Conns, Thread(t) \/ PeerGone(t) PROVE TextInv'
  <2>1. TypeOK' /\ Locks' /\ Untouched(t) /\ req' = req
    BY <1>1, Frame DEF TextInv, Untouched
  <2>2. Written'
    <3>1. ASSUME NEW u \in Conns
          PROVE  /\ pc'[u] \in Before => Blank(ctx'[u])
                 /\ pc'[u] \in Writing => ctx'[u].failed \/ Told(req[u], ctx'[u])
      <4>1. CASE u = t
        BY <1>1, <4>1, TextSelf
      <4>2. CASE u # t
        BY <2>1, <4>2 DEF Untouched, TextInv, Written
      <4>3. QED
        BY <4>1, <4>2
    <3>2. QED
      BY <2>1, <3>1 DEF Written
  <2>3. ASSUME NEW u \in Conns, NEW i \in DOMAIN wire'[u], wire'[u][i].k = "answer",
               Fits(wire'[u][i].toks)
        PROVE  Exact(req[u], wire'[u][i])
    <3>1. CASE i \in DOMAIN wire[u] /\ wire'[u][i] = wire[u][i]
      BY <2>3, <3>1 DEF TextInv, StopExact
    <3>2. CASE u = t /\ pc[t] = "finish" /\ ~Bad(t) /\ OwnAnswer(t, wire'[t][i])
      BY <2>3, <3>2, AnswerExact DEF OwnAnswer
    <3>3. CASE u # t
      BY <2>1, <3>1, <3>3 DEF Untouched
    <3>4. QED
      BY <1>1, <2>3, <3>1, <3>2, <3>3, NewReply DEF TextInv
  <2>4. StopExact'
    <3>1. \A u \in Conns : \A i \in DOMAIN wire'[u] :
             wire'[u][i].k = "answer" /\ Fits(wire'[u][i].toks) => Exact(req'[u], wire'[u][i])
      BY <2>1, <2>3
    <3>2. QED
      BY <3>1 DEF StopExact
  <2>5. QED
    BY <2>1, <2>2, <2>4 DEF TextInv
<1>2. CASE UNCHANGED vars
  <2>1. \A u \in Conns : E(u)' = E(u)
    BY <1>2 DEF vars, E
  <2>2. TypeOK' /\ Locks' /\ Written'
    BY <1>2, <2>1 DEF vars, TextInv, TypeOK, Locks, Written
  <2>3. StopExact'
    BY <1>2 DEF vars, TextInv, StopExact
  <2>4. QED
    BY <2>2, <2>3 DEF TextInv
<1>3. QED
  BY <1>1, <1>2 DEF Next

\* The check on the rolling tail misses no stop sequence and takes none that is
\* not there: a whole reply ends before the longest stop sequence the text
\* ended with at the first token where it ended with one, and says so, and has
\* every token otherwise; whatever the lengths of the stop sequences, and of the
\* tokens as long as the tail can take them.
THEOREM RepliesStopExactly == Spec => []StopExact
<1>1. Init => TextInv
  <2>1. Init => TypeOK /\ Locks
    BY InitOwn DEF OwnInv
  <2>2. ASSUME Init PROVE Written /\ StopExact
    <3>1. \A t \in Conns : pc[t] = "idle" /\ ctx[t] = NoCtx /\ wire[t] = <<>>
      BY <2>2 DEF Init
    <3>2. Blank(NoCtx) /\ "idle" \notin Writing
      BY DEF Blank, NoCtx, Writing
    <3>3. Written
      BY <3>1, <3>2 DEF Written
    <3>4. StopExact
      BY <3>1 DEF StopExact
    <3>5. QED
      BY <3>3, <3>4
  <2>3. QED
    BY <2>1, <2>2 DEF TextInv
<1>2. TextInv => StopExact
  BY DEF TextInv
<1>3. QED
  BY <1>1, <1>2, NextText, PTL DEF Spec
=============================================================================
