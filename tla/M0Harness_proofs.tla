-------------------------- MODULE M0Harness_proofs --------------------------
(***************************************************************************)
(* What the payload's harness may conclude from the fence label, from a    *)
(* read-back that shows the expected words and from one that does not, for *)
(* every number of iterations and of failures, and every matrix in which a *)
(* read-back tells its dispatch apart and a dispatch finds its input.      *)
(***************************************************************************)
EXTENDS M0Harness, TLAPS, WellFoundedInduction

\* While a submission is being made or waited for, its value stands in the
\* label only if its own job completed.
OwnLabel == pc \in {"submit", "wait"} /\ label = LabelValue(exp, st, fence) => done

\* Experiments are counted from 1, so the cleared label is no submission's.
EopInv == exp \in Nat \ {0} /\ OwnLabel

\* The cleared label is not the value of a submission.
LEMMA ClearedLabel ==
  ASSUME NEW i \in Nat \ {0}, NEW j, NEW n
  PROVE  LabelValue(i, j, n) # NoJob
BY DEF LabelValue, NoJob

\* Steps after which nothing is submitted or waited for.
LEMMA ElsewhereEop ==
  ASSUME EopInv, pc' \notin {"submit", "wait"}, exp' \in {exp, exp + 1}
  PROVE  EopInv'
BY DEF EopInv, OwnLabel

\* Submitting: the label was cleared, or says which job completed since.
LEMMA SubmitEop ==
  ASSUME EopInv, Submit
  PROVE  EopInv'
<1>1. UNCHANGED <<exp, st, label, done>> /\ pc = "submit"
  BY DEF Submit, hist
<1>2. CASE pc' = "wait" /\ UNCHANGED fence
  BY <1>1, <1>2 DEF EopInv, OwnLabel, LabelValue
<1>3. CASE NextFence
  <2>1. pc' \notin {"submit", "wait"}
    BY <1>3 DEF NextFence
  <2>2. QED
    BY <1>1, <2>1, ElsewhereEop
<1>4. QED
  BY <1>2, <1>3 DEF Submit

\* A job that completes and writes the label the host waits for is the job of
\* that submission.
LEMMA CompleteEop ==
  ASSUME EopInv, GpuComplete
  PROVE  EopInv'
<1>1. UNCHANGED <<pc, exp, st, fence>>
  BY DEF GpuComplete
<1>2. label' \in {running, label} /\ done' = (done \/ running = <<exp, st, fence>>)
  BY DEF GpuComplete
<1>3. QED
  BY <1>1, <1>2 DEF EopInv, OwnLabel, LabelValue

\* Every step.
LEMMA NextEop == EopInv /\ [Next]_vars => EopInv'
<1> SUFFICES ASSUME EopInv, [Next]_vars PROVE EopInv'
  OBVIOUS
<1>1. CASE UNCHANGED vars
  BY <1>1 DEF vars, gpu, hist, EopInv, OwnLabel, LabelValue
<1>2. CASE Boot \/ m0_ctx_alloc_buffers \/ Unavailable \/ Observed \/ NothingLeft
           \/ m0_ctx_free_buffers
  <2>1. pc' \notin {"submit", "wait"} /\ exp' = exp
    BY <1>2 DEF Boot, m0_ctx_alloc_buffers, Unavailable, Observed, NothingLeft,
       m0_ctx_free_buffers
  <2>2. QED
    BY <2>1, ElsewhereEop
<1>3. CASE Begin
  <2>1. pc' \notin {"submit", "wait"} /\ exp' \in {exp, exp + 1}
    BY <1>3 DEF Begin
  <2>2. QED
    BY <2>1, ElsewhereEop
<1>4. CASE Check
  <2>1. pc' \notin {"submit", "wait"} /\ exp' = exp
    BY <1>4 DEF Check
  <2>2. QED
    BY <2>1, ElsewhereEop
<1>5. CASE Report
  <2>1. pc' \notin {"submit", "wait"} /\ exp' = exp + 1
    BY <1>5 DEF Report
  <2>2. QED
    BY <2>1, ElsewhereEop
<1>6. CASE TimedOut
  <2>1. pc' \notin {"submit", "wait"} /\ exp' = exp
    BY <1>6 DEF TimedOut, NextFence
  <2>2. QED
    BY <2>1, ElsewhereEop
<1>7. CASE Prepare
  <2>1. UNCHANGED <<exp, st, fence>> /\ label' = NoJob
    BY <1>7 DEF Prepare
  <2>2. QED
    BY <2>1, ClearedLabel DEF EopInv, OwnLabel
<1>8. CASE Submit
  BY <1>8, SubmitEop
<1>9. CASE GpuComplete
  BY <1>9, CompleteEop
<1>10. CASE GpuFetch \/ GpuWedge
  <2>1. UNCHANGED <<pc, exp, st, fence, label, done>>
    BY <1>10 DEF GpuFetch, GpuWedge, hist
  <2>2. QED
    BY <2>1 DEF EopInv, OwnLabel, LabelValue
<1>11. QED
  BY <1>1, <1>2, <1>3, <1>4, <1>5, <1>6, <1>7, <1>8, <1>9, <1>10 DEF Next, Host, Gpu

\* At boot nothing is waited for.
LEMMA InitEop == Init => EopInv
<1> SUFFICES ASSUME Init PROVE EopInv
  OBVIOUS
<1>1. exp = 1 /\ pc = "boot"
  BY DEF Init
<1>2. QED
  BY <1>1 DEF EopInv, OwnLabel

\* A label taken for the end of a submission is that submission's own: a late
\* job of an earlier fence, step or experiment, which runs whatever stream is
\* in the one command buffer, never passes for it.
THEOREM LabelMeansDone == Spec => EopMeansDone
<1>1. EopInv /\ [Next]_vars =>
        [pc = "wait" /\ label = LabelValue(exp, st, fence) /\ rc' => done]_vars
  BY DEF EopInv, OwnLabel
<1>2. QED
  BY <1>1, InitEop, NextEop, PTL DEF Spec, EopMeansDone

-----------------------------------------------------------------------------
(* A read-back that shows the expected words rests on the experiment's own  *)
(* jobs.                                                                    *)

Stepping == {"prepare", "submit", "wait", "check", "report"}

\* Nothing of the current experiment has been submitted yet.
Fresh == pc \notin Stepping \/ (pc = "prepare" /\ st = 1 /\ fence = 1)
Submitted(i) == i < exp \/ (i = exp /\ ~Fresh)

\* Where the host is in the matrix.
Position ==
  /\ exp \in Nat \ {0} /\ fence \in Nat \ {0} /\ pending \in Nat
  /\ pc \in Stepping => exp \in 1..N /\ st \in DOMAIN Row.steps

\* Memory is cut at the offsets the rows name.
Shape == DOMAIN mem = Buffers /\ \A b \in Buffers : DOMAIN mem[b] = Cuts[b]

\* A job is of a step that was submitted.
IsJob(job) ==
  job # NoJob => /\ job[1] \in 1..N /\ Submitted(job[1])
                 /\ job[2] \in DOMAIN Program[job[1]].steps
Jobs == IsJob(cb) /\ IsJob(running)

\* The words of a kernel run are those of a row that submitted something and
\* whose input survives its own fill.
Words ==
  \A b \in Buffers : \A lo \in Cuts[b] :
    mem[b][lo][1] = "out" =>
      \E i \in 1..N : Submitted(i) /\ ~Barren(i) /\ mem[b][lo] \in Vals(i)

\* After a reset only jobs of the experiment itself are queued or running.
Clean ==
  pc \in Stepping /\ Row.reset =>
    /\ running # NoJob => running[1] = exp
    /\ pending > 0 /\ cb # NoJob => cb[1] = exp

\* After a reset, only jobs of the rows from there on are queued or running.
Started(g) == g < exp \/ (g = exp /\ pc \in Stepping)
Since ==
  \A g \in 1..N : (g = 1 \/ Program[g].reset) /\ Started(g) =>
    /\ running # NoJob => running[1] >= g
    /\ pending > 0 /\ cb # NoJob => cb[1] >= g

\* A byte of the read-back says that the dispatch has not run.
Unshown(r, s) ==
  \E lo \in Cuts[s.chk[1]] :
    /\ InBytes(s.chk, lo)
    /\ IF r.any THEN mem[s.chk[1]][lo] = s.watch[4] ELSE mem[s.chk[1]][lo] # s.val

Awaited == pc \in {"submit", "wait", "check"} \/ (pc = "prepare" /\ fence > 1)
NotYet == Awaited /\ Row.verdict /\ S.chk # Nowhere /\ ~ran => Unshown(Row, S)

\* As long as a job of a barren row may still run, the fill stands where the
\* row's input should be.
Live(h) == \/ running # NoJob /\ running[1] = h
           \/ pending > 0 /\ cb # NoJob /\ cb[1] = h
           \/ exp = h /\ Awaited
FillStands(s) ==
  \A b \in Buffers : \A lo \in Cuts[b] :
    s.watch[1] = b /\ InBytes(s.watch, lo) /\ ~Overwrites(s, b, lo) => mem[b][lo] = s.watch[4]
Spoiled == \A h \in 1..N : Barren(h) /\ Live(h) => FillStands(StepAt(h, 1))

MatrixInv == Position /\ Shape /\ Jobs /\ Words /\ Clean /\ Since /\ Spoiled /\ NotYet

\* The rows and steps of the matrix.
LEMMA MatrixStep ==
  ASSUME NEW i \in 1..N, NEW j \in DOMAIN Program[i].steps
  PROVE  LET r == Program[i]
             s == r.steps[j]
         IN  /\ s.val[1] = "out" /\ s.watch[4][1] # "out" /\ s.watch[1] \in Buffers
             /\ DOMAIN s.cpu = 1..Len(s.cpu) /\ Len(s.cpu) \in Nat
             /\ \A k \in DOMAIN s.cpu : s.cpu[k][4][1] # "out"
             /\ s.chk = <<s.chk[1], s.chk[2], s.chk[3]>>
             /\ s.chk # Nowhere => s.chk[1] \in Buffers
             /\ s.val \in Vals(i)
BY MatrixAssumption DEF Vals

\* What a step that gives a verdict reads back.
LEMMA MatrixVerdict ==
  ASSUME NEW i \in 1..N, NEW j \in DOMAIN Program[i].steps,
         Program[i].steps[j].chk # Nowhere, Program[i].verdict
  PROVE  LET r == Program[i]
             s == r.steps[j]
         IN  /\ r.reset \/ i = 1 \/ (~r.any /\ Own(i, s))
             /\ \E lo \in Cuts[s.chk[1]] :
                  /\ InBytes(s.chk, lo)
                  /\ Erased(r, s, lo) \/ (~r.any /\ Len(r.steps) = 1 /\ Own(i, s))
BY MatrixAssumption

\* A write to memory, at each byte.
LEMMA PutAt ==
  ASSUME NEW m, DOMAIN m = Buffers, \A b \in Buffers : DOMAIN m[b] = Cuts[b],
         NEW w, w[1] \in Buffers
  PROVE  /\ DOMAIN Put(m, w) = Buffers
         /\ \A b \in Buffers :
              /\ DOMAIN Put(m, w)[b] = Cuts[b]
              /\ \A lo \in Cuts[b] :
                   Put(m, w)[b][lo] =
                     IF b = w[1] /\ w[2] <= lo /\ lo < w[3] THEN w[4] ELSE m[b][lo]
BY DEF Put

\* The CPU's writes, at each byte.
LEMMA PutAllAt ==
  ASSUME NEW m, NEW ws
  PROVE  /\ DOMAIN PutAll(m, ws) = Buffers
         /\ \A b \in Buffers :
              /\ DOMAIN PutAll(m, ws)[b] = Cuts[b]
              /\ \A lo \in Cuts[b] :
                   PutAll(m, ws)[b][lo] =
                     IF Covering(ws, b, lo) = {} THEN m[b][lo]
                     ELSE ws[Max(Covering(ws, b, lo))][4]
BY DEF PutAll

\* A nonempty set of natural numbers has a least element.
LEMMA LeastNat ==
  ASSUME NEW T \in SUBSET Nat, T # {}
  PROVE  \E x \in T : \A y \in T : x <= y
<1>1. PICK x \in T : \A y \in T : ~(<<y, x>> \in OpToRel(<, Nat))
  BY NatLessThanWellFounded, WFMin
<1>2. OpToRel(<, Nat) = {ss \in Nat \X Nat : ss[1] < ss[2]}
  BY Zenon DEF OpToRel
<1>3. ASSUME NEW a \in Nat, NEW y \in Nat, y < a
      PROVE  <<y, a>> \in {ss \in Nat \X Nat : ss[1] < ss[2]}
  BY <1>3
<1>4. \A y \in T : ~(y < x)
  BY <1>1, <1>2, <1>3
<1>5. QED
  BY <1>4

\* One below a bound has a greatest element.
LEMMA GreatestNat ==
  ASSUME NEW T \in SUBSET Nat, T # {}, NEW n \in Nat, \A x \in T : x <= n
  PROVE  \E x \in T : \A y \in T : y <= x
<1> DEFINE U == {n - x : x \in T}
<1>1. U \in SUBSET Nat /\ U # {}
  <2>1. \A x \in T : n - x \in Nat
    OBVIOUS
  <2>2. QED
    BY <2>1
<1>2. PICK u \in U : \A v \in U : u <= v
  BY <1>1, LeastNat
<1>3. PICK x \in T : u = n - x
  BY <1>2
<1>4. \A y \in T : n - x <= n - y
  BY <1>2, <1>3
<1>5. QED
  BY <1>4

\* Among the writes that cover a byte one is the last.
LEMMA LastWrite ==
  ASSUME NEW ws, NEW b, NEW lo, DOMAIN ws = 1..Len(ws), Len(ws) \in Nat,
         Covering(ws, b, lo) # {}
  PROVE  Max(Covering(ws, b, lo)) \in DOMAIN ws
<1>1. PICK ks : ks = Covering(ws, b, lo)
  OBVIOUS
<1>2. ks \in SUBSET (0..Len(ws)) /\ ks # {} /\ \A x \in ks : x \in DOMAIN ws
  BY <1>1 DEF Covering
<1>3. \E x \in ks : \A y \in ks : x >= y
  <2>1. ks \in SUBSET Nat /\ \A x \in ks : x <= Len(ws)
    BY <1>2
  <2>2. PICK x \in ks : \A y \in ks : y <= x
    BY <1>2, <2>1, GreatestNat
  <2>3. \A y \in ks : x >= y
    BY <2>1, <2>2
  <2>4. QED
    BY <2>3
<1>4. Max(ks) \in ks
  BY <1>3 DEF Max
<1>5. QED
  BY <1>1, <1>2, <1>4

\* What Prepare leaves at each byte.
LEMMA PreparedAt ==
  ASSUME MatrixInv, Prepare
  PROVE  /\ Shape'
         /\ \A b \in Buffers : \A lo \in Cuts[b] :
              mem'[b][lo] =
                IF b = S.watch[1] /\ InBytes(S.watch, lo) THEN S.watch[4]
                ELSE IF fence = 1 /\ Covering(S.cpu, b, lo) # {}
                     THEN S.cpu[Max(Covering(S.cpu, b, lo))][4]
                     ELSE mem[b][lo]
<1>1. exp \in 1..N /\ st \in DOMAIN Program[exp].steps /\ S = Program[exp].steps[st]
  BY DEF MatrixInv, Position, Prepare, Stepping, Row, S
<1>2. S.watch[1] \in Buffers
  BY <1>1, MatrixStep
<1>3. PICK m : m = IF fence = 1 THEN PutAll(mem, S.cpu) ELSE mem
  OBVIOUS
<1>4. mem' = Put(m, S.watch)
  BY <1>3 DEF Prepare, FillWatch
<1>5. /\ DOMAIN m = Buffers /\ \A b \in Buffers : DOMAIN m[b] = Cuts[b]
      /\ \A b \in Buffers : \A lo \in Cuts[b] :
           m[b][lo] = IF fence = 1 /\ Covering(S.cpu, b, lo) # {}
                      THEN S.cpu[Max(Covering(S.cpu, b, lo))][4] ELSE mem[b][lo]
  <2>1. CASE fence = 1
    BY <1>3, <2>1, PutAllAt
  <2>2. CASE fence # 1
    BY <1>3, <2>2 DEF MatrixInv, Shape
  <2>3. QED
    BY <2>1, <2>2
<1>6. PICK w : w = S.watch
  OBVIOUS
<1>7. /\ DOMAIN mem' = Buffers
      /\ \A b \in Buffers : DOMAIN mem'[b] = Cuts[b]
      /\ \A b \in Buffers : \A lo \in Cuts[b] :
              mem'[b][lo] = IF b = w[1] /\ w[2] <= lo /\ lo < w[3] THEN w[4] ELSE m[b][lo]
  BY <1>2, <1>4, <1>5, <1>6, PutAt
<1>8. QED
  BY <1>5, <1>6, <1>7 DEF Shape, InBytes

\* Prepare leaves no words of a kernel run but those that were there.
LEMMA PreparedWords ==
  ASSUME MatrixInv, Prepare, NEW b \in Buffers, NEW lo \in Cuts[b], mem'[b][lo][1] = "out"
  PROVE  mem'[b][lo] = mem[b][lo]
<1>1. exp \in 1..N /\ st \in DOMAIN Program[exp].steps /\ S = Program[exp].steps[st]
  BY DEF MatrixInv, Position, Prepare, Stepping, Row, S
<1>2. /\ S.watch[4][1] # "out" /\ DOMAIN S.cpu = 1..Len(S.cpu) /\ Len(S.cpu) \in Nat
      /\ \A k \in DOMAIN S.cpu : S.cpu[k][4][1] # "out"
  BY <1>1, MatrixStep
<1>3. Covering(S.cpu, b, lo) # {} => S.cpu[Max(Covering(S.cpu, b, lo))][4][1] # "out"
  BY <1>2, LastWrite
<1>4. QED
  BY <1>2, <1>3, PreparedAt

\* After Prepare a byte of the read-back is known not to show the result.
LEMMA PreparedNotYet ==
  ASSUME MatrixInv, Prepare
  PROVE  NotYet'
<1>1. /\ exp \in 1..N /\ st \in DOMAIN Program[exp].steps /\ S = Program[exp].steps[st]
      /\ Row = Program[exp] /\ fence \in Nat \ {0}
  BY DEF MatrixInv, Position, Prepare, Stepping, Row, S
<1>2. UNCHANGED <<exp, st, fence>> /\ Row' = Row /\ S' = S /\ ran' = (fence > 1 /\ ran)
  BY DEF Prepare, Row, S
<1> SUFFICES ASSUME Row.verdict, S.chk # Nowhere, ~(fence > 1 /\ ran)
             PROVE  Unshown(Row, S)'
  BY <1>2 DEF NotYet
<1>3. PICK r, s : r = Row /\ s = S
  OBVIOUS
<1>4. s.chk[1] \in Buffers /\ s.val[1] = "out" /\ s.watch[4][1] # "out"
  BY <1>1, <1>3, MatrixStep
<1> SUFFICES \E lo \in Cuts[s.chk[1]] :
               /\ InBytes(s.chk, lo)
               /\ IF r.any THEN mem'[s.chk[1]][lo] = s.watch[4]
                           ELSE mem'[s.chk[1]][lo] # s.val
  BY <1>2, <1>3 DEF Unshown
<1>5. CASE fence > 1
  <2>1. PICK lo \in Cuts[s.chk[1]] :
          /\ InBytes(s.chk, lo)
          /\ IF r.any THEN mem[s.chk[1]][lo] = s.watch[4] ELSE mem[s.chk[1]][lo] # s.val
    BY <1>3, <1>5 DEF MatrixInv, NotYet, Awaited, Prepare, Unshown
  <2>2. mem'[s.chk[1]][lo] = s.watch[4] \/ mem'[s.chk[1]][lo] = mem[s.chk[1]][lo]
    BY <1>3, <1>4, <1>5, PreparedAt
  <2>3. QED
    BY <1>4, <2>1, <2>2
<1>6. CASE fence = 1
  <2>1. PICK lo \in Cuts[s.chk[1]] :
          /\ InBytes(s.chk, lo)
          /\ Erased(r, s, lo) \/ (~r.any /\ Len(r.steps) = 1 /\ Own(exp, s))
    BY <1>1, <1>3, MatrixVerdict
  <2>2. CASE s.watch[1] = s.chk[1] /\ InBytes(s.watch, lo)
    <3>1. mem'[s.chk[1]][lo] = s.watch[4]
      BY <1>3, <1>4, <2>2, PreparedAt
    <3>2. QED
      BY <1>4, <2>1, <3>1
  <2>3. CASE ~r.any /\ Covering(s.cpu, s.chk[1], lo) # {}
    <3>1. mem'[s.chk[1]][lo][1] # "out"
      <4>1. /\ DOMAIN s.cpu = 1..Len(s.cpu) /\ Len(s.cpu) \in Nat
            /\ \A k \in DOMAIN s.cpu : s.cpu[k][4][1] # "out"
        BY <1>1, <1>3, MatrixStep
      <4>2. s.cpu[Max(Covering(s.cpu, s.chk[1], lo))][4][1] # "out"
        BY <2>3, <4>1, LastWrite
      <4>3. QED
        BY <1>3, <1>4, <1>6, <2>3, <4>2, PreparedAt
    <3>2. QED
      BY <1>4, <2>1, <2>3, <3>1
  <2>4. CASE ~r.any /\ Len(r.steps) = 1 /\ Own(exp, s)
    <3>1. mem'[s.chk[1]][lo] # s.val
      <4> SUFFICES ASSUME mem'[s.chk[1]][lo] = s.val PROVE FALSE
        OBVIOUS
      <4>1. mem[s.chk[1]][lo] = s.val /\ mem[s.chk[1]][lo][1] = "out"
        BY <1>4, PreparedWords
      <4>2. PICK i \in 1..N : Submitted(i) /\ ~Barren(i) /\ s.val \in Vals(i)
        BY <1>4, <4>1 DEF MatrixInv, Words
      <4>3. st = 1 /\ Fresh
        <5>1. DOMAIN Program[exp].steps = 1..Len(Program[exp].steps)
          BY <1>1, MatrixAssumption
        <5>2. Len(Program[exp].steps) = 1
          BY <1>1, <1>3, <2>4
        <5>3. st = 1
          BY <1>1, <5>1, <5>2
        <5>4. QED
          BY <1>6, <5>3 DEF Fresh, Prepare
      <4>4. i \in 1..(exp - 1)
        BY <1>1, <4>2, <4>3, MatrixAssumption DEF Submitted
      <4>5. QED
        BY <2>4, <4>2, <4>4 DEF Own
    <3>2. QED
      BY <2>1, <2>4, <3>1
  <2>5. QED
    BY <2>1, <2>2, <2>3, <2>4 DEF Erased
<1>7. QED
  BY <1>1, <1>5, <1>6

\* Where the host is after a step.
LEMMA PositionStep ==
  ASSUME MatrixInv, [Next]_vars
  PROVE  Position'
<1> USE DEF MatrixInv, Position, Stepping, Row
<1>1. CASE UNCHANGED vars
  BY <1>1 DEF vars, gpu
<1>2. CASE Boot \/ m0_ctx_alloc_buffers \/ NothingLeft \/ m0_ctx_free_buffers
  <2>1. /\ UNCHANGED <<exp, fence>> /\ pending' \in {0, pending}
        /\ pc' \notin {"prepare", "submit", "wait", "check", "report"}
    BY <1>2 DEF Boot, m0_ctx_alloc_buffers, NothingLeft, m0_ctx_free_buffers, pai_gc_init,
       pai_gc_shutdown, gpu
  <2>2. QED
    BY <2>1
<1>3. CASE Begin
  <2>1. fence' = 1 /\ st' = 1 /\ exp \in 1..N /\ pending' \in {0, pending}
    BY <1>3, MatrixAssumption DEF Begin, gpu, pai_gc_reset
  <2>2. CASE pc' = "begin" /\ exp' = exp + 1
    BY <2>1, <2>2
  <2>3. CASE pc' = "prepare" /\ exp' = exp
    <3>1. 1 \in DOMAIN Program[exp].steps
      BY <2>1, MatrixAssumption
    <3>2. QED
      BY <2>1, <2>3, <3>1
  <2>4. QED
    BY <1>3, <2>2, <2>3 DEF Begin
<1>4. CASE Unavailable \/ Prepare \/ Observed
  <2>1. UNCHANGED <<exp, st, fence, pending>> /\ pc \in Stepping
    BY <1>4 DEF Unavailable, Prepare, Observed, gpu
  <2>2. QED
    BY <2>1
<1>5. CASE Submit
  <2>1. UNCHANGED <<exp, st>> /\ pc = "submit" /\ pending' \in {pending, pending + 1}
        /\ fence' \in {fence, fence + 1}
    BY <1>5 DEF Submit, NextFence, pai_gc_submit
  <2>2. QED
    BY <2>1
<1>6. CASE TimedOut
  <2>1. UNCHANGED <<exp, st, pending>> /\ pc = "wait" /\ fence' \in {fence, fence + 1}
    BY <1>6 DEF TimedOut, NextFence, gpu
  <2>2. QED
    BY <2>1
<1>7. CASE Check
  <2>1. UNCHANGED <<exp, pending>> /\ pc = "check"
    BY <1>7 DEF Check, gpu
  <2>2. exp \in 1..N /\ st \in 1..Len(Program[exp].steps)
        /\ DOMAIN Program[exp].steps = 1..Len(Program[exp].steps)
        /\ Len(Program[exp].steps) \in Nat
    BY <2>1, MatrixAssumption
  <2>3. CASE UNCHANGED <<st, fence>>
    BY <2>1, <2>2, <2>3
  <2>4. CASE st' = st + 1 /\ fence' = 1 /\ st # Len(Program[exp].steps)
    BY <2>1, <2>2, <2>4
  <2>5. QED
    BY <1>7, <2>3, <2>4 DEF Check, Ends
<1>8. CASE Report
  <2>1. exp' = exp + 1 /\ UNCHANGED <<fence, pending>> /\ pc' \in {"out", "begin"}
    BY <1>8 DEF Report, gpu
  <2>2. QED
    BY <2>1
<1>9. CASE GpuFetch \/ GpuComplete \/ GpuWedge
  <2>1. /\ UNCHANGED <<pc, exp, st, fence>>
        /\ pending' \in {0, pending} \/ (pending > 0 /\ pending' = pending - 1)
    BY <1>9 DEF GpuFetch, GpuComplete, GpuWedge
  <2>2. QED
    BY <2>1
<1>10. QED
  BY <1>1, <1>2, <1>3, <1>4, <1>5, <1>6, <1>7, <1>8, <1>9 DEF Next, Host, Gpu

\* A row that has submitted something stays one.
LEMMA SubmittedStays ==
  ASSUME MatrixInv, [Next]_vars
  PROVE  \A i \in 1..N : Submitted(i) => Submitted(i)'
<1>1. exp \in Nat /\ fence \in Nat \ {0} /\ (pc \in Stepping => st \in Nat \ {0})
  BY MatrixAssumption DEF MatrixInv, Position, Row
<1>2. exp' \in {exp, exp + 1} /\ (exp' = exp /\ Fresh' => Fresh)
  <2>1. CASE UNCHANGED vars
    BY <2>1 DEF vars, Fresh
  <2>2. CASE Boot \/ m0_ctx_alloc_buffers \/ NothingLeft \/ m0_ctx_free_buffers
    <3>1. UNCHANGED <<exp, st, fence>>
          /\ pc \notin Stepping
      BY <2>2 DEF Boot, m0_ctx_alloc_buffers, NothingLeft, m0_ctx_free_buffers, Stepping
    <3>2. QED
      BY <3>1 DEF Fresh
  <2>3. CASE Begin
    BY <2>3 DEF Begin, Fresh, Stepping
  <2>4. CASE Unavailable \/ Prepare \/ Observed
    <3>1. exp' = exp /\ pc' \in {"submit", "check", "report"}
      BY <2>4 DEF Unavailable, Prepare, Observed
    <3>2. QED
      BY <3>1 DEF Fresh, Stepping
  <2>5. CASE Submit \/ TimedOut
    <3>1. exp' = exp /\ (pc' \in {"wait", "check"} \/ (fence' = fence + 1 /\ pc' = "prepare"))
      BY <2>5 DEF Submit, TimedOut, NextFence
    <3>2. QED
      BY <1>1, <3>1 DEF Fresh, Stepping
  <2>6. CASE Check
    <3>1. exp' = exp /\ pc = "check" /\ (pc' = "report" \/ (st' = st + 1 /\ pc' = "prepare"))
      BY <2>6 DEF Check
    <3>2. QED
      BY <1>1, <3>1 DEF Fresh, Stepping
  <2>7. CASE Report
    <3>1. exp' = exp + 1
      BY <2>7 DEF Report
    <3>2. QED
      BY <1>1, <3>1
  <2>8. CASE GpuFetch \/ GpuComplete \/ GpuWedge
    <3>1. UNCHANGED <<pc, exp, st, fence>>
      BY <2>8 DEF GpuFetch, GpuComplete, GpuWedge
    <3>2. QED
      BY <3>1 DEF Fresh
  <2>9. QED
    BY <2>1, <2>2, <2>3, <2>4, <2>5, <2>6, <2>7, <2>8 DEF Next, Host, Gpu
<1>3. QED
  BY <1>1, <1>2, MatrixAssumption DEF Submitted

\* The GPU and the command buffer hold jobs of submitted steps.
LEMMA JobsStep ==
  ASSUME MatrixInv, [Next]_vars
  PROVE  Jobs'
<1>1. \A job : IsJob(job) => (job # NoJob => /\ job[1] \in 1..N /\ Submitted(job[1])'
                                            /\ job[2] \in DOMAIN Program[job[1]].steps)
  BY SubmittedStays DEF IsJob
<1>2. CASE cb' = cb /\ running' \in {running, cb, NoJob}
  BY <1>1, <1>2 DEF MatrixInv, Jobs, IsJob
<1>3. CASE Submit
  <2>1. cb' = <<exp, st, fence>> /\ running' = running /\ exp' = exp /\ pc = "submit"
    BY <1>3 DEF Submit, pai_gc_submit_stream, LabelValue
  <2>2. exp \in 1..N /\ st \in DOMAIN Program[exp].steps
    BY <2>1 DEF MatrixInv, Position, Stepping, Row
  <2>3. Submitted(exp)'
    <3>1. Submitted(exp)
      BY <2>1 DEF Submitted, Fresh, Stepping
    <3>2. QED
      BY <2>1, <2>2, <3>1, SubmittedStays
  <2>4. QED
    BY <1>1, <2>1, <2>2, <2>3 DEF MatrixInv, Jobs, IsJob
<1>4. CASE ~Submit
  <2>1. cb' = cb /\ running' \in {running, cb, NoJob}
    BY <1>4 DEF Next, Host, Gpu, vars, gpu, Boot, m0_ctx_alloc_buffers, Begin, Unavailable,
       Prepare, Observed, Check, Report, NothingLeft, m0_ctx_free_buffers, TimedOut, GpuFetch,
       GpuComplete, GpuWedge, pai_gc_init, pai_gc_reset, pai_gc_shutdown
  <2>2. QED
    BY <1>2, <2>1
<1>5. QED
  BY <1>3, <1>4

\* Four fields of a write.
LEMMA AppendFour ==
  ASSUME NEW a, NEW b, NEW c, NEW v
  PROVE  LET w == Append(<<a, b, c>>, v) IN w[1] = a /\ w[2] = b /\ w[3] = c /\ w[4] = v
OBVIOUS

\* Junk is no kernel's result.
LEMMA JunkWord == Junk[1] # "out"
BY DEF Junk

\* A job of a barren row does not find its input.
LEMMA BarrenFails ==
  ASSUME MatrixInv, NEW i \in 1..N, NEW j \in DOMAIN Program[i].steps, Barren(i),
         running # NoJob, running[1] = i
  PROVE  ~Works(Program[i].steps[j])
<1>1. j = 1
  <2>1. DOMAIN Program[i].steps = 1..Len(Program[i].steps) /\ Len(Program[i].steps) = 1
    BY MatrixAssumption DEF Barren
  <2>2. QED
    BY <2>1
<1>2. PICK s : s = StepAt(i, 1)
  OBVIOUS
<1>3. Spoils(s) /\ FillStands(s)
  <2>1. Spoils(s)
    BY <1>2 DEF Barren
  <2>2. Live(i)
    BY DEF Live
  <2>3. QED
    BY <1>2, <2>1, <2>2 DEF MatrixInv, Spoiled
<1>4. PICK w \in Needs(s) : w[1] \in Buffers /\ \E lo \in Cuts[w[1]] :
        /\ InBytes(w, lo) /\ s.watch[1] = w[1] /\ InBytes(s.watch, lo)
        /\ s.watch[4] # w[4] /\ ~Overwrites(s, w[1], lo)
  BY <1>3 DEF Spoils
<1>5. PICK lo \in Cuts[w[1]] :
        /\ InBytes(w, lo) /\ s.watch[1] = w[1] /\ InBytes(s.watch, lo)
        /\ s.watch[4] # w[4] /\ ~Overwrites(s, w[1], lo)
  BY <1>4
<1>6. /\ mem[w[1]][lo] # w[4]
      /\ lo \in DOMAIN mem[w[1]] /\ w[2] <= lo /\ lo < w[3]
  <2>1. mem[w[1]][lo] # w[4]
    BY <1>3, <1>4, <1>5 DEF FillStands
  <2>2. QED
    BY <1>4, <1>5, <2>1 DEF MatrixInv, Shape, InBytes
<1>7. ~Holds(mem, w)
  BY <1>6 DEF Holds
<1>8. s = Program[i].steps[j]
  BY <1>1, <1>2 DEF StepAt
<1>9. QED
  BY <1>4, <1>7, <1>8 DEF Works

\* What a completed job leaves at each byte.
LEMMA CompletedAt ==
  ASSUME MatrixInv, GpuComplete
  PROVE  /\ Shape'
         /\ running[1] \in 1..N /\ Submitted(running[1])
         /\ \A b \in Buffers : \A lo \in Cuts[b] :
              \/ mem'[b][lo] = mem[b][lo]
              \/ mem'[b][lo] = Junk
              \/ mem'[b][lo] \in Vals(running[1]) /\ ~Barren(running[1])
<1>1. PICK i, j : i = running[1] /\ j = running[2]
  OBVIOUS
<1>2. i \in 1..N /\ Submitted(i) /\ j \in DOMAIN Program[i].steps
  BY <1>1 DEF MatrixInv, Jobs, IsJob, GpuComplete
<1>3. PICK s : s = Program[i].steps[j]
  OBVIOUS
<1>4. PICK v : /\ mem' = Put(mem, Append(Lasts(s), v))
               /\ v = Junk \/ (v = s.val /\ ~Barren(i))
  <2>1. StepOf(running) = s
    BY <1>1, <1>3 DEF StepOf
  <2>2. CASE Barren(i)
    <3>1. ~Works(s)
      BY <1>1, <1>2, <1>3, <2>2, BarrenFails DEF GpuComplete
    <3>2. mem' = Put(mem, Append(Lasts(s), Junk))
      BY <2>1, <3>1 DEF GpuComplete
    <3>3. QED
      BY <3>2
  <2>3. CASE ~Barren(i)
    BY <2>1, <2>3 DEF GpuComplete
  <2>4. QED
    BY <2>2, <2>3
<1>5. s.val \in Vals(i)
  BY <1>2, <1>3, MatrixStep
<1>6. PICK a, b, c : Lasts(s) = <<a, b, c>> /\ a \in Buffers
  <2>1. s.watch[1] \in Buffers /\ s.chk = <<s.chk[1], s.chk[2], s.chk[3]>>
        /\ (s.chk # Nowhere => s.chk[1] \in Buffers)
    BY <1>2, <1>3, MatrixStep
  <2>2. QED
    BY <2>1 DEF Lasts, Bytes
<1>7. PICK w : w = Append(<<a, b, c>>, v)
  OBVIOUS
<1>8. w[1] \in Buffers /\ w[4] = v
  BY <1>6, <1>7, AppendFour
<1>9. mem' = Put(mem, w)
  BY <1>4, <1>6, <1>7
<1>10. DOMAIN mem = Buffers /\ \A d \in Buffers : DOMAIN mem[d] = Cuts[d]
  BY DEF MatrixInv, Shape
<1>11. /\ DOMAIN mem' = Buffers
       /\ \A d \in Buffers :
            /\ DOMAIN mem'[d] = Cuts[d]
            /\ \A lo \in Cuts[d] : mem'[d][lo] = mem[d][lo] \/ mem'[d][lo] = v
  BY <1>8, <1>9, <1>10, PutAt
<1>12. QED
  BY <1>1, <1>2, <1>4, <1>5, <1>11 DEF Shape

\* Only Prepare and the GPU write memory.
LEMMA MemKept ==
  ASSUME [Next]_vars, ~Prepare, ~GpuComplete
  PROVE  mem' = mem
BY DEF Next, Host, Gpu, vars, Boot, m0_ctx_alloc_buffers, Begin, Unavailable, Submit, Observed,
   Check, Report, NothingLeft, m0_ctx_free_buffers, TimedOut, GpuFetch, GpuWedge

\* The words in memory are those of submitted rows.
LEMMA WordsStep ==
  ASSUME MatrixInv, [Next]_vars
  PROVE  Shape' /\ Words'
<1>1. ASSUME NEW b \in Buffers, NEW lo \in Cuts[b], mem'[b][lo] = mem[b][lo],
             mem'[b][lo][1] = "out"
      PROVE  \E i \in 1..N : Submitted(i)' /\ ~Barren(i) /\ mem'[b][lo] \in Vals(i)
  BY <1>1, SubmittedStays DEF MatrixInv, Words
<1>2. CASE Prepare
  <2>1. Shape'
    BY <1>2, PreparedAt
  <2>2. \A b \in Buffers : \A lo \in Cuts[b] :
          mem'[b][lo][1] = "out" => mem'[b][lo] = mem[b][lo]
    BY <1>2, PreparedWords
  <2>3. QED
    BY <1>1, <2>1, <2>2 DEF Words
<1>3. CASE GpuComplete
  <2>1. PICK h : h = running[1]
    OBVIOUS
  <2>2. Shape' /\ h \in 1..N /\ Submitted(h)'
    BY <1>3, <2>1, CompletedAt, SubmittedStays
  <2>3. ASSUME NEW b \in Buffers, NEW lo \in Cuts[b], mem'[b][lo][1] = "out"
        PROVE  \E i \in 1..N : Submitted(i)' /\ ~Barren(i) /\ mem'[b][lo] \in Vals(i)
    <3>1. mem'[b][lo] # Junk
      BY <2>3, JunkWord
    <3>2. CASE mem'[b][lo] = mem[b][lo]
      BY <1>1, <2>3, <3>2
    <3>3. CASE mem'[b][lo] \in Vals(h) /\ ~Barren(h)
      BY <2>2, <3>3
    <3>4. QED
      BY <1>3, <2>1, <3>1, <3>2, <3>3, CompletedAt
  <2>4. QED
    BY <2>3, <2>2 DEF Words
<1>4. CASE ~Prepare /\ ~GpuComplete
  <2>1. mem' = mem
    BY <1>4, MemKept
  <2>2. QED
    BY <1>1, <2>1 DEF MatrixInv, Shape, Words
<1>5. QED
  BY <1>2, <1>3, <1>4

\* Only jobs of the experiment are about after its reset.
LEMMA CleanStep ==
  ASSUME MatrixInv, [Next]_vars
  PROVE  Clean'
<1>1. pending \in Nat /\ Clean
  BY DEF MatrixInv, Position
<1>2. CASE UNCHANGED vars
  BY <1>1, <1>2 DEF vars, gpu, Clean, Row
<1>3. CASE pc' \notin Stepping
  BY <1>3 DEF Clean
<1>4. CASE Begin
  <2>1. CASE pc' = "begin"
    BY <1>3, <2>1 DEF Stepping
  <2>2. CASE pc' = "prepare" /\ exp' = exp /\ Row.reset
    <3>1. running' = NoJob /\ pending' = 0
      BY <1>4, <2>2 DEF Begin, pai_gc_reset
    <3>2. QED
      BY <3>1 DEF Clean
  <2>3. CASE pc' = "prepare" /\ exp' = exp /\ ~Row.reset
    BY <2>3 DEF Clean, Row
  <2>4. QED
    BY <1>4, <2>1, <2>2, <2>3 DEF Begin
<1>5. CASE Boot \/ m0_ctx_alloc_buffers \/ NothingLeft \/ m0_ctx_free_buffers \/ Report
  <2>1. pc' \notin Stepping
    BY <1>5 DEF Boot, m0_ctx_alloc_buffers, NothingLeft, m0_ctx_free_buffers, Report, Stepping
  <2>2. QED
    BY <1>3, <2>1
<1>6. CASE Unavailable \/ Prepare \/ Observed \/ TimedOut \/ Check
  <2>1. UNCHANGED <<exp, cb, pending, running>> /\ pc \in Stepping
    BY <1>6 DEF Unavailable, Prepare, Observed, TimedOut, Check, gpu, Stepping
  <2>2. QED
    BY <1>1, <2>1 DEF Clean, Row
<1>7. CASE Submit
  <2>1. cb' = <<exp, st, fence>> /\ UNCHANGED <<running, exp>> /\ pc \in Stepping
    BY <1>7 DEF Submit, pai_gc_submit_stream, LabelValue, Stepping
  <2>2. QED
    BY <1>1, <2>1 DEF Clean, Row
<1>8. CASE GpuFetch
  <2>1. UNCHANGED <<pc, exp, cb>> /\ running' = cb /\ pending > 0 /\ pending' = pending - 1
    BY <1>8 DEF GpuFetch
  <2>2. QED
    BY <1>1, <2>1 DEF Clean, Row
<1>9. CASE GpuComplete \/ GpuWedge
  <2>1. UNCHANGED <<pc, exp, cb>> /\ running' = NoJob /\ pending' \in {0, pending}
    BY <1>9 DEF GpuComplete, GpuWedge
  <2>2. QED
    BY <1>1, <2>1 DEF Clean, Row
<1>10. QED
  BY <1>2, <1>4, <1>5, <1>6, <1>7, <1>8, <1>9 DEF Next, Host, Gpu

\* A row with a reset is not skipped.
LEMMA ResetRuns ==
  ASSUME exp \in 1..N, Row.reset
  PROVE  ~Skipped
BY SupplyAssumption DEF Skipped, Row

\* Only jobs of the rows since a reset are about.
LEMMA SinceStep ==
  ASSUME MatrixInv, [Next]_vars
  PROVE  Since'
<1>1. exp \in Nat \ {0} /\ pending \in Nat /\ (pc \in Stepping => exp \in 1..N)
  BY DEF MatrixInv, Position
<1> SUFFICES ASSUME NEW g \in 1..N, g = 1 \/ Program[g].reset, Started(g)'
             PROVE  /\ running' # NoJob => running'[1] >= g
                    /\ pending' > 0 /\ cb' # NoJob => cb'[1] >= g
  BY DEF Since
<1>2. Started(g) => /\ running # NoJob => running[1] >= g
                    /\ pending > 0 /\ cb # NoJob => cb[1] >= g
  BY DEF MatrixInv, Since
<1>3. g \in Nat
  BY MatrixAssumption
<1>4. CASE UNCHANGED vars
  BY <1>2, <1>4 DEF vars, gpu, Started
<1>5. CASE Boot \/ m0_ctx_alloc_buffers \/ NothingLeft \/ m0_ctx_free_buffers
  <2>1. /\ UNCHANGED exp /\ pc' \notin Stepping
        /\ UNCHANGED <<cb, pending, running>> \/ (pending' = 0 /\ running' = NoJob)
    BY <1>5 DEF Boot, m0_ctx_alloc_buffers, NothingLeft, m0_ctx_free_buffers, pai_gc_init,
       pai_gc_shutdown, gpu, Stepping
  <2>2. Started(g)
    BY <2>1 DEF Started
  <2>3. QED
    BY <1>2, <2>1, <2>2
<1>6. CASE Begin
  <2>1. exp \in 1..N
    BY <1>1, <1>6, MatrixAssumption DEF Begin
  <2>2. CASE Skipped
    <3>1. UNCHANGED <<cb, pending, running, pc>> /\ exp' = exp + 1 /\ pc = "begin"
      BY <1>6, <2>2 DEF Begin, gpu
    <3>2. g <= exp
      BY <1>3, <2>1, <3>1 DEF Started, Stepping
    <3>3. CASE g < exp
      BY <1>2, <3>1, <3>3 DEF Started
    <3>4. CASE g = exp
      <4>1. g = 1
        BY <2>1, <2>2, <3>4, ResetRuns DEF Row
      <4>2. QED
        BY <3>1, <4>1 DEF MatrixInv, Jobs, IsJob
    <3>5. QED
      BY <1>3, <2>1, <3>2, <3>3, <3>4
  <2>3. CASE ~Skipped /\ Row.reset
    <3>1. running' = NoJob /\ pending' = 0
      BY <1>6, <2>3 DEF Begin, pai_gc_reset
    <3>2. QED
      BY <3>1
  <2>4. CASE ~Skipped /\ ~Row.reset
    <3>1. UNCHANGED <<cb, pending, running, exp>>
      BY <1>6, <2>4 DEF Begin, gpu
    <3>2. CASE g < exp
      BY <1>2, <3>1, <3>2 DEF Started
    <3>3. CASE g = exp
      <4>1. g = 1
        BY <2>4, <3>3 DEF Row
      <4>2. QED
        BY <3>1, <4>1 DEF MatrixInv, Jobs, IsJob
    <3>4. QED
      BY <3>1, <3>2, <3>3 DEF Started
  <2>5. QED
    BY <2>2, <2>3, <2>4
<1>7. CASE Unavailable \/ Prepare \/ Observed \/ TimedOut \/ Check
  <2>1. UNCHANGED <<exp, cb, pending, running>> /\ pc \in Stepping
    BY <1>7 DEF Unavailable, Prepare, Observed, TimedOut, Check, gpu, Stepping
  <2>2. QED
    BY <1>2, <2>1 DEF Started
<1>8. CASE Submit
  <2>1. cb' = <<exp, st, fence>> /\ UNCHANGED <<running, exp>> /\ pc \in Stepping
    BY <1>8 DEF Submit, pai_gc_submit_stream, LabelValue, Stepping
  <2>2. g <= exp /\ Started(g)
    BY <1>1, <1>3, <2>1 DEF Started
  <2>3. QED
    BY <1>1, <1>2, <1>3, <2>1, <2>2
<1>9. CASE Report
  <2>1. exp' = exp + 1 /\ UNCHANGED <<cb, pending, running>> /\ pc' \notin Stepping
        /\ pc \in Stepping
    BY <1>9 DEF Report, gpu, Stepping
  <2>2. Started(g)
    BY <1>1, <1>3, <2>1 DEF Started
  <2>3. QED
    BY <1>2, <2>1, <2>2
<1>10. CASE GpuFetch
  <2>1. UNCHANGED <<pc, exp, cb>> /\ running' = cb /\ pending > 0 /\ pending' = pending - 1
    BY <1>10 DEF GpuFetch
  <2>2. QED
    BY <1>1, <1>2, <2>1 DEF Started
<1>11. CASE GpuComplete \/ GpuWedge
  <2>1. UNCHANGED <<pc, exp, cb>> /\ running' = NoJob /\ pending' \in {0, pending}
    BY <1>11 DEF GpuComplete, GpuWedge
  <2>2. QED
    BY <1>1, <1>2, <2>1 DEF Started
<1>12. QED
  BY <1>4, <1>5, <1>6, <1>7, <1>8, <1>9, <1>10, <1>11 DEF Next, Host, Gpu

\* What the dispatch of a step overwrites, at each byte.
LEMMA CompletedBytes ==
  ASSUME MatrixInv, GpuComplete, NEW b \in Buffers, NEW lo \in Cuts[b],
         ~Overwrites(StepOf(running), b, lo)
  PROVE  mem'[b][lo] = mem[b][lo]
<1>1. PICK i, j : i = running[1] /\ j = running[2]
  OBVIOUS
<1>2. i \in 1..N /\ j \in DOMAIN Program[i].steps
  BY <1>1 DEF MatrixInv, Jobs, IsJob, GpuComplete
<1>3. PICK s : s = StepOf(running)
  OBVIOUS
<1>4. PICK v : mem' = Put(mem, Append(Lasts(s), v))
  BY <1>3 DEF GpuComplete
<1>5. PICK a, c, d : Lasts(s) = <<a, c, d>> /\ a \in Buffers
  <2>1. s = Program[i].steps[j]
    BY <1>1, <1>3 DEF StepOf
  <2>2. s.watch[1] \in Buffers /\ s.chk = <<s.chk[1], s.chk[2], s.chk[3]>>
        /\ (s.chk # Nowhere => s.chk[1] \in Buffers)
    BY <1>2, <2>1, MatrixStep
  <2>3. QED
    BY <2>2 DEF Lasts, Bytes
<1>6. PICK w : w = Append(<<a, c, d>>, v)
  OBVIOUS
<1>7. w[1] = a /\ w[2] = c /\ w[3] = d
  BY <1>6, AppendFour
<1>8. mem' = Put(mem, w)
  BY <1>4, <1>5, <1>6
<1>9. DOMAIN mem = Buffers /\ \A x \in Buffers : DOMAIN mem[x] = Cuts[x]
  BY DEF MatrixInv, Shape
<1>10. mem'[b][lo] = IF b = a /\ c <= lo /\ lo < d THEN w[4] ELSE mem[b][lo]
  BY <1>5, <1>7, <1>8, <1>9, PutAt
<1>11. ~(b = a /\ c <= lo /\ lo < d)
  BY <1>3, <1>5 DEF Overwrites, InBytes
<1>12. QED
  BY <1>10, <1>11

\* A job that may still run when another completes, or when another row is
\* prepared, is not one of a row between two resets.
LEMMA BarrenAlone ==
  ASSUME MatrixInv, NEW h \in 1..N, Barren(h), Live(h), NEW e \in 1..N, Submitted(e),
         (running # NoJob /\ running[1] = e) \/ (exp = e /\ pc \in Stepping)
  PROVE  h = e
<1>1. exp \in Nat \ {0} /\ (pc \in Stepping => exp \in 1..N)
  BY DEF MatrixInv, Position
<1>2. h \in Nat /\ e \in Nat /\ N \in Nat /\ h <= N /\ e <= N
  BY MatrixAssumption
<1>3. Program[h].reset /\ (h < N => Program[h + 1].reset)
  BY DEF Barren
<1>4. Submitted(h)
  <2>1. CASE exp = h /\ Awaited
    BY <1>1, <2>1 DEF Awaited, Submitted, Fresh, Stepping, MatrixInv, Position
  <2>2. CASE ~(exp = h /\ Awaited)
    BY <2>2 DEF Live, MatrixInv, Jobs, IsJob
  <2>3. QED
    BY <2>1, <2>2
<1>5. Started(h)
  BY <1>4 DEF Submitted, Fresh, Started
<1>6. ~(e < h)
  <2>1. CASE running # NoJob /\ running[1] = e
    BY <1>2, <1>3, <1>5, <2>1 DEF MatrixInv, Since
  <2>2. CASE exp = e /\ pc \in Stepping
    BY <1>1, <1>2, <1>4, <2>2 DEF Submitted
  <2>3. QED
    BY <2>1, <2>2
<1>7. ~(h < e)
  <2> SUFFICES ASSUME h < e PROVE FALSE
    OBVIOUS
  <2>1. PICK g : g = h + 1
    OBVIOUS
  <2>2. g \in 1..N /\ g <= e /\ Program[g].reset /\ h < g
    BY <1>2, <1>3, <2>1
  <2>3. Started(g)
    BY <1>1, <1>2, <2>1, <2>2 DEF Submitted, Fresh, Started
  <2>4. /\ running # NoJob => running[1] >= g
        /\ pending > 0 /\ cb # NoJob => cb[1] >= g
    BY <2>2, <2>3 DEF MatrixInv, Since
  <2>5. exp # h
    BY <1>1, <1>2, <2>1, <2>2 DEF Submitted
  <2>6. QED
    BY <1>2, <2>1, <2>4, <2>5 DEF Live
<1>8. QED
  BY <1>2, <1>6, <1>7

\* A job comes about by the preparation of its row.
LEMMA LiveStep ==
  ASSUME MatrixInv, [Next]_vars, ~Prepare, NEW h \in 1..N, Live(h)'
  PROVE  Live(h)
<1>1. pending \in Nat
  BY DEF MatrixInv, Position
<1>2. CASE UNCHANGED vars
  BY <1>2 DEF vars, gpu, Live, Awaited
<1>3. CASE Boot \/ m0_ctx_alloc_buffers \/ NothingLeft \/ m0_ctx_free_buffers \/ Report
           \/ Unavailable
  <2>1. /\ pc' \notin {"prepare", "submit", "wait", "check"}
        /\ UNCHANGED <<cb, pending, running>> \/ (pending' = 0 /\ running' = NoJob)
    BY <1>3 DEF Boot, m0_ctx_alloc_buffers, NothingLeft, m0_ctx_free_buffers, Report,
       Unavailable, pai_gc_init, pai_gc_shutdown, gpu
  <2>2. QED
    BY <2>1 DEF Live, Awaited
<1>4. CASE Begin \/ Check
  <2>1. /\ pc' \in {"begin", "report"} \/ (pc' = "prepare" /\ fence' = 1)
        /\ UNCHANGED <<cb, pending, running>> \/ (pending' = 0 /\ running' = NoJob)
    BY <1>4 DEF Begin, Check, gpu, pai_gc_reset
  <2>2. QED
    BY <2>1 DEF Live, Awaited
<1>5. CASE Submit
  <2>1. pc = "submit" /\ cb' = <<exp, st, fence>> /\ UNCHANGED <<exp, running>>
    BY <1>5 DEF Submit, pai_gc_submit_stream, LabelValue
  <2>2. QED
    BY <2>1 DEF Live, Awaited
<1>6. CASE Observed \/ TimedOut
  <2>1. pc = "wait" /\ UNCHANGED <<exp, cb, pending, running>>
    BY <1>6 DEF Observed, TimedOut, gpu
  <2>2. QED
    BY <2>1 DEF Live, Awaited
<1>7. CASE GpuFetch \/ GpuComplete \/ GpuWedge
  <2>1. /\ UNCHANGED <<pc, exp, fence, cb>> /\ running' \in {NoJob, cb}
        /\ running' = NoJob \/ pending > 0
        /\ pending' \in {0, pending} \/ pending > 0
    BY <1>7 DEF GpuFetch, GpuComplete, GpuWedge
  <2>2. QED
    BY <1>1, <2>1 DEF Live, Awaited
<1>8. QED
  BY <1>2, <1>3, <1>4, <1>5, <1>6, <1>7 DEF Next, Host, Gpu

\* The fill of a barren row stands as long as a job of it may run.
LEMMA SpoiledStep ==
  ASSUME MatrixInv, [Next]_vars
  PROVE  Spoiled'
<1> SUFFICES ASSUME NEW h \in 1..N, Barren(h), Live(h)'
             PROVE  FillStands(StepAt(h, 1))'
  BY DEF Spoiled
<1>1. PICK s : s = StepAt(h, 1)
  OBVIOUS
<1> SUFFICES ASSUME NEW b \in Buffers, NEW lo \in Cuts[b],
                    s.watch[1] = b, InBytes(s.watch, lo), ~Overwrites(s, b, lo)
             PROVE  mem'[b][lo] = s.watch[4]
  BY <1>1 DEF FillStands
<1>2. Live(h) => mem[b][lo] = s.watch[4]
  BY <1>1 DEF MatrixInv, Spoiled, FillStands
<1>3. DOMAIN Program[h].steps = 1..1
  BY MatrixAssumption DEF Barren
<1>4. CASE Prepare
  <2>1. /\ exp \in 1..N /\ st \in DOMAIN Program[exp].steps /\ S = StepAt(exp, st)
        /\ pc = "prepare" /\ pc \in Stepping /\ UNCHANGED <<exp, cb, pending, running>>
    BY <1>4 DEF MatrixInv, Position, Prepare, Stepping, Row, S, StepAt
  <2>2. h = exp
    <3> SUFFICES ASSUME h # exp PROVE FALSE
      OBVIOUS
    <3>1. Live(h)
      BY <2>1 DEF Live
    <3>2. (running # NoJob /\ running[1] = h) \/ (pending > 0 /\ cb # NoJob /\ cb[1] = h)
      BY <3>1 DEF Live
    <3>3. Submitted(h)
      BY <3>2 DEF MatrixInv, Jobs, IsJob
    <3>4. h < exp /\ h \in Nat /\ exp \in Nat /\ N \in Nat /\ exp <= N
      BY <2>1, <3>3, MatrixAssumption DEF Submitted
    <3>5. PICK g : g = h + 1
      OBVIOUS
    <3>6. g \in 1..N /\ g <= exp /\ Program[g].reset /\ h < g
      BY <3>4, <3>5 DEF Barren
    <3>7. Started(g)
      BY <2>1, <3>4, <3>5, <3>6 DEF Started
    <3>8. /\ running # NoJob => running[1] >= g
          /\ pending > 0 /\ cb # NoJob => cb[1] >= g
      BY <3>6, <3>7 DEF MatrixInv, Since
    <3>9. QED
      BY <3>2, <3>4, <3>5, <3>8
  <2>3. S = s
    BY <1>1, <1>3, <2>1, <2>2
  <2>4. QED
    BY <1>4, <2>3, PreparedAt
<1>5. CASE GpuComplete
  <2>1. Live(h)
    BY <1>5, LiveStep DEF GpuComplete, Prepare
  <2>2. PICK e, f : e = running[1] /\ f = running[2]
    OBVIOUS
  <2>3. e \in 1..N /\ Submitted(e) /\ f \in DOMAIN Program[e].steps /\ running # NoJob
    BY <1>5, <2>2 DEF MatrixInv, Jobs, IsJob, GpuComplete
  <2>4. h = e
    BY <2>1, <2>2, <2>3, BarrenAlone
  <2>5. StepOf(running) = s
    BY <1>1, <1>3, <2>2, <2>3, <2>4 DEF StepOf, StepAt
  <2>6. mem'[b][lo] = mem[b][lo]
    BY <1>5, <2>5, CompletedBytes
  <2>7. QED
    BY <1>2, <2>1, <2>6
<1>6. CASE ~Prepare /\ ~GpuComplete
  <2>1. Live(h) /\ mem' = mem
    BY <1>6, LiveStep, MemKept
  <2>2. QED
    BY <1>2, <2>1
<1>7. QED
  BY <1>4, <1>5, <1>6

\* A job of another experiment does not produce what this one waits for.
LEMMA CompletedNotYet ==
  ASSUME MatrixInv, GpuComplete
  PROVE  NotYet'
<1>1. UNCHANGED <<pc, exp, st, fence>> /\ ran' = (ran \/ running[1] = exp) /\ running # NoJob
  BY DEF GpuComplete
<1>2. Row' = Row /\ S' = S /\ Awaited' = Awaited
  BY <1>1 DEF Row, S, Awaited
<1> SUFFICES ASSUME Awaited, Row.verdict, S.chk # Nowhere, ~ran, running[1] # exp
             PROVE  Unshown(Row, S)'
  BY <1>1, <1>2 DEF NotYet
<1>3. /\ exp \in 1..N /\ st \in DOMAIN Program[exp].steps /\ S = Program[exp].steps[st]
      /\ Row = Program[exp] /\ pc \in Stepping
  BY DEF MatrixInv, Position, Awaited, Stepping, Row, S
<1>4. PICK r, s : r = Row /\ s = S
  OBVIOUS
<1>5. s.chk[1] \in Buffers /\ s.val[1] = "out"
  BY <1>3, <1>4, MatrixStep
<1>6. running[1] \in 1..(exp - 1)
  BY <1>3, CompletedAt, MatrixAssumption DEF Submitted
<1>7. ~r.any /\ Own(exp, s)
  <2>1. ~r.reset
    BY <1>1, <1>3, <1>4 DEF MatrixInv, Clean
  <2>2. exp # 1
    BY <1>6
  <2>3. QED
    BY <1>3, <1>4, <2>1, <2>2, MatrixVerdict
<1>8. PICK lo \in Cuts[s.chk[1]] : InBytes(s.chk, lo) /\ mem[s.chk[1]][lo] # s.val
  BY <1>4, <1>7 DEF MatrixInv, NotYet, Unshown
<1>9. (s.val \notin Vals(running[1]) \/ Barren(running[1])) /\ s.val # Junk
  BY <1>5, <1>6, <1>7, JunkWord DEF Own
<1>10. mem'[s.chk[1]][lo] # s.val
  BY <1>5, <1>8, <1>9, CompletedAt
<1>11. QED
  BY <1>2, <1>4, <1>7, <1>8, <1>10 DEF Unshown

\* Between a fill and the read-back nothing but a job of the experiment
\* produces what the read-back looks for.
LEMMA NotYetStep ==
  ASSUME MatrixInv, [Next]_vars
  PROVE  NotYet'
<1>1. CASE ~Awaited'
  BY <1>1 DEF NotYet
<1>2. CASE Awaited /\ UNCHANGED <<exp, st, mem, ran>>
  <2>1. Row' = Row /\ S' = S /\ (Unshown(Row, S) => Unshown(Row, S)')
    BY <1>2 DEF Row, S, Unshown
  <2>2. QED
    BY <1>2, <2>1 DEF MatrixInv, NotYet
<1>3. CASE UNCHANGED vars
  <2>1. UNCHANGED <<pc, fence, exp, st, mem, ran>>
    BY <1>3 DEF vars, hist
  <2>2. Awaited' = Awaited
    BY <2>1 DEF Awaited
  <2>3. QED
    BY <1>1, <1>2, <2>1, <2>2
<1>4. CASE Boot \/ m0_ctx_alloc_buffers \/ NothingLeft \/ m0_ctx_free_buffers \/ Report
           \/ Unavailable
  <2>1. pc' \notin {"prepare", "submit", "wait", "check"}
    BY <1>4 DEF Boot, m0_ctx_alloc_buffers, NothingLeft, m0_ctx_free_buffers, Report, Unavailable
  <2>2. QED
    BY <1>1, <2>1 DEF Awaited
<1>5. CASE Begin \/ Check
  <2>1. pc' \in {"begin", "report"} \/ (pc' = "prepare" /\ fence' = 1)
    BY <1>5 DEF Begin, Check
  <2>2. QED
    BY <1>1, <2>1 DEF Awaited
<1>6. CASE Prepare
  BY <1>6, PreparedNotYet
<1>7. CASE Submit \/ Observed \/ TimedOut
  <2>1. pc \in {"submit", "wait"} /\ UNCHANGED <<exp, st, mem, ran>>
    BY <1>7 DEF Submit, Observed, TimedOut, hist
  <2>2. QED
    BY <1>2, <2>1 DEF Awaited
<1>8. CASE GpuComplete
  BY <1>8, CompletedNotYet
<1>9. CASE GpuFetch \/ GpuWedge
  <2>1. UNCHANGED <<pc, fence, exp, st, mem, ran>>
    BY <1>9 DEF GpuFetch, GpuWedge, hist
  <2>2. Awaited' = Awaited
    BY <2>1 DEF Awaited
  <2>3. QED
    BY <1>1, <1>2, <2>1, <2>2
<1>10. QED
  BY <1>3, <1>4, <1>5, <1>6, <1>7, <1>8, <1>9 DEF Next, Host, Gpu

\* The matrix invariant holds at boot.
LEMMA InitMatrix == Init => MatrixInv
<1> SUFFICES ASSUME Init PROVE MatrixInv
  OBVIOUS
<1>1. /\ pc = "boot" /\ exp = 1 /\ fence = 1 /\ pending = 0 /\ cb = NoJob /\ running = NoJob
      /\ mem = [b \in Buffers |-> [lo \in Cuts[b] |-> Junk]]
  BY DEF Init
<1>2. Position
  BY <1>1 DEF Position, Stepping
<1>3. Shape
  BY <1>1 DEF Shape
<1>4. Jobs
  BY <1>1 DEF Jobs, IsJob
<1>5. Words
  BY <1>1 DEF Words, Junk
<1>6. Clean /\ Since /\ NotYet
  BY <1>1 DEF Clean, Since, NotYet, Awaited, Stepping
<1>7. Spoiled
  BY <1>1 DEF Spoiled, Live, Awaited
<1>8. QED
  BY <1>2, <1>3, <1>4, <1>5, <1>6, <1>7 DEF MatrixInv

\* Every step keeps it.
LEMMA NextMatrix == MatrixInv /\ [Next]_vars => MatrixInv'
<1> SUFFICES ASSUME MatrixInv, [Next]_vars PROVE MatrixInv'
  OBVIOUS
<1>1. QED
  BY PositionStep, JobsStep, WordsStep, CleanStep, SinceStep, SpoiledStep, NotYetStep
     DEF MatrixInv

\* A timed iteration that saw its label ran.
TimedInv == (done => ran) /\ (pc = "check" /\ S.timed /\ rc => ran)

\* Every step keeps it: the label is the iteration's own.
LEMMA NextTimed == EopInv /\ TimedInv /\ [Next]_vars => TimedInv'
<1> SUFFICES ASSUME EopInv, TimedInv, [Next]_vars PROVE TimedInv'
  OBVIOUS
<1>1. CASE UNCHANGED vars
  BY <1>1 DEF vars, hist, TimedInv, S, Row
<1>2. CASE Boot \/ m0_ctx_alloc_buffers \/ Unavailable \/ Check \/ Report \/ NothingLeft
           \/ m0_ctx_free_buffers
  <2>1. pc' # "check" /\ UNCHANGED <<ran, done>>
    BY <1>2 DEF Boot, m0_ctx_alloc_buffers, Unavailable, Check, Report, NothingLeft,
       m0_ctx_free_buffers, hist
  <2>2. QED
    BY <2>1 DEF TimedInv
<1>3. CASE Begin \/ Prepare
  <2>1. pc' # "check" /\ (~done' \/ UNCHANGED <<ran, done>>)
    BY <1>3 DEF Begin, Prepare, hist
  <2>2. QED
    BY <2>1 DEF TimedInv
<1>4. CASE Submit
  <2>1. UNCHANGED <<ran, done>> /\ (pc' = "check" => ~rc')
    BY <1>4 DEF Submit, NextFence
  <2>2. QED
    BY <2>1 DEF TimedInv
<1>5. CASE Observed
  <2>1. UNCHANGED <<ran, done>> /\ done
    BY <1>5 DEF Observed, hist, EopInv, OwnLabel, pai_gc_wait_label
  <2>2. QED
    BY <2>1 DEF TimedInv
<1>6. CASE TimedOut
  <2>1. UNCHANGED <<ran, done>> /\ S' = S
    BY <1>6 DEF TimedOut, S, Row
  <2>2. S.timed /\ pc' = "check" => ~rc'
    BY <1>6 DEF TimedOut, NextFence
  <2>3. QED
    BY <2>1, <2>2 DEF TimedInv
<1>7. CASE GpuFetch \/ GpuWedge
  <2>1. UNCHANGED <<pc, rc, ran, done>> /\ S' = S
    BY <1>7 DEF GpuFetch, GpuWedge, S, Row, hist
  <2>2. QED
    BY <2>1 DEF TimedInv
<1>8. CASE GpuComplete
  <2>1. UNCHANGED <<pc, rc>> /\ S' = S /\ ran' = (ran \/ running[1] = exp)
        /\ done' = (done \/ running = <<exp, st, fence>>)
    BY <1>8 DEF GpuComplete, S, Row
  <2>2. (ran => ran') /\ (running[1] = exp => ran')
    BY <2>1, Zenon
  <2>3. done' => done \/ running[1] = exp
    <3>1. running = <<exp, st, fence>> => running[1] = exp
      OBVIOUS
    <3>2. QED
      BY <2>1, <3>1, Zenon
  <2>4. QED
    BY <2>1, <2>2, <2>3, Zenon DEF TimedInv
<1>9. QED
  BY <1>1, <1>2, <1>3, <1>4, <1>5, <1>6, <1>7, <1>8 DEF Next, Host, Gpu

\* A read-back that shows the result contradicts one that cannot.
LEMMA MatrixPass == MatrixInv /\ TimedInv => PassMeansRan
<1> SUFFICES ASSUME MatrixInv, pc = "check", Row.verdict, S.chk # Nowhere, Good(Row, S), ~ran
             PROVE  FALSE
  BY DEF PassMeansRan, TimedInv
<1>1. /\ exp \in 1..N /\ st \in DOMAIN Program[exp].steps /\ S = Program[exp].steps[st]
      /\ Row = Program[exp]
  BY DEF MatrixInv, Position, Stepping, Row, S
<1>2. PICK r, s : r = Row /\ s = S
  OBVIOUS
<1>3. PICK a, b, c : s.chk = <<a, b, c>> /\ a = s.chk[1] /\ a \in Buffers
  <2>1. s.chk = <<s.chk[1], s.chk[2], s.chk[3]>> /\ s.chk[1] \in Buffers
    BY <1>1, <1>2, MatrixStep
  <2>2. QED
    BY <2>1
<1>4. PICK lo \in Cuts[a] :
        /\ InBytes(s.chk, lo)
        /\ IF r.any THEN mem[a][lo] = s.watch[4] ELSE mem[a][lo] # s.val
  BY <1>2, <1>3 DEF MatrixInv, NotYet, Awaited, Unshown
<1>5. lo \in DOMAIN mem[a]
  BY <1>3, <1>4 DEF MatrixInv, Shape
<1>6. CASE r.any
  BY <1>2, <1>3, <1>4, <1>5, <1>6 DEF Good, InBytes
<1>7. CASE ~r.any
  <2>1. Holds(mem, Append(<<a, b, c>>, s.val))
    BY <1>2, <1>3, <1>7 DEF Good
  <2>2. PICK w : w = Append(<<a, b, c>>, s.val)
    OBVIOUS
  <2>3. w[1] = a /\ w[2] = b /\ w[3] = c /\ w[4] = s.val
    BY <2>2, AppendFour
  <2>4. b <= lo /\ lo < c
    BY <1>3, <1>4 DEF InBytes
  <2>5. mem[a][lo] = s.val
    BY <1>5, <2>1, <2>2, <2>3, <2>4 DEF Holds
  <2>6. QED
    BY <1>4, <1>7, <2>5
<1>8. QED
  BY <1>6, <1>7

\* A read-back that gives a verdict, or validates a timed iteration of the
\* bandwidth series, and shows what it expects rests on a job of its own
\* experiment that completed after the bytes were prepared.  Two rows may
\* expect the same words in bytes neither clears (G19 and G20): the earlier
\* one then never produces them, because its own fill takes its input away.
THEOREM VerdictMeansRan == Spec => []PassMeansRan
<1>1. Init => TimedInv
  BY DEF Init, TimedInv
<1>2. QED
  BY <1>1, InitEop, NextEop, NextTimed, InitMatrix, NextMatrix, MatrixPass, PTL DEF Spec

-----------------------------------------------------------------------------
(* An experiment that fails had a fault: the host prepares what a dispatch  *)
(* reads, in its own setup or in an earlier step, and without a fault       *)
(* nothing comes between.                                                   *)

\* Step k of row h has been set up; step j of row i is not yet behind.
Filled == Awaited \/ (pc = "report" /\ ~S.extra /\ Row.name # "G17")
Prepared(h, k) == h < exp \/ (h = exp /\ pc \in Stepping /\ (k < st \/ (k = st /\ Filled)))
Ahead(i, j) == exp < i \/ (exp = i /\ (pc \in Stepping => st <= j))

\* What one step leaves for another stands in memory, whatever has failed.
Stands(h, k, i, j, b, lo, v) ==
  Supplies(h, k, i, j, b, lo, v) /\ Prepared(h, k) /\ Ahead(i, j) => mem[b][lo] = v
Standing ==
  \A h, i \in 1..N : \A k \in DOMAIN Program[h].steps : \A j \in DOMAIN Program[i].steps :
    \A b \in Buffers : \A lo \in Cuts[b] : \A v : Stands(h, k, i, j, b, lo, v)

\* Without a fault the device is open, one submission at a time is under way,
\* with the first fence, and its own label ends the wait.
Idle == pending = 0 /\ running = NoJob
Queued == pending = 1 /\ running = NoJob /\ cb = <<exp, st, 1>> /\ label = NoJob
Executing == pending = 0 /\ running = <<exp, st, 1>> /\ label = NoJob
Finished == Idle /\ label = LabelValue(exp, st, fence)
Calm ==
  ~fault =>
    /\ pc \in {"alloc", "begin"} \cup Stepping => fd
    /\ ~wedged
    /\ pc \in Stepping => fence = 1
    /\ pc # "wait" => Idle
    /\ pc = "submit" => label = NoJob
    /\ pc = "wait" => Queued \/ Executing \/ Finished
    /\ pc = "check" => rc

\* Without a fault the dispatch finds its kernel and its input, its result is
\* there when the wait is over, and the verdict so far is good.
Shows(s) == Holds(mem, Append(Lasts(s), s.val))
Right ==
  ~fault /\ pc \in Stepping /\ Row.name \notin SelfDefeating =>
    /\ pc = "submit" \/ (pc = "wait" /\ ~Idle) => Works(S)
    /\ pc = "check" \/ (pc = "wait" /\ Idle) => Shows(S)
    /\ pc = "report" \/ Row.mode # "retry" => ok

SupplyInv == Standing /\ Calm /\ Right

\* A step that supplies another comes before it.
LEMMA SupplyOrder ==
  ASSUME NEW h \in 1..N, NEW k \in DOMAIN Program[h].steps, NEW i, NEW j, NEW b, NEW lo, NEW v,
         Supplies(h, k, i, j, b, lo, v)
  PROVE  /\ h = i \/ (h < i /\ k = 1 /\ Always(h))
         /\ h \in Nat \ {0} /\ k \in Nat \ {0}
BY MatrixAssumption DEF Supplies

\* A step that is set up and whose reader is not behind was so before, unless
\* this very step sets it up.
LEMMA SupplyStep ==
  ASSUME MatrixInv, [Next]_vars, NEW h \in 1..N, NEW i \in 1..N,
         NEW k \in DOMAIN Program[h].steps, NEW j \in DOMAIN Program[i].steps,
         NEW b, NEW lo, NEW v, Supplies(h, k, i, j, b, lo, v), Prepared(h, k)', Ahead(i, j)'
  PROVE  \/ Prepared(h, k) /\ Ahead(i, j)
         \/ Prepare /\ fence = 1 /\ h = exp /\ k = st
<1>1. /\ exp \in Nat \ {0} /\ fence \in Nat \ {0}
      /\ pc \in Stepping => exp \in 1..N /\ st \in Nat \ {0}
      /\ i \in 1..N /\ i \in Nat
  BY MatrixAssumption DEF MatrixInv, Position, Row
<1>2. /\ h = i \/ (h < i /\ k = 1 /\ Always(h))
      /\ h \in Nat \ {0} /\ k \in Nat \ {0}
  BY SupplyOrder
<1>3. j \in Nat \ {0}
  BY MatrixAssumption
<1>4. CASE UNCHANGED vars
  BY <1>4 DEF vars, Prepared, Ahead, Filled, Awaited, S, Row
<1>5. CASE Boot \/ m0_ctx_alloc_buffers \/ NothingLeft \/ m0_ctx_free_buffers
  <2>1. UNCHANGED exp /\ pc' \notin Stepping /\ pc \notin Stepping
    BY <1>5 DEF Boot, m0_ctx_alloc_buffers, NothingLeft, m0_ctx_free_buffers, Stepping
  <2>2. QED
    BY <2>1 DEF Prepared, Ahead
<1>6. CASE Begin
  <2>1. pc = "begin" /\ pc \notin Stepping /\ exp \in 1..N /\ st' = 1 /\ fence' = 1
    BY <1>1, <1>6, MatrixAssumption DEF Begin, Stepping
  <2>2. CASE Skipped
    <3>1. exp' = exp + 1 /\ pc' = pc
      BY <1>6, <2>2 DEF Begin
    <3>2. h < exp'
      BY <2>1, <3>1 DEF Prepared
    <3>3. exp' <= i
      BY <1>1, <2>1, <3>1 DEF Ahead
    <3>4. h # exp
      <4>1. SUFFICES ASSUME h = exp PROVE FALSE
        OBVIOUS
      <4>2. Always(h)
        BY <1>1, <1>2, <3>1, <3>2, <3>3
      <4>3. QED
        BY <2>2, <4>1, <4>2 DEF Always, Skipped, Row
    <3>5. h < exp /\ exp < i
      BY <1>1, <1>2, <3>1, <3>2, <3>3, <3>4
    <3>6. QED
      BY <3>5 DEF Prepared, Ahead
  <2>3. CASE ~Skipped
    <3>1. exp' = exp /\ pc' = "prepare"
      BY <1>6, <2>3 DEF Begin
    <3>2. h < exp
      BY <1>2, <2>1, <3>1 DEF Prepared, Filled, Awaited
    <3>3. QED
      BY <2>1, <3>1, <3>2 DEF Prepared, Ahead
  <2>4. QED
    BY <2>2, <2>3
<1>7. CASE Unavailable
  <2>1. UNCHANGED <<exp, st, fence>> /\ pc = "prepare" /\ pc' = "report"
        /\ (S.extra \/ Row.name = "G17") /\ S' = S /\ Row' = Row
    BY <1>7 DEF Unavailable, S, Row
  <2>2. ~Filled'
    BY <2>1 DEF Filled, Awaited
  <2>3. QED
    BY <2>1, <2>2 DEF Prepared, Ahead, Stepping
<1>8. CASE Prepare
  <2>1. UNCHANGED <<exp, st, fence>> /\ pc = "prepare" /\ pc' = "submit"
    BY <1>8 DEF Prepare
  <2>2. Ahead(i, j)
    BY <2>1 DEF Ahead, Stepping
  <2>3. h < exp \/ (h = exp /\ (k < st \/ k = st))
    BY <2>1 DEF Prepared
  <2>4. fence > 1 => Filled
    BY <2>1 DEF Filled, Awaited
  <2>5. QED
    BY <1>1, <1>8, <2>1, <2>2, <2>3, <2>4 DEF Prepared, Stepping
<1>9. CASE Submit \/ Observed \/ TimedOut
  <2>1. UNCHANGED <<exp, st>> /\ pc \in {"submit", "wait"} /\ pc' \in Stepping
    BY <1>9 DEF Submit, Observed, TimedOut, NextFence, Stepping
  <2>2. Filled /\ pc \in Stepping
    BY <2>1 DEF Filled, Awaited, Stepping
  <2>3. QED
    BY <2>1, <2>2 DEF Prepared, Ahead
<1>10. CASE Check
  <2>1. exp' = exp /\ pc = "check" /\ pc' \in Stepping
        /\ (st' = st \/ (st' = st + 1 /\ fence' = 1 /\ pc' = "prepare"))
    BY <1>10 DEF Check, Stepping
  <2>2. Filled /\ pc \in Stepping /\ st \in Nat
    BY <1>1, <2>1 DEF Filled, Awaited, Stepping
  <2>3. CASE st' = st
    BY <2>1, <2>2, <2>3 DEF Prepared, Ahead
  <2>4. CASE st' = st + 1 /\ fence' = 1 /\ pc' = "prepare"
    <3>1. ~Filled'
      BY <2>4 DEF Filled, Awaited
    <3>2. h < exp \/ (h = exp /\ k < st + 1)
      BY <2>1, <2>4, <3>1 DEF Prepared
    <3>3. exp < i \/ (exp = i /\ st + 1 <= j)
      BY <2>1, <2>4 DEF Ahead
    <3>4. (k < st + 1 => k < st \/ k = st) /\ (st + 1 <= j => st <= j)
      BY <1>2, <1>3, <2>2
    <3>5. QED
      BY <2>2, <3>2, <3>3, <3>4 DEF Prepared, Ahead
  <2>5. QED
    BY <2>1, <2>3, <2>4
<1>11. CASE Report
  <2>1. exp' = exp + 1 /\ pc = "report" /\ pc' \notin Stepping
    BY <1>11 DEF Report, Stepping
  <2>2. h < exp + 1 /\ exp + 1 <= i
    BY <1>1, <2>1 DEF Prepared, Ahead
  <2>3. Ahead(i, j)
    BY <1>1, <2>2 DEF Ahead
  <2>4. CASE h < exp
    BY <2>3, <2>4 DEF Prepared
  <2>5. CASE h = exp
    <3>1. k = 1 /\ Always(h)
      BY <1>1, <1>2, <2>2, <2>5
    <3>2. pc \in Stepping /\ st \in Nat \ {0}
      BY <1>1, <2>1 DEF Stepping
    <3>3. CASE st = 1
      <4>1. Filled
        BY <2>1, <2>5, <3>1, <3>3 DEF Filled, Always, S, Row
      <4>2. QED
        BY <2>3, <2>5, <3>1, <3>2, <3>3, <4>1 DEF Prepared
    <3>4. CASE st # 1
      BY <2>3, <2>5, <3>1, <3>2, <3>4 DEF Prepared
    <3>5. QED
      BY <3>3, <3>4
  <2>6. QED
    BY <1>1, <1>2, <2>2, <2>4, <2>5
<1>12. CASE GpuFetch \/ GpuComplete \/ GpuWedge
  <2>1. UNCHANGED <<pc, exp, st, fence>>
    BY <1>12 DEF GpuFetch, GpuComplete, GpuWedge
  <2>2. QED
    BY <2>1 DEF Prepared, Ahead, Filled, Awaited, S, Row
<1>13. QED
  BY <1>4, <1>5, <1>6, <1>7, <1>8, <1>9, <1>10, <1>11, <1>12 DEF Next, Host, Gpu

\* What one step leaves for another stands until it is read.
LEMMA StandingStep ==
  ASSUME MatrixInv, Standing, [Next]_vars
  PROVE  Standing'
<1> SUFFICES ASSUME NEW h \in 1..N, NEW i \in 1..N, NEW k \in DOMAIN Program[h].steps,
                    NEW j \in DOMAIN Program[i].steps, NEW b \in Buffers, NEW lo \in Cuts[b],
                    NEW v, Supplies(h, k, i, j, b, lo, v), Prepared(h, k)', Ahead(i, j)'
             PROVE  mem'[b][lo] = v
  BY DEF Standing, Stands
<1>1. Prepared(h, k) /\ Ahead(i, j) => mem[b][lo] = v
  BY DEF Standing, Stands
<1>2. \/ Prepared(h, k) /\ Ahead(i, j)
      \/ Prepare /\ fence = 1 /\ h = exp /\ k = st
  BY SupplyStep
<1>3. CASE Prepare
  <2>1. /\ exp \in 1..N /\ st \in DOMAIN Program[exp].steps /\ S = StepAt(exp, st)
        /\ pc \in Stepping /\ pc = "prepare"
    BY <1>3 DEF MatrixInv, Position, Prepare, Stepping, Row, S, StepAt
  <2>2. PICK s : s = S
    OBVIOUS
  <2>3. mem'[b][lo] =
          IF b = s.watch[1] /\ InBytes(s.watch, lo) THEN s.watch[4]
          ELSE IF fence = 1 /\ Covering(s.cpu, b, lo) # {}
               THEN s.cpu[Max(Covering(s.cpu, b, lo))][4]
               ELSE mem[b][lo]
    BY <1>3, <2>2, PreparedAt
  <2>4. CASE h = exp /\ k = st
    <3>1. Leaves(s, b, lo, v)
      BY <2>1, <2>2, <2>4 DEF Supplies
    <3>2. QED
      BY <1>1, <1>2, <2>3, <3>1 DEF Leaves
  <2>5. CASE ~(h = exp /\ k = st)
    <3>1. Prepared(h, k) /\ Ahead(i, j)
      BY <1>2, <2>5
    <3>2. After(h, k, exp, st) /\ ~After(i, j, exp, st)
      <4>1. h < exp \/ (h = exp /\ k < st)
        BY <2>5, <3>1 DEF Prepared
      <4>2. exp < i \/ (exp = i /\ st <= j)
        BY <2>1, <3>1 DEF Ahead
      <4>3. exp \in Nat /\ i \in Nat
        BY <2>1, MatrixAssumption
      <4>4. st \in Nat /\ j \in Nat
        <5>1. /\ DOMAIN Program[exp].steps = 1..Len(Program[exp].steps)
              /\ DOMAIN Program[i].steps = 1..Len(Program[i].steps)
          BY <2>1, MatrixAssumption
        <5>2. QED
          BY <2>1, <5>1
      <4>5. QED
        BY <4>1, <4>2, <4>3, <4>4 DEF After
    <3>3. exp \in h..i
      <4>1. exp \in Nat /\ i \in Nat /\ h \in Nat
        BY <2>1, MatrixAssumption
      <4>2. QED
        BY <3>1, <4>1 DEF Prepared, Ahead
    <3>4. ~Touches(s, b, lo)
      BY <2>1, <2>2, <3>2, <3>3 DEF Supplies
    <3>5. QED
      BY <1>1, <2>3, <3>1, <3>4 DEF Touches
  <2>6. QED
    BY <2>4, <2>5
<1>4. CASE GpuComplete
  <2>1. Prepared(h, k) /\ Ahead(i, j)
    BY <1>2, <1>4 DEF GpuComplete, Prepare
  <2>2. PICK g \in 1..h :
          /\ g = 1 \/ Program[g].reset
          /\ \A e \in g..i : \A f \in DOMAIN Program[e].steps : ~Overwrites(StepAt(e, f), b, lo)
    BY DEF Supplies
  <2>3. PICK e, f : e = running[1] /\ f = running[2]
    OBVIOUS
  <2>4. e \in 1..N /\ Submitted(e) /\ f \in DOMAIN Program[e].steps
    BY <1>4, <2>3 DEF MatrixInv, Jobs, IsJob, GpuComplete
  <2>5. exp \in Nat /\ i \in Nat /\ h \in Nat /\ e \in Nat /\ g \in Nat /\ g \in 1..N
    BY <2>4, MatrixAssumption DEF MatrixInv, Position
  <2>6. e <= i
    BY <2>1, <2>4, <2>5 DEF Submitted, Ahead
  <2>7. Started(g)
    BY <2>1, <2>2, <2>5 DEF Prepared, Started
  <2>8. g <= e
    BY <1>4, <2>2, <2>3, <2>5, <2>7 DEF MatrixInv, Since, GpuComplete
  <2>9. ~Overwrites(StepAt(e, f), b, lo) /\ StepAt(e, f) = StepOf(running)
    BY <2>2, <2>3, <2>4, <2>5, <2>6, <2>8 DEF StepAt, StepOf
  <2>10. QED
    BY <1>1, <1>4, <2>1, <2>9, CompletedBytes
<1>5. CASE ~Prepare /\ ~GpuComplete
  BY <1>1, <1>2, <1>5, MemKept
<1>6. QED
  BY <1>3, <1>4, <1>5

\* Without a fault a wait does not run out.
LEMMA NoTimeout ==
  ASSUME MatrixInv, Calm, TimedOut
  PROVE  fault'
<1> SUFFICES ASSUME ~fault' PROVE FALSE
  OBVIOUS
<1>1. pc = "wait" /\ ~pai_gc_wait_label /\ ~(pending > 0 \/ running # NoJob) /\ fault' = fault
  BY DEF TimedOut, Fault
<1>2. pending = 0 /\ running = NoJob /\ exp \in Nat \ {0}
  BY <1>1 DEF MatrixInv, Position
<1>3. Finished
  BY <1>1, <1>2, ClearedLabel DEF Calm, Queued, Executing, LabelValue
<1>4. QED
  BY <1>1, <1>3 DEF Finished, pai_gc_wait_label

\* Without a fault the wait is over only when the job is.
LEMMA ObservedIdle ==
  ASSUME MatrixInv, Calm, ~fault, Observed
  PROVE  Idle
<1>1. pc = "wait" /\ label = LabelValue(exp, st, fence) /\ exp \in Nat \ {0}
  BY DEF Observed, pai_gc_wait_label, MatrixInv, Position
<1>2. label # NoJob
  BY <1>1, ClearedLabel
<1>3. QED
  BY <1>1, <1>2 DEF Calm, Queued, Executing, Finished

\* Without a fault the GPU executes the submission the host waits for, and
\* nothing else.
LEMMA OwnJob ==
  ASSUME MatrixInv, Calm, ~fault, ~Idle
  PROVE  /\ pc = "wait" /\ fence = 1 /\ fd /\ ~wedged
         /\ Queued \/ Executing
BY DEF Calm, Finished, Stepping

\* One submission at a time, as long as nothing fails.
LEMMA CalmStep ==
  ASSUME MatrixInv, Calm, [Next]_vars
  PROVE  Calm'
<1> SUFFICES ASSUME ~fault' PROVE Calm'
  BY DEF Calm
<1>1. exp \in Nat \ {0} /\ pending \in Nat
  BY DEF MatrixInv, Position
<1>2. CASE UNCHANGED vars
  BY <1>2 DEF vars, gpu, hist, Calm, Idle, Queued, Executing, Finished, LabelValue
<1>3. CASE Boot \/ m0_ctx_alloc_buffers \/ NothingLeft \/ m0_ctx_free_buffers
  <2>1. /\ pc \in {"boot", "alloc", "begin", "out"} /\ UNCHANGED <<fault, wedged>>
        /\ UNCHANGED <<pending, running>> \/ (pending' = 0 /\ running' = NoJob)
        /\ pc' \in {"alloc", "begin", "out", "exit"}
        /\ pc' \in {"alloc", "begin"} => fd' \/ (fd' = fd /\ pc = "alloc")
    BY <1>3 DEF Boot, m0_ctx_alloc_buffers, NothingLeft, m0_ctx_free_buffers, pai_gc_init,
       pai_gc_shutdown, gpu, hist
  <2>2. QED
    BY <2>1 DEF Calm, Idle, Stepping
<1>4. CASE Begin
  <2>1. fence' = 1 /\ pc = "begin"
    BY <1>4 DEF Begin
  <2>2. CASE fault' = fault /\ UNCHANGED gpu /\ pc' \in {"begin", "prepare"}
    BY <2>1, <2>2 DEF gpu, Calm, Idle, Stepping
  <2>3. CASE pai_gc_reset(TRUE) /\ pc' = "prepare"
    BY <2>1, <2>3 DEF pai_gc_reset, Calm, Idle, Stepping
  <2>4. QED
    BY <1>4, <2>2, <2>3 DEF Begin, Fault, hist
<1>5. CASE Unavailable \/ GpuWedge
  BY <1>5 DEF Unavailable, GpuWedge, Fault
<1>6. CASE Prepare
  <2>1. /\ UNCHANGED <<exp, st, fence, cb, pending, running, wedged, fd, fault>>
        /\ pc = "prepare" /\ pc' = "submit" /\ label' = NoJob
    BY <1>6 DEF Prepare
  <2>2. QED
    BY <2>1 DEF Calm, Idle, Stepping
<1>7. CASE Submit
  <2>1. pc = "submit" /\ UNCHANGED <<exp, st, running, wedged, label, fd>>
        /\ cb' = LabelValue(exp, st, fence)
    BY <1>7 DEF Submit, pai_gc_submit_stream
  <2>2. fault' = fault
    BY <1>7 DEF Submit, Fault
  <2>3. fd /\ ~wedged /\ fence = 1 /\ pending = 0 /\ running = NoJob /\ label = NoJob
    BY <2>1, <2>2 DEF Calm, Idle, Stepping
  <2>4. pending' = 1 /\ pc' = "wait" /\ fence' = fence
    BY <1>7, <2>3 DEF Submit, pai_gc_submit, Fault
  <2>5. Queued'
    BY <2>1, <2>3, <2>4 DEF Queued, LabelValue
  <2>6. QED
    BY <2>1, <2>3, <2>4, <2>5 DEF Calm
<1>8. CASE Observed
  <2>1. UNCHANGED <<gpu, fault, fence>> /\ pc = "wait" /\ pc' = "check" /\ rc'
    BY <1>8 DEF Observed, hist
  <2>2. Idle
    BY <1>8, <2>1, ObservedIdle
  <2>3. QED
    BY <2>1, <2>2 DEF gpu, Calm, Idle, Stepping
<1>9. CASE TimedOut
  BY <1>9, NoTimeout
<1>10. CASE Check
  <2>1. /\ UNCHANGED <<gpu, fault>> /\ pc = "check"
        /\ (pc' = "report" /\ fence' = fence) \/ (pc' = "prepare" /\ fence' = 1)
    BY <1>10 DEF Check, hist
  <2>2. QED
    BY <2>1 DEF gpu, Calm, Idle, Stepping
<1>11. CASE Report
  <2>1. UNCHANGED <<gpu, fault>> /\ pc = "report" /\ pc' \in {"out", "begin"}
    BY <1>11 DEF Report, hist
  <2>2. QED
    BY <2>1 DEF gpu, Calm, Idle, Stepping
<1>12. CASE GpuFetch
  <2>1. /\ UNCHANGED <<pc, exp, st, fence, cb, wedged, label, fd, fault>>
        /\ pending > 0 /\ pending' = pending - 1 /\ running' = cb
    BY <1>12 DEF GpuFetch, hist
  <2>2. pc = "wait" /\ fence = 1 /\ fd /\ ~wedged /\ Queued
    BY <2>1, OwnJob DEF Idle, Executing
  <2>3. Executing'
    BY <2>1, <2>2 DEF Queued, Executing
  <2>4. QED
    BY <2>1, <2>2, <2>3 DEF Calm
<1>13. CASE GpuComplete
  <2>1. /\ UNCHANGED <<pc, exp, st, fence, pending, wedged, fd>>
        /\ running # NoJob /\ running' = NoJob
    BY <1>13 DEF GpuComplete
  <2>2. label' = running /\ fault' = fault
    BY <1>13 DEF GpuComplete, Fault
  <2>3. pc = "wait" /\ fence = 1 /\ fd /\ ~wedged /\ Executing
    BY <2>1, <2>2, OwnJob DEF Idle, Queued
  <2>4. Finished'
    BY <2>1, <2>2, <2>3 DEF Executing, Finished, Idle, LabelValue
  <2>5. QED
    BY <2>1, <2>3, <2>4 DEF Calm
<1>14. QED
  BY <1>2, <1>3, <1>4, <1>5, <1>6, <1>7, <1>8, <1>9, <1>10, <1>11, <1>12, <1>13
     DEF Next, Host, Gpu

\* What a dispatch reads is what its own setup or an earlier step leaves.
LEMMA MatrixSupply ==
  ASSUME NEW i \in 1..N, NEW j \in DOMAIN Program[i].steps,
         Program[i].name \notin SelfDefeating, NEW w \in Needs(StepAt(i, j))
  PROVE  /\ w[1] \in Buffers
         /\ \A lo \in Cuts[w[1]] : InBytes(w, lo) =>
              \/ Leaves(StepAt(i, j), w[1], lo, w[4])
              \/ \E h \in 1..i : \E k \in DOMAIN Program[h].steps :
                   Supplies(h, k, i, j, w[1], lo, w[4])
BY SupplyAssumption

\* After its setup a dispatch finds its kernel and its input.
LEMMA PreparedWorks ==
  ASSUME MatrixInv, Standing', Prepare, fence = 1, Row.name \notin SelfDefeating
  PROVE  Works(S)'
<1>1. PICK i, j : i = exp /\ j = st
  OBVIOUS
<1>2. PICK s : s = StepAt(i, j)
  OBVIOUS
<1>3. /\ i \in 1..N /\ j \in DOMAIN Program[i].steps /\ S = s
      /\ pc' = "submit" /\ exp' = i /\ st' = j /\ S' = s /\ Program[i].name \notin SelfDefeating
  BY <1>1, <1>2 DEF MatrixInv, Position, Prepare, Stepping, Row, S, StepAt
<1>4. s.kern = "dma" \/ code' = s.kern
  BY <1>3 DEF Prepare, m0_build_dispatch_stream
<1>5. Ahead(i, j)'
  <2>1. j \in Nat
    BY <1>3, MatrixAssumption
  <2>2. QED
    BY <1>3, <2>1 DEF Ahead
<1>6. ASSUME NEW w \in Needs(s), NEW lo \in DOMAIN mem'[w[1]], w[2] <= lo, lo < w[3]
      PROVE  mem'[w[1]][lo] = w[4]
  <2>1. PICK b, v : b = w[1] /\ v = w[4]
    OBVIOUS
  <2>2. b \in Buffers
    BY <1>2, <1>3, <1>6, <2>1, MatrixSupply
  <2>3. lo \in Cuts[b]
    BY <1>6, <2>1, <2>2, PreparedAt DEF Shape
  <2>4. InBytes(w, lo)
    BY <1>6 DEF InBytes
  <2>5. \/ Leaves(s, b, lo, v)
        \/ \E h \in 1..i : \E k \in DOMAIN Program[h].steps :
             Supplies(h, k, i, j, b, lo, v)
    BY <1>2, <1>3, <1>6, <2>1, <2>3, <2>4, MatrixSupply
  <2>6. CASE Leaves(s, b, lo, v)
    <3>1. mem'[b][lo] =
            IF b = s.watch[1] /\ InBytes(s.watch, lo) THEN s.watch[4]
            ELSE IF fence = 1 /\ Covering(s.cpu, b, lo) # {}
                 THEN s.cpu[Max(Covering(s.cpu, b, lo))][4]
                 ELSE mem[b][lo]
      BY <1>3, <2>2, <2>3, PreparedAt
    <3>2. mem'[b][lo] = v
      BY <2>6, <3>1 DEF Leaves
    <3>3. QED
      BY <2>1, <3>2
  <2>7. ASSUME NEW h \in 1..i, NEW k \in DOMAIN Program[h].steps,
               Supplies(h, k, i, j, b, lo, v)
        PROVE  mem'[b][lo] = v
    <3>1. h \in 1..N
      BY <1>3, MatrixAssumption
    <3>2. h < i \/ (h = i /\ k < j)
      BY <2>7 DEF Supplies
    <3>3. Prepared(h, k)'
      BY <1>3, <3>2 DEF Prepared, Stepping
    <3>4. Stands(h, k, i, j, b, lo, v)'
      BY <1>3, <2>2, <2>3, <3>1 DEF Standing
    <3>5. QED
      BY <1>5, <2>7, <3>3, <3>4 DEF Stands
  <2>8. QED
    BY <2>1, <2>5, <2>6, <2>7
<1>7. QED
  BY <1>3, <1>4, <1>6 DEF Works, Holds

\* A correct run of the submission leaves its result.
LEMMA CompletedShows ==
  ASSUME MatrixInv, Calm, GpuComplete, ~fault', pc = "wait" => Works(S)
  PROVE  Shows(S)'
<1>1. fault' = fault /\ UNCHANGED <<exp, st, pc>> /\ running # NoJob
  BY DEF GpuComplete, Fault
<1>2. pc = "wait" /\ Executing
  BY <1>1, OwnJob DEF Idle, Queued
<1>3. PICK s : s = S
  OBVIOUS
<1>4. StepOf(running) = s /\ S' = s
  BY <1>1, <1>2, <1>3 DEF Executing, StepOf, S, Row
<1>5. mem' = Put(mem, Append(Lasts(s), s.val))
  BY <1>1, <1>2, <1>3, <1>4 DEF GpuComplete, Fault
<1>6. PICK a, c, d : Lasts(s) = <<a, c, d>> /\ a \in Buffers
  <2>1. exp \in 1..N /\ st \in DOMAIN Program[exp].steps /\ S = Program[exp].steps[st]
    BY <1>2 DEF MatrixInv, Position, Stepping, Row, S
  <2>2. s.watch[1] \in Buffers /\ s.chk = <<s.chk[1], s.chk[2], s.chk[3]>>
        /\ (s.chk # Nowhere => s.chk[1] \in Buffers)
    BY <1>3, <2>1, MatrixStep
  <2>3. QED
    BY <2>2 DEF Lasts, Bytes
<1>7. PICK w : w = Append(<<a, c, d>>, s.val)
  OBVIOUS
<1>8. w[1] = a
  BY <1>7, AppendFour
<1>9. mem' = Put(mem, w)
  BY <1>5, <1>6, <1>7
<1>10. DOMAIN mem = Buffers /\ \A x \in Buffers : DOMAIN mem[x] = Cuts[x]
  BY DEF MatrixInv, Shape
<1>11. \A lo \in DOMAIN mem'[a] :
         mem'[a][lo] = IF w[2] <= lo /\ lo < w[3] THEN w[4] ELSE mem[a][lo]
  BY <1>6, <1>8, <1>9, <1>10, PutAt
<1>12. Holds(mem', w)
  BY <1>8, <1>11 DEF Holds
<1>13. QED
  BY <1>4, <1>6, <1>7, <1>12 DEF Shows

\* The read-back of a result is good.
LEMMA ShownGood ==
  ASSUME MatrixInv, pc = "check", Shows(S)
  PROVE  Good(Row, S)
<1>1. /\ exp \in 1..N /\ st \in DOMAIN Program[exp].steps /\ S = Program[exp].steps[st]
  BY DEF MatrixInv, Position, Stepping, Row, S
<1>2. PICK r, s : r = Row /\ s = S
  OBVIOUS
<1>3. CASE s.chk = Nowhere
  BY <1>2, <1>3 DEF Good
<1>4. CASE s.chk # Nowhere
  <2>1. Holds(mem, Append(s.chk, s.val))
    BY <1>2, <1>4 DEF Shows, Lasts
  <2>2. CASE ~r.any
    BY <1>2, <2>1, <2>2 DEF Good
  <2>3. CASE r.any
    <3>1. PICK a, c, d : s.chk = <<a, c, d>> /\ s.val # s.watch[4]
      BY <1>1, <1>2, MatrixStep
    <3>2. PICK w : w = Append(<<a, c, d>>, s.val)
      OBVIOUS
    <3>3. w[1] = a /\ w[2] = c /\ w[3] = d /\ w[4] = s.val
      BY <3>2, AppendFour
    <3>4. Holds(mem, w)
      BY <2>1, <3>1, <3>2
    <3>5. \A lo \in DOMAIN mem[a] : c <= lo /\ lo < d => mem[a][lo] # s.watch[4]
      BY <3>1, <3>3, <3>4 DEF Holds
    <3>6. QED
      BY <1>2, <2>3, <3>1, <3>5 DEF Good
  <2>4. QED
    BY <2>2, <2>3
<1>5. QED
  BY <1>3, <1>4

\* Without a fault every experiment but the three goes well.
LEMMA RightStep ==
  ASSUME MatrixInv, Calm, Right, Standing', [Next]_vars
  PROVE  Right'
<1> SUFFICES ASSUME ~fault', pc' \in Stepping, (Row.name \notin SelfDefeating)'
             PROVE  /\ (pc = "submit" \/ (pc = "wait" /\ ~Idle) => Works(S))'
                    /\ (pc = "check" \/ (pc = "wait" /\ Idle) => Shows(S))'
                    /\ (pc = "report" \/ Row.mode # "retry" => ok)'
  BY DEF Right
<1>1. ASSUME UNCHANGED <<exp, st, mem, code>>
      PROVE  /\ Row' = Row /\ S' = S
             /\ (Works(S) => Works(S)') /\ (Shows(S) => Shows(S)')
  BY <1>1 DEF Row, S, Works, Shows
<1>2. CASE UNCHANGED vars
  <2>1. UNCHANGED <<exp, st, mem, code, pc, pending, running, ok, fault>>
    BY <1>2 DEF vars, gpu, hist
  <2>2. QED
    BY <1>1, <2>1 DEF Right, Idle
<1>3. CASE Boot \/ m0_ctx_alloc_buffers \/ NothingLeft \/ m0_ctx_free_buffers \/ Report
  <2>1. pc' \notin Stepping
    BY <1>3 DEF Boot, m0_ctx_alloc_buffers, NothingLeft, m0_ctx_free_buffers, Report, Stepping
  <2>2. QED
    BY <2>1
<1>4. CASE Begin
  <2>1. ~Skipped
    BY <1>4 DEF Begin, Stepping
  <2>2. pc' = "prepare" /\ ok' = (Row.mode # "retry") /\ Row' = Row
    BY <1>4, <2>1 DEF Begin, Row
  <2>3. QED
    BY <2>2
<1>5. CASE Unavailable \/ GpuWedge
  BY <1>5 DEF Unavailable, GpuWedge, Fault
<1>6. CASE TimedOut
  BY <1>6, NoTimeout
<1>7. CASE Prepare
  <2>1. UNCHANGED <<exp, st, fault, ok>> /\ pc = "prepare" /\ pc' = "submit" /\ Row' = Row
    BY <1>7 DEF Prepare, Row
  <2>2. fence = 1
    BY <2>1 DEF Calm, Stepping
  <2>3. Works(S)'
    BY <1>7, <2>1, <2>2, PreparedWorks
  <2>4. QED
    BY <2>1, <2>3 DEF Right, Stepping
<1>8. CASE Submit
  <2>1. UNCHANGED <<exp, st, mem, code, ok>> /\ pc = "submit" /\ fault' = fault
    BY <1>8 DEF Submit, Fault
  <2>2. pc' = "wait" /\ pending' = 1
    <3>1. fd /\ ~wedged /\ pending = 0
      BY <2>1 DEF Calm, Idle, Stepping
    <3>2. QED
      BY <1>8, <3>1 DEF Submit, Fault, pai_gc_submit
  <2>3. ~Idle'
    BY <2>2 DEF Idle
  <2>4. QED
    BY <1>1, <2>1, <2>2, <2>3 DEF Right, Stepping
<1>9. CASE Observed
  <2>1. UNCHANGED <<exp, st, mem, code, ok, fault>> /\ pc = "wait" /\ pc' = "check"
    BY <1>9 DEF Observed, hist
  <2>2. Idle
    BY <1>9, <2>1, ObservedIdle
  <2>3. QED
    BY <1>1, <2>1, <2>2 DEF Right, Stepping
<1>10. CASE Check
  <2>1. UNCHANGED <<exp, mem, code, fault>> /\ pc = "check" /\ pc' \in {"report", "prepare"}
        /\ ok' = Verdict(Row, S) /\ Row' = Row
    BY <1>10 DEF Check, hist, Row
  <2>2. Shows(S) /\ (Row.mode # "retry" => ok) /\ rc
    BY <2>1 DEF Right, Calm, Stepping
  <2>3. Good(Row, S)
    BY <2>1, <2>2, ShownGood
  <2>4. Verdict(Row, S)
    BY <2>2, <2>3 DEF Verdict
  <2>5. QED
    BY <2>1, <2>4
<1>11. CASE GpuFetch
  <2>1. UNCHANGED <<exp, st, mem, code, ok, fault, pc>> /\ running' = cb /\ pending > 0
    BY <1>11 DEF GpuFetch, hist
  <2>2. pc = "wait" /\ ~Idle /\ cb = <<exp, st, 1>>
    BY <2>1, OwnJob DEF Idle, Queued, Executing
  <2>3. ~Idle'
    <3>1. exp \in Nat \ {0}
      BY DEF MatrixInv, Position
    <3>2. QED
      BY <2>1, <2>2, <3>1, ClearedLabel DEF Idle, LabelValue
  <2>4. QED
    BY <1>1, <2>1, <2>2, <2>3 DEF Right
<1>12. CASE GpuComplete
  <2>1. UNCHANGED <<exp, st, ok, pc>> /\ running # NoJob /\ running' = NoJob
        /\ pending' = pending /\ Row' = Row
    BY <1>12 DEF GpuComplete, Row
  <2>2. fault' = fault
    BY <1>12 DEF GpuComplete, Fault
  <2>3. ~Idle /\ pc = "wait" /\ pending = 0
    BY <2>1, <2>2, OwnJob DEF Idle, Queued, Executing
  <2>4. Works(S) /\ (Row.mode # "retry" => ok)
    BY <2>1, <2>2, <2>3 DEF Right
  <2>5. Shows(S)'
    BY <1>12, <2>4, CompletedShows
  <2>6. Idle'
    BY <2>1, <2>3 DEF Idle
  <2>7. QED
    BY <2>1, <2>3, <2>4, <2>5, <2>6
<1>13. QED
  BY <1>2, <1>3, <1>4, <1>5, <1>6, <1>7, <1>8, <1>9, <1>10, <1>11, <1>12 DEF Next, Host, Gpu

\* At boot nothing is set up, nothing runs and nothing has failed.
LEMMA InitSupply == Init => SupplyInv
<1> SUFFICES ASSUME Init PROVE SupplyInv
  OBVIOUS
<1>1. /\ pc = "boot" /\ exp = 1 /\ pending = 0 /\ cb = NoJob /\ running = NoJob /\ ~wedged
  BY DEF Init
<1>2. Standing
  <2>1. ASSUME NEW h \in 1..N, NEW k PROVE ~Prepared(h, k)
    BY <1>1, MatrixAssumption DEF Prepared, Stepping
  <2>2. QED
    BY <2>1 DEF Standing, Stands
<1>3. Calm /\ Right
  BY <1>1 DEF Calm, Right, Idle, Stepping
<1>4. QED
  BY <1>2, <1>3 DEF SupplyInv

\* Every step keeps it.
LEMMA NextSupply == MatrixInv /\ SupplyInv /\ [Next]_vars => SupplyInv'
<1> SUFFICES ASSUME MatrixInv, SupplyInv, [Next]_vars PROVE SupplyInv'
  OBVIOUS
<1>1. Standing'
  BY StandingStep DEF SupplyInv
<1>2. QED
  BY <1>1, CalmStep, RightStep DEF SupplyInv

\* An experiment whose input does not lie in the bytes it fills fails only if
\* something failed since the last reset: neither a job of an earlier
\* experiment nor the setup of a later one takes its input or its result away.
THEOREM FailureMeansFault == Spec => []FailBlamesGpu
<1>1. MatrixInv /\ SupplyInv => FailBlamesGpu
  <2> SUFFICES ASSUME SupplyInv, pc = "report", ~ok, Row.name \notin SelfDefeating
               PROVE  fault
    BY DEF FailBlamesGpu
  <2>1. pc \in Stepping
    BY DEF Stepping
  <2>2. QED
    BY <2>1 DEF SupplyInv, Right
<1>2. QED
  BY <1>1, InitMatrix, NextMatrix, InitSupply, NextSupply, PTL DEF Spec

=============================================================================
