----------------------------- MODULE M0Harness -----------------------------
(***************************************************************************)
(* The payload's main loop (src/payload/main.c) on the PS5 backend         *)
(* (src/gpu/hal/backend_ps5_gc.c): every experiment of M0Matrix is reset,  *)
(* set up, submitted with up to three kinds of fence, waited for, and      *)
(* judged from what lies in memory.  The GPU runs on its own: it may be    *)
(* late, lose a label, write junk or wedge.  A submission is an indirect   *)
(* buffer that points at the ONE command buffer, so a submission that is   *)
(* still queued runs whatever stream was copied there last.                *)
(***************************************************************************)
EXTENDS M0Matrix, FiniteSets

CONSTANT MaxFaults   \* cap on the failures of one run of the payload
ASSUME MaxFaultsAssumption == MaxFaults \in Nat

VARIABLES
    pc,       \* boot, alloc, begin, prepare, submit, wait, check, report, out, exit
    exp, st, fence,  \* experiment, step and fence (1..3) being run
    ok,       \* what the experiment's read-backs have shown so far
    rc,       \* m0_run_gpu observed execution (returned 0)
    mem,      \* mem[buffer][lo]: value of the bytes from cut lo to the next
    code,     \* kernel in the code buffer
    cb,       \* the command buffer: the submission copied there last
    pending,  \* submissions the GPU has not fetched
    running,  \* the submission the GPU executes, or NoJob
    wedged,   \* the ring hangs until the device is reopened
    label,    \* the fence label: the submission that wrote it, or NoJob
    fd,       \* /dev/gc is open
    fail,     \* exit code
    bufs,     \* buffers allocated
    report,   \* the last verdict [name, pass]
    faults,   \* faults so far
    fault,    \* history: something failed since the experiment's reset
    ran,      \* history: a job of this experiment completed after the step's fill
    done      \* history: a job built for this very submission completed
gpu == <<cb, pending, running, wedged, label, fd>>
hist == <<faults, fault, ran, done>>
vars == <<pc, exp, st, fence, ok, rc, mem, code, gpu, fail, bufs, report, hist>>

Buffers == {"src", "dst", "a", "b", "c", "xa", "xc"}
NoJob == <<0, 0, 0>>
N == Len(Program)
Row == Program[exp]
S == Row.steps[st]

\* Every offset some row names cuts its buffer.
Named(s) == {Bytes(w[1], w[2], w[3]) : w \in Range(s.cpu) \cup s.uses \cup {s.watch}}
                \cup {s.chk}
AllSteps == UNION {Range(Program[i].steps) : i \in 1..N}
Cuts == [b \in Buffers |->
           UNION {UNION {{r[2], r[3]} : r \in {q \in Named(s) : q[1] = b}} : s \in AllSteps}]
Put(m, w) == [m EXCEPT ![w[1]] = [lo \in DOMAIN @ |->
                 IF w[2] <= lo /\ lo < w[3] THEN w[4] ELSE @[lo]]]
\* The CPU's writes ws, in order: the last one that covers a byte stays.
Covering(ws, b, lo) == {k \in DOMAIN ws : ws[k][1] = b /\ ws[k][2] <= lo /\ lo < ws[k][3]}
PutAll(m, ws) == [b \in Buffers |-> [lo \in Cuts[b] |->
                    LET ks == Covering(ws, b, lo) IN
                    IF ks = {} THEN m[b][lo] ELSE ws[Max(ks)][4]]]
Holds(m, w) == \A lo \in DOMAIN m[w[1]] : w[2] <= lo /\ lo < w[3] => m[w[1]][lo] = w[4]
Lasts(s) == IF s.chk = Nowhere THEN Bytes(s.watch[1], s.watch[2], s.watch[3]) ELSE s.chk
Needs(s) == {w \in Range(s.cpu) : w[4][1] = "in"} \cup s.uses
                \cup {w \in Range(s.cpu) : w = s.watch}

\* What makes a read-back tell its own dispatch from what was there before.
InBytes(r, lo) == r[2] <= lo /\ lo < r[3]
Vals(i) == {Program[i].steps[j].val : j \in DOMAIN Program[i].steps}
StepAt(i, j) == Program[i].steps[j]
Overwrites(s, b, lo) == Lasts(s)[1] = b /\ InBytes(Lasts(s), lo)
\* Row h never produces its words: the fill of m0_run_gpu takes an input away
\* that neither its own dispatch nor, with a reset behind and a reset ahead,
\* any other restores while its job is about.
Spoils(s) ==
    \E w \in Needs(s) : w[1] \in Buffers /\ \E lo \in Cuts[w[1]] :
      /\ InBytes(w, lo) /\ s.watch[1] = w[1] /\ InBytes(s.watch, lo)
      /\ s.watch[4] # w[4] /\ ~Overwrites(s, w[1], lo)
Barren(h) == /\ Len(Program[h].steps) = 1 /\ Spoils(StepAt(h, 1))
             /\ Program[h].reset /\ (h < N => Program[h + 1].reset)
Own(i, s) == \A h \in 1..(i - 1) : s.val \notin Vals(h) \/ Barren(h)
\* At this byte the fill, or the last of the CPU's writes, stands before the
\* dispatch.
Erased(r, s, lo) ==
    \/ s.watch[1] = s.chk[1] /\ InBytes(s.watch, lo)
    \/ ~r.any /\ \E k \in Covering(s.cpu, s.chk[1], lo) :
                    \A l \in Covering(s.cpu, s.chk[1], lo) : l <= k
\* Only a correct kernel run produces "out" words.  A verdict reads a byte
\* that was erased, or words that no earlier row leaves; and its experiment
\* starts with a reset, or its words are its own.
ASSUME MatrixAssumption ==
    /\ N \in Nat
    /\ \A i \in 1..N : DOMAIN Program[i].steps = 1..Len(Program[i].steps)
                      /\ Len(Program[i].steps) \in Nat \ {0}
    /\ \A i \in 1..N : \A j \in DOMAIN Program[i].steps :
         LET r == Program[i]
             s == r.steps[j]
         IN  /\ s.val[1] = "out" /\ s.watch[4][1] # "out" /\ s.watch[1] \in Buffers
             /\ DOMAIN s.cpu = 1..Len(s.cpu) /\ Len(s.cpu) \in Nat
             /\ \A k \in DOMAIN s.cpu : s.cpu[k][4][1] # "out"
             /\ s.chk = <<s.chk[1], s.chk[2], s.chk[3]>>
             /\ s.chk # Nowhere => s.chk[1] \in Buffers
             /\ s.chk # Nowhere /\ r.verdict =>
                  /\ r.reset \/ i = 1 \/ (~r.any /\ Own(i, s))
                  /\ \E lo \in Cuts[s.chk[1]] :
                       /\ InBytes(s.chk, lo)
                       /\ Erased(r, s, lo) \/ (~r.any /\ Len(r.steps) = 1 /\ Own(i, s))

\* The three probes whose input lies in the bytes m0_run_gpu fills.
SelfDefeating == {"H11", "H12", "G19"}
After(h, k, e, f) == h < e \/ (h = e /\ k < f)
\* At a byte: the host writes it before the dispatch of s, leaves v there, and
\* the dispatch itself writes it.
Touches(s, b, lo) == (s.watch[1] = b /\ InBytes(s.watch, lo)) \/ Covering(s.cpu, b, lo) # {}
Leaves(s, b, lo, v) ==
    IF s.watch[1] = b /\ InBytes(s.watch, lo)
    THEN s.watch[4] = v
    ELSE Covering(s.cpu, b, lo) # {} /\ s.cpu[Max(Covering(s.cpu, b, lo))][4] = v
\* The host never gives up on row i before it has prepared its first step.
Always(i) == /\ Program[i].after = "" /\ Program[i].name \notin {"C", "G17"}
             /\ ~Program[i].steps[1].extra
\* Step k of row h leaves v at a byte for step j of row i: the host writes
\* nothing there in between, and neither does a dispatch since a reset (a job
\* queued before it is dropped).
Supplies(h, k, i, j, b, lo, v) ==
    /\ (h = i /\ k < j) \/ (h < i /\ k = 1 /\ Always(h))
    /\ Leaves(StepAt(h, k), b, lo, v)
    /\ \A e \in h..i : \A f \in DOMAIN Program[e].steps :
         After(h, k, e, f) /\ ~After(i, j, e, f) => ~Touches(StepAt(e, f), b, lo)
    /\ \E g \in 1..h :
         /\ g = 1 \/ Program[g].reset
         /\ \A e \in g..i : \A f \in DOMAIN Program[e].steps :
              ~Overwrites(StepAt(e, f), b, lo)
\* A row with a reset is never skipped.  What a dispatch reads is what its own
\* setup or an earlier step leaves there.
ASSUME SupplyAssumption ==
    /\ \A i \in 1..N : Program[i].reset => Program[i].after = "" /\ Program[i].name # "C"
    /\ \A i \in 1..N : \A j \in DOMAIN Program[i].steps :
         Program[i].name \notin SelfDefeating =>
           \A w \in Needs(StepAt(i, j)) :
             /\ w[1] \in Buffers
             /\ \A lo \in Cuts[w[1]] : InBytes(w, lo) =>
                  \/ Leaves(StepAt(i, j), w[1], lo, w[4])
                  \/ \E h \in 1..i : \E k \in DOMAIN Program[h].steps :
                       Supplies(h, k, i, j, w[1], lo, w[4])

\* label_value is incremented for every submission.
LabelValue_per_step(i, j, n) == <<i, j, 1>>              \* mutant
LabelValue(i, j, n) == <<i, j, n>>
Fences == IF S.timed THEN 1 ELSE 3

Init ==
    /\ pc = "boot" /\ exp = 1 /\ st = 1 /\ fence = 1 /\ ok = TRUE /\ rc = FALSE
    /\ mem = [b \in Buffers |-> [lo \in Cuts[b] |-> Junk]]
    /\ code = "" /\ cb = NoJob /\ pending = 0 /\ running = NoJob
    /\ wedged = FALSE /\ label = NoJob /\ fd = FALSE
    /\ fail = 0 /\ bufs = 0 /\ report = [name |-> "", pass |-> TRUE]
    /\ faults = 0 /\ fault = FALSE /\ ran = FALSE /\ done = FALSE

Fault == faults < MaxFaults /\ faults' = faults + 1 /\ fault' = TRUE
-----------------------------------------------------------------------------
(* main                                                                    *)
\* Opening the device; the rest of the bring-up is best effort.
pai_gc_init == fd' = TRUE /\ UNCHANGED <<cb, pending, running, wedged, label>>

Boot ==
    /\ pc = "boot"
    /\ \/ pc' = "exit" /\ fail' = 3 /\ UNCHANGED gpu        \* runtime init failed
       \/ pc' = "exit" /\ UNCHANGED <<fail, gpu>>           \* no GPU: skipped
       \/ pc' = "alloc" /\ pai_gc_init /\ UNCHANGED fail
    /\ UNCHANGED <<exp, st, fence, ok, rc, mem, code, bufs, report, hist>>

pai_gc_buffer_alloc == bufs < 7 /\ bufs' = bufs + 1
m0_ctx_alloc_buffers ==
    /\ pc = "alloc"
    /\ \/ pai_gc_buffer_alloc /\ UNCHANGED <<pc, fail>>
       \/ bufs < 7 /\ fail' = 3 /\ pc' = "out" /\ UNCHANGED bufs
       \/ bufs = 7 /\ pc' = "begin" /\ UNCHANGED <<bufs, fail>>
    /\ UNCHANGED <<exp, st, fence, ok, rc, mem, code, gpu, report, hist>>

\* Closing the device drops what was queued and what was hanging; without a
\* device every submit is refused until a later reset opens it.
pai_gc_reset_keeps_wedge(opened) ==                      \* mutant
    /\ fd' = opened
    /\ pending' = 0 /\ running' = NoJob /\ UNCHANGED <<cb, wedged, label>>
pai_gc_reset(opened) ==
    /\ fd' = opened
    /\ pending' = 0 /\ running' = NoJob /\ wedged' = FALSE /\ UNCHANGED <<cb, label>>

Skipped == \/ Row.after # "" /\ report # [name |-> Row.after, pass |-> TRUE]
           \/ Row.name = "C" /\ fail # 0
Begin ==
    /\ pc = "begin" /\ exp <= N
    /\ st' = 1 /\ fence' = 1
    /\ IF Skipped
       THEN exp' = exp + 1 /\ UNCHANGED <<pc, ok, gpu, hist>>
       ELSE /\ pc' = "prepare" /\ ok' = (Row.mode # "retry") /\ UNCHANGED exp
            /\ ran' = FALSE /\ done' = FALSE
            /\ IF Row.reset
               THEN \/ pai_gc_reset(TRUE) /\ fault' = FALSE /\ UNCHANGED faults
                    \/ pai_gc_reset(FALSE) /\ Fault
               ELSE UNCHANGED <<gpu, faults, fault>>
    /\ UNCHANGED <<rc, mem, code, fail, bufs, report>>

\* An extra buffer that cannot be allocated, or no ring to read in G17,
\* fails the experiment without a dispatch.
Unavailable ==
    /\ pc = "prepare" /\ fence = 1 /\ (S.extra \/ Row.name = "G17")
    /\ pc' = "report" /\ ok' = FALSE /\ Fault
    /\ UNCHANGED <<exp, st, fence, rc, mem, code, gpu, fail, bufs, report, ran, done>>

\* The kernel's words go to the code buffer; a DMA stream has none.
m0_build_dispatch_stream(s) == IF s.kern = "dma" THEN code ELSE s.kern

\* The experiment's own writes (first fence only), then m0_run_gpu's fill of
\* the watched bytes and its cleared label.
FillWatch_once(m) == IF fence = 1 /\ st = 1 THEN m ELSE Put(m, S.watch)  \* mutant
FillWatch(m) == Put(m, S.watch)
Prepare ==
    /\ pc = "prepare"
    /\ mem' = FillWatch(IF fence = 1 THEN PutAll(mem, S.cpu) ELSE mem)
    /\ code' = m0_build_dispatch_stream(S)
    /\ label' = NoJob /\ done' = FALSE
    /\ ran' = (fence > 1 /\ ran)
    /\ pc' = "submit"
    /\ UNCHANGED <<exp, st, fence, ok, rc, cb, pending, running, wedged, fd, fail, bufs, report,
                   faults, fault>>

NextFence == IF fence < Fences THEN fence' = fence + 1 /\ pc' = "prepare" /\ UNCHANGED rc
                           ELSE rc' = FALSE /\ pc' = "check" /\ UNCHANGED fence

\* The stream is in the command buffer even when the submit is refused.
pai_gc_submit_stream == cb' = LabelValue(exp, st, fence)
pai_gc_submit == fd /\ pending' = IF wedged THEN pending ELSE pending + 1
Submit ==
    /\ pc = "submit"
    /\ pai_gc_submit_stream
    /\ \/ pai_gc_submit /\ pc' = "wait" /\ UNCHANGED <<fence, rc, faults, fault>>
       \/ fd /\ Fault /\ NextFence /\ UNCHANGED pending
       \/ ~fd /\ NextFence /\ UNCHANGED <<pending, faults, fault>>
    /\ UNCHANGED <<exp, st, ok, mem, code, running, wedged, label, fd, fail, bufs, report,
                   ran, done>>

\* The poll sees the value it waits for.
pai_gc_wait_label == label = LabelValue(exp, st, fence)
Observed ==
    /\ pc = "wait" /\ pai_gc_wait_label
    /\ rc' = TRUE /\ pc' = "check"
    /\ UNCHANGED <<exp, st, fence, ok, mem, code, gpu, fail, bufs, report, hist>>

\* The wait times out; changed bytes in the watched range also count as
\* execution, except in a timed iteration.
TimedOut ==
    /\ pc = "wait" /\ ~pai_gc_wait_label
    /\ IF pending > 0 \/ running # NoJob THEN Fault ELSE UNCHANGED <<faults, fault>>
    /\ IF ~S.timed /\ ~Holds(mem, S.watch)
       THEN rc' = TRUE /\ pc' = "check" /\ UNCHANGED fence
       ELSE NextFence
    /\ UNCHANGED <<exp, st, ok, mem, code, gpu, fail, bufs, report, ran, done>>

\* What the read-back of step s of row r shows, alone and with the steps
\* before it.
Good(r, s) ==
    \/ s.chk = Nowhere
    \/ r.any /\ \A lo \in DOMAIN mem[s.chk[1]] : s.chk[2] <= lo /\ lo < s.chk[3] =>
                                              mem[s.chk[1]][lo] # s.watch[4]
    \/ ~r.any /\ Holds(mem, Append(s.chk, s.val))
Verdict(r, s) == LET g == Good(r, s) /\ (r.strict => rc)
                 IN  IF r.mode \in {"all", "stop"} THEN ok /\ g ELSE g
Ends(r, v) == \/ st = Len(r.steps)
              \/ r.mode = "stop" /\ ~v
              \/ r.mode = "retry" /\ v
\* The verdict of a part of a series is given when the part ends.
Says(r, s, v) == s.say # "" /\ (Ends(r, v) \/ r.steps[st + 1].say # s.say)
Check ==
    /\ pc = "check"
    /\ \E r \in {Row}, s \in {S} : \E v \in {Verdict(r, s)} :
          /\ ok' = v
          /\ IF Ends(r, v) THEN pc' = "report" /\ UNCHANGED <<st, fence>>
                           ELSE pc' = "prepare" /\ st' = st + 1 /\ fence' = 1
          /\ report' = IF Says(r, s, v) THEN [name |-> s.say, pass |-> v] ELSE report
    /\ UNCHANGED <<exp, rc, mem, code, gpu, fail, bufs, hist>>

StageFail == IF Row.name = "A" THEN 1 ELSE IF Row.name \in {"B0", "B"} THEN 2 ELSE 0
Report ==
    /\ pc = "report"
    /\ report' = IF Row.verdict THEN [name |-> Row.name, pass |-> ok] ELSE report
    /\ fail' = IF ok \/ (fail \div (IF StageFail = 0 THEN 1 ELSE StageFail)) % 2 = 1
               THEN fail ELSE fail + StageFail
    /\ exp' = exp + 1 /\ pc' = IF exp = N THEN "out" ELSE "begin"
    /\ UNCHANGED <<st, fence, ok, rc, mem, code, gpu, bufs, hist>>

NothingLeft ==
    /\ pc = "begin" /\ exp > N /\ pc' = "out"
    /\ UNCHANGED <<exp, st, fence, ok, rc, mem, code, gpu, fail, bufs, report, hist>>

pai_gc_shutdown == fd' = FALSE /\ pending' = 0 /\ running' = NoJob
m0_ctx_free_buffers ==
    /\ pc = "out" /\ pc' = "exit" /\ bufs' = 0
    /\ pai_gc_shutdown
    /\ UNCHANGED <<exp, st, fence, ok, rc, mem, code, cb, wedged, label, fail, report, hist>>
-----------------------------------------------------------------------------
(* The GPU, as the harness uses it.                                        *)
StepOf(job) == Program[job[1]].steps[job[2]]
GpuFetch ==
    /\ pending > 0 /\ running = NoJob
    /\ pending' = pending - 1 /\ running' = cb
    /\ UNCHANGED <<pc, exp, st, fence, ok, rc, mem, code, cb, wedged, label, fd, fail, bufs,
                   report, hist>>

Works(s) == (s.kern = "dma" \/ code = s.kern) /\ \A w \in Needs(s) : Holds(mem, w)
GpuComplete ==
    /\ running # NoJob
    /\ LET s == StepOf(running) IN
       \E right, labelled \in BOOLEAN :
          /\ mem' = Put(mem, Append(Lasts(s), IF right /\ Works(s) THEN s.val ELSE Junk))
          /\ label' = IF labelled THEN running ELSE label
          /\ IF right /\ labelled THEN UNCHANGED <<faults, fault>> ELSE Fault
    /\ ran' = (ran \/ running[1] = exp)
    /\ done' = (done \/ running = <<exp, st, fence>>)
    /\ running' = NoJob
    /\ UNCHANGED <<pc, exp, st, fence, ok, rc, code, cb, pending, wedged, fd, fail, bufs, report>>

GpuWedge ==
    /\ pending > 0 \/ running # NoJob
    /\ wedged' = TRUE /\ pending' = 0 /\ running' = NoJob /\ Fault
    /\ UNCHANGED <<pc, exp, st, fence, ok, rc, mem, code, cb, label, fd, fail, bufs, report,
                   ran, done>>
-----------------------------------------------------------------------------
Host == \/ Boot \/ m0_ctx_alloc_buffers \/ Begin \/ Unavailable \/ Prepare \/ Submit
        \/ Observed \/ Check \/ Report \/ NothingLeft \/ m0_ctx_free_buffers
Gpu == GpuFetch \/ GpuComplete \/ GpuWedge
Next == Host \/ TimedOut \/ Gpu
\* The host never blocks; a wait ends by its label or by its deadline.
Spec == Init /\ [][Next]_vars /\ WF_vars(Host) /\ WF_vars(Gpu) /\ WF_vars(TimedOut)
-----------------------------------------------------------------------------
\* A read-back that shows the expected words rests on a job of this very
\* experiment that completed after the bytes were prepared: no words left by
\* an earlier experiment, and no job queued before the reset, passes for it.
\* It is claimed of the experiments that m0_exp_report reports and of the
\* timed iterations that make a size of the bandwidth series VALIDATED.  The
\* warm-up before them is not one: the series starts without a reset, and a late
\* job of M1D produces the words its warm-up expects.
PassMeansRan ==
    pc = "check" /\ (Row.verdict \/ (S.timed /\ rc)) /\ S.chk # Nowhere /\ Good(Row, S) => ran

\* An experiment fails only because something failed on the way since its
\* reset: the row's own setup gives a correct GPU the input it needs.  H11, H12
\* and G19 fail on a correct GPU too: the fill before their dispatch destroys
\* what they read.
FailBlamesGpu == pc = "report" /\ ~ok /\ Row.name \notin SelfDefeating => fault

\* A label taken for the end of a submission is that submission's own: not
\* the late label of the fence tried before it.
EopMeansDone == [][pc = "wait" /\ label = LabelValue(exp, st, fence) /\ rc' => done]_vars

=============================================================================
