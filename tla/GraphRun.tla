------------------------------ MODULE GraphRun ------------------------------
(***************************************************************************)
(* From a graph to its runs: construction, topological sort and value      *)
(* lifetimes (graph/graph.c), the layout of the values by the static       *)
(* planner (MemPlanner), the execution plan and the reference executor     *)
(* (scheduler/scheduler.c), run again and again over one region as a       *)
(* session does (models/model.c).                                          *)
(*                                                                         *)
(* What a cell of the region holds is the value it belongs to and the run  *)
(* that wrote it.  Shapes are not modelled: any step but a convert, whose   *)
(* shapes are not compared, may be refused for its shapes.                 *)
(***************************************************************************)
EXTENDS MemPlanner, SequencesExt

CONSTANTS
  Sizes,      \* bytes of each value
  Dtypes,     \* for each value, whether its element type may be f32
  Kinds,      \* for each op, the kinds it may have
  InputLists, \* lists of inputs an op may be given
  Policies,   \* scheduling policies in use
  Hints,      \* device hint of each op: "any", "cpu" or "gpu"
  InputValue, \* the value the caller writes before every run
  MaxRuns     \* bound on the runs of one plan

ASSUME GraphAssumption ==
  /\ Sizes \in Seq(Nat \ {0})
  /\ InputLists \subseteq Seq(DOMAIN Sizes)
  /\ \A i \in DOMAIN Sizes : Dtypes[i] \subseteq BOOLEAN
  /\ Kinds \in Seq(SUBSET STRING)
  /\ MaxRuns \in Nat

VARIABLES
  values,     \* graph->values: size, element type, producer (0: none), output
  ops,        \* graph->ops: kind, inputs, output (the bound: one output)
  indegree,   \* of the sort: inputs of each op that are still to come,
  queue,      \*   the ops that wait for nothing, in order,
  head,       \*   the one whose consumers are scanned (0: none yet),
  scan,       \*   and the op looked at next
  epoch,      \* position of each op once sorted
  stage,      \* what the caller is doing
  persistent, \* which lifetimes it asked for
  mem_plan,   \* pai_graph_mem_plan_t
  plan,       \* steps of pai_sched_plan_t
  region,     \* what each cell holds
  run,        \* runs so far
  step,       \* next step of this run
  gated,      \* the run went through the kernel table
  status      \* result of the last call

sort == <<indegree, queue, head, scan>>
gvars == <<values, ops, sort, epoch, stage, persistent, mem_plan, plan, region, run,
           step, gated, status>>
planner == <<allocs, arena_align, phase, offsets, live, free, pool_used, cursor,
             peak_live>>
ValueIds == DOMAIN values
OpIds == DOMAIN ops
NoPlan == [offsets |-> <<>>, region |-> 0, peak |-> 0]

GInit ==
  /\ Init
  /\ values = <<>> /\ ops = <<>> /\ epoch = <<>> /\ stage = "build"
  /\ indegree = <<>> /\ queue = <<>> /\ head = 0 /\ scan = 1
  /\ persistent = FALSE /\ mem_plan = NoPlan /\ plan = <<>> /\ region = <<>>
  /\ run = 0 /\ step = 0 /\ gated = FALSE /\ status = "ok"
-----------------------------------------------------------------------------
(* Construction; a call that is refused changes nothing.                   *)
pai_graph_add_value ==
  /\ stage = "build" /\ ops = <<>> /\ Len(values) < Len(Sizes)
  /\ \E f32 \in Dtypes[Len(values) + 1] :
       values' = Append(values, [size |-> Sizes[Len(values) + 1], f32 |-> f32,
                                 producer |-> 0, is_output |-> FALSE])
  /\ UNCHANGED <<planner, ops, sort, epoch, stage, persistent, mem_plan, plan, region,
                 run, step, gated, status>>

\* A value has one producer, and no op consumes what it produces.
pai_graph_add_op(kind, ins, out) ==
  /\ stage = "build" /\ Len(ops) < Len(Kinds) /\ kind \in Kinds[Len(ops) + 1]
  /\ values[out].producer = 0 /\ out \notin ToSet(ins)
  /\ ops' = Append(ops, [kind |-> kind, ins |-> ins, out |-> out])
  /\ values' = [values EXCEPT ![out].producer = Len(ops) + 1]
  /\ UNCHANGED <<planner, sort, epoch, stage, persistent, mem_plan, plan, region, run,
                 step, gated, status>>

\* The bound: one output, marked before the ops are added.
pai_graph_set_output(v) ==
  /\ stage = "build" /\ ops = <<>> /\ \A w \in ValueIds : ~values[w].is_output
  /\ values' = [values EXCEPT ![v].is_output = TRUE]
  /\ UNCHANGED <<planner, ops, sort, epoch, stage, persistent, mem_plan, plan, region,
                 run, step, gated, status>>
-----------------------------------------------------------------------------
(* Sort and lifetimes.                                                     *)
Producer(v) == values[v].producer
Uses(c, v) == Cardinality({j \in DOMAIN ops[c].ins : ops[c].ins[j] = v})

\* pai_graph_topo_sort: count the inputs each op waits for.
SortGraph ==
  /\ stage = "build" /\ Len(values) = Len(Sizes)
  /\ indegree' = [o \in OpIds |->
                    Cardinality({j \in DOMAIN ops[o].ins :
                                   Producer(ops[o].ins[j]) \notin {0, o}})]
  /\ queue' = <<>> /\ head' = 0 /\ scan' = 1 /\ stage' = "seed"
  /\ UNCHANGED <<planner, values, ops, epoch, persistent, mem_plan, plan, region,
                 run, step, gated, status>>

\* Ops that wait for nothing are queued, in the order of their ids.
SortSeed ==
  /\ stage = "seed"
  /\ IF scan <= Len(ops)
     THEN /\ queue' = IF indegree[scan] = 0 THEN Append(queue, scan) ELSE queue
          /\ scan' = scan + 1 /\ UNCHANGED <<head, stage>>
     ELSE head' = 1 /\ scan' = 1 /\ stage' = "sort" /\ UNCHANGED queue
  /\ UNCHANGED <<planner, values, ops, indegree, epoch, persistent, mem_plan, plan,
                 region, run, step, gated, status>>

\* What op c consumes of the output of o.
Consumes(c, o) == IF c = o THEN 0 ELSE Uses(c, ops[o].out)

QueuedBy_eager(c, o) == Consumes(c, o) > 0                       \* mutant

\* Counting down the uses of o's output, c comes to wait for nothing.
QueuedBy(c, o) == indegree[c] \in 1..Consumes(c, o)

\* The op at the head of the queue is done: one of its consumers.
SortScan ==
  LET o == queue[head]
      c == scan
  IN /\ stage = "sort" /\ head <= Len(queue)
     /\ IF c <= Len(ops)
        THEN /\ indegree' = [indegree EXCEPT ![c] = @ - Consumes(c, o)]
             /\ queue' = IF QueuedBy(c, o) THEN Append(queue, c) ELSE queue
             /\ scan' = c + 1 /\ UNCHANGED head
        ELSE head' = head + 1 /\ scan' = 1 /\ UNCHANGED <<indegree, queue>>
     /\ UNCHANGED <<planner, values, ops, epoch, stage, persistent, mem_plan, plan,
                    region, run, step, gated, status>>

\* The queue is the order, unless a cycle has kept an op out of it.  Which
\* lifetimes the caller asks for matters from here on.
Epochs(order) == [o \in OpIds |-> CHOOSE i \in DOMAIN order : order[i] = o]
SortEnds(p) ==
  /\ stage = "sort" /\ head = Len(queue) + 1
  /\ persistent' = p
  /\ indegree' = <<>> /\ queue' = <<>> /\ head' = 0 /\ scan' = 1
  /\ IF Len(queue) = Len(ops)
     THEN epoch' = Epochs(queue) /\ stage' = "plan" /\ UNCHANGED status
     ELSE stage' = "refused" /\ status' = "mismatch" /\ UNCHANGED epoch
  /\ UNCHANGED <<planner, values, ops, mem_plan, plan, region, run, step, gated>>

\* Epochs count from 0 in the code and from 1 in the order.
Start(v) == IF Producer(v) = 0 THEN 0 ELSE epoch[Producer(v)] - 1
LastUse(v) == Max({epoch[o] - 1 : o \in {o \in OpIds : Uses(o, v) > 0}})
pai_graph_value_lifetimes_short(v) ==                         \* mutant
  IF values[v].is_output THEN Len(ops)
  ELSE IF (\E o \in OpIds : Uses(o, v) > 0) /\ LastUse(v) > Start(v) THEN LastUse(v)
  ELSE Start(v) + 1
pai_graph_value_lifetimes(v) ==
  IF values[v].is_output THEN Len(ops)
  ELSE IF \E o \in OpIds : Uses(o, v) > 0 THEN LastUse(v) + 1
  ELSE Start(v) + 1
\* Inputs and parameters live on when the plan is run again.
EndOf_transient(v) == pai_graph_value_lifetimes(v)              \* mutant
EndOf(v) ==
  IF persistent /\ Producer(v) = 0 THEN Len(ops) ELSE pai_graph_value_lifetimes(v)
-----------------------------------------------------------------------------
(* graph_memory_plan_impl, over the planner.                               *)
\* An empty lifetime is refused: a graph without ops has nothing to plan.
AddToPlanner ==
  LET v == Len(allocs) + 1 IN
  /\ stage = "plan" /\ phase = "adding" /\ v \in ValueIds
  /\ IF EndOf(v) <= Start(v)
     THEN stage' = "refused" /\ status' = "invalid" /\ UNCHANGED planner
     ELSE /\ planner_add_common([size |-> values[v].size, align |-> 1, start |-> Start(v),
                                 end |-> EndOf(v), pinned |-> FALSE])
          /\ UNCHANGED <<stage, status>>
  /\ UNCHANGED <<values, ops, sort, epoch, persistent, mem_plan, plan, region, run, step, gated>>

PlannerRuns ==
  /\ stage = "plan"
  /\ \/ Len(allocs) = Len(values) /\ pai_mem_plan_build
     \/ Sweep
  /\ UNCHANGED gvars

\* The offsets are copied, the region comes cleared from calloc and the
\* parameters are loaded into it.
Cells(v) == mem_plan.offsets[v]..(mem_plan.offsets[v] + values[v].size - 1)
pai_graph_memory_plan ==
  /\ stage = "plan" /\ phase = "done"
  /\ mem_plan' = [offsets |-> offsets, region |-> region_bytes, peak |-> peak_live]
  /\ pai_mem_plan_free /\ stage' = "planned"
  /\ UNCHANGED <<values, ops, sort, epoch, persistent, plan, region, run, step, gated, status>>
-----------------------------------------------------------------------------
(* The execution plan.                                                     *)
default_device(kind) == IF kind \in {"gemm", "attention", "softmax"} THEN "gpu" ELSE "cpu"
is_compute_kind(kind) == kind \in {"gemm", "attention", "softmax", "add", "rmsnorm", "rope"}
resolve_device(o, policy) ==
  IF Hints[o] # "any" THEN Hints[o]
  ELSE IF policy = "exclusive" /\ is_compute_kind(ops[o].kind) THEN "gpu"
  ELSE default_device(ops[o].kind)
Bytes(V) == MapThenSumSet(LAMBDA v : values[v].size, V)
\* The accounting of step s (from 0).
StepOf(o, policy, s) ==
  LET produced == Bytes({v \in ValueIds : Start(v) = s})
  IN  [op |-> o, device |-> resolve_device(o, policy), produced |-> produced,
       released |-> Bytes({v \in ValueIds : EndOf(v) = s}),
       live |-> produced + Bytes({v \in ValueIds : Start(v) < s /\ EndOf(v) > s})]
\* The sources a session loads once, and the ones written before each run.
Sources == {v \in ValueIds : Producer(v) = 0}
Rewritten == IF persistent THEN Sources \cap {InputValue} ELSE Sources
Holds(v, r) == [value |-> v, run |-> r]
Written(V, r, old) ==
  [c \in DOMAIN old |-> IF \E v \in V : c \in Cells(v)
                        THEN Holds(CHOOSE v \in V : c \in Cells(v), r) ELSE old[c]]
sched_build_impl ==
  /\ stage = "planned"
  /\ \E policy \in Policies :
       plan' = [i \in OpIds |-> StepOf(CHOOSE o \in OpIds : epoch[o] = i, policy, i - 1)]
  /\ region' = Written(Sources, 0, [c \in 0..(mem_plan.region - 1) |-> Holds(0, 0)])
  /\ stage' = "ready"
  /\ UNCHANGED <<planner, values, ops, sort, epoch, persistent, mem_plan, run, step, gated, status>>
-----------------------------------------------------------------------------
(* Runs.                                                                   *)
op_registry_name(kind) == IF kind = "custom" THEN "" ELSE kind
pai_kernel_select(o) == op_registry_name(ops[o].kind) # ""
pai_kernel_plan_check_short == \A i \in 1..(Len(plan) - 1) : pai_kernel_select(plan[i].op)  \* mutant
pai_kernel_plan_check == \A i \in DOMAIN plan : pai_kernel_select(plan[i].op)

\* The caller writes the inputs and calls pai_sched_execute, or the variant
\* that asks the kernel table first.
StartRun(gate) ==
  /\ stage = "ready" /\ run < MaxRuns
  /\ run' = run + 1 /\ gated' = gate /\ step' = 1
  /\ region' = Written(Rewritten, run + 1, region)
  /\ IF gate /\ ~pai_kernel_plan_check
     THEN status' = "unsupported" /\ UNCHANGED stage
     ELSE status' = "ok" /\ stage' = "running"
  /\ UNCHANGED <<planner, values, ops, sort, epoch, persistent, mem_plan, plan>>

Op == ops[plan[step].op]
NotF32(op) == \E v \in ToSet(op.ins) \cup {op.out} : ~values[v].f32
ManyInputs(op) == op.kind = "convert" /\ Len(op.ins) # 1
\* What the executor can answer for an op: an element type other than f32, a
\* kind without a kernel and a convert of several inputs are unsupported;
\* shapes may not match, but those of a convert are not compared.
run_op(op) ==
  IF NotF32(op) \/ op.kind = "custom" \/ ManyInputs(op) THEN {"unsupported"}
  ELSE IF op.kind = "convert" THEN {"ok"}
  ELSE {"ok", "mismatch"}
\* The cells a step writes: its output's, and for a convert as many as its
\* input has, from where its output begins.
OpCells(op) ==
  LET first == mem_plan.offsets[op.out]
      from == IF op.kind = "convert" THEN op.ins[1] ELSE op.out
  IN  first..(first + values[from].size - 1)
Put(C, v, r, old) == [c \in DOMAIN old |-> IF c \in C THEN Holds(v, r) ELSE old[c]]
ExecuteStep ==
  /\ stage = "running" /\ step <= Len(plan)
  /\ \E st \in run_op(Op) :
       /\ status' = st
       /\ IF st = "ok" THEN /\ region' = Put(OpCells(Op), Op.out, run, region)
                            /\ step' = step + 1 /\ UNCHANGED stage
                       ELSE stage' = "ready" /\ UNCHANGED <<region, step>>
  /\ UNCHANGED <<planner, values, ops, sort, epoch, persistent, mem_plan, plan, run, gated>>

ExecuteEnds ==
  /\ stage = "running" /\ step = Len(plan) + 1
  /\ stage' = "ready"
  /\ UNCHANGED <<planner, values, ops, sort, epoch, persistent, mem_plan, plan, region, run,
                 step, gated, status>>

GNext ==
  \/ pai_graph_add_value
  \/ \E v \in ValueIds : pai_graph_set_output(v)
  \/ /\ Len(ops) < Len(Kinds) /\ Len(values) = Len(Sizes)
     /\ \E kind \in Kinds[Len(ops) + 1], ins \in InputLists, out \in ValueIds :
          pai_graph_add_op(kind, ins, out)
  \/ SortGraph \/ SortSeed \/ SortScan \/ \E p \in BOOLEAN : SortEnds(p)
  \/ AddToPlanner \/ PlannerRuns \/ pai_graph_memory_plan \/ sched_build_impl
  \/ \E gate \in BOOLEAN : StartRun(gate)
  \/ ExecuteStep \/ ExecuteEnds
GSpec == GInit /\ [][GNext]_<<planner, gvars>>
-----------------------------------------------------------------------------
(* Properties.                                                             *)
\* The run that wrote what v should hold now: this one, or the load.
RunOf(v) == IF v \in Sources \ Rewritten THEN 0 ELSE run
Intact(v) == \A c \in Cells(v) : region[c] = Holds(v, RunOf(v))

\* Every convert has an output of its input's size; nothing else compares them.
Sized ==
  \A o \in OpIds : ops[o].kind = "convert" /\ Len(ops[o].ins) = 1 =>
    values[ops[o].ins[1]].size = values[ops[o].out].size

\* A step reads what its producers wrote in this run, or what was loaded:
\* neither the order of the steps, nor storage shared between values, nor an
\* earlier run, complete or given up half way, has put anything else there;
\* nor does the step itself overwrite it while it reads.  Graphs with a convert
\* between values of different sizes are excepted: pai_ref_copy_f32 is given the
\* size of the input and spoils what lies behind a smaller output.
ReadsFresh ==
  Sized /\ stage = "running" /\ step <= Len(plan) =>
    \A v \in ToSet(Op.ins) :
      Intact(v) /\ ("ok" \in run_op(Op) => Cells(v) \cap OpCells(Op) = {})

\* After a complete run the outputs can be read where the plan has put them
\* (scheduler.h: "values live at region + pai_graph_mem_plan_offset"), and the
\* parameters of a persistent plan are as they were loaded.
Kept ==
  stage = "ready" /\ run > 0 /\ step = Len(plan) + 1 =>
    \A v \in ValueIds : values[v].is_output \/ (persistent /\ v \in Sources) => Intact(v)

\* This holds of every graph in which each convert has an output of its input's
\* size, over all orders, layouts, failures and runs of pai_sched_execute; one
\* unequal convert breaks it, and the run still answers ok.
ResultsKept == Sized => Kept

\* The sort succeeds exactly when the graph has no cycle, and then every op
\* has its own position, after the ops whose values it consumes.
Orders == {f \in [OpIds -> OpIds] :
             /\ \A o, q \in OpIds : f[o] = f[q] => o = q
             /\ \A o \in OpIds : \A v \in ToSet(ops[o].ins) :
                  Producer(v) # 0 => f[Producer(v)] < f[o]}
SortExact ==
  /\ stage = "refused" /\ status = "mismatch" => Orders = {}
  /\ stage \notin {"build", "seed", "sort", "refused"} => epoch \in Orders

\* A run that passed the kernel table is not stopped half way by an op
\* without a kernel: only an element type or a convert of several inputs, which
\* pai_kernel_plan_check does not look at, stops it as unsupported.  scheduler.h
\* says of the check, without exception, "before any memory is touched".
GateSound ==
  stage = "ready" /\ gated /\ status = "unsupported" /\ step > 1 =>
    NotF32(Op) \/ ManyInputs(Op)
=============================================================================
