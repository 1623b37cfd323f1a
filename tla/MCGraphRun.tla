----------------------------- MODULE MCGraphRun -----------------------------
(* Small plans and small graphs for TLC: MemPlanner alone, and GraphRun. *)
EXTENDS GraphRun

Req(size, align, start, end, pinned) ==
  [size |-> size, align |-> align, start |-> start, end |-> end,
   pinned |-> pinned]

\* Sizes and alignments that leave gaps on both sides of a reused range, and
\* lifetimes that touch, nest and overlap.
MCRequests ==
  {Req(3, 1, 0, 1, FALSE), Req(1, 2, 0, 1, FALSE), Req(2, 1, 0, 2, FALSE),
   Req(1, 1, 1, 2, FALSE), Req(1, 2, 1, 3, FALSE), Req(4, 2, 2, 3, FALSE),
   Req(2, 2, 2, 3, FALSE), Req(2, 2, 0, 1, TRUE), Req(1, 1, 1, 3, TRUE)}

MCSizes == <<2, 1, 1, 2>>
MCDtypes == <<{TRUE}, {TRUE}, {TRUE}, {TRUE, FALSE}>>
MCKinds == <<{"gemm"}, {"add"}, {"convert", "custom"}>>
\* The order of two inputs says nothing; one of them may come twice.
MCInputLists == {<<a>> : a \in 1..4} \cup {<<1, 2>>, <<1, 3>>, <<2, 3>>, <<2, 4>>, <<3, 4>>, <<3, 3>>}
MCHints == <<"any", "any", "cpu">>

\* Without a graph, callers add allocations of every kind and build plans.
PlannerAlone == values = <<>> /\ Next /\ UNCHANGED gvars

\* A graph begins with a planner of its own, whose arena is not aligned.
FromGraph == (values = <<>> => allocs = <<>> /\ arena_align = 0) /\ GNext

PlanSpec == GInit /\ [][PlannerAlone \/ FromGraph]_<<planner, gvars>>
=============================================================================
