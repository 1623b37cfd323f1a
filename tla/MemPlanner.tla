----------------------------- MODULE MemPlanner -----------------------------
(***************************************************************************)
(* The static memory planner (memory/planner.c).  Allocations with known   *)
(* lifetimes are laid out in one region by a sweep over their start steps: *)
(* expired ones go to a free list of ranges, later ones are placed best    *)
(* fit in it, and pinned ones come last, at the tail.                      *)
(*                                                                         *)
(* The free list is a set of ranges (the code keeps it sorted), and one    *)
(* expired allocation is released per step, in any order.                  *)
(***************************************************************************)
EXTENDS Integers, Sequences, FiniteSetsExt

CONSTANTS
  Requests,     \* allocations callers may register
  MaxAllocs,    \* PAI_MEM_PLANNER_MAX_ALLOCS
  PoolSize,     \* nodes of the free list's pool, never given back
  ArenaAligns   \* arena alignments set, 0 for unset

\* What planner_add_common accepts.
Allocations ==
  {r \in [size: Nat \ {0}, align: Nat \ {0}, start: Nat, end: Nat, pinned: BOOLEAN] :
     r.start < r.end}

ASSUME PlannerAssumption ==
  /\ Requests \subseteq Allocations
  /\ MaxAllocs \in Nat /\ PoolSize \in Nat /\ ArenaAligns \subseteq Nat

VARIABLES
  allocs,       \* planner->allocs, in the order they were added
  arena_align,  \* planner->arena_align
  phase,        \* "adding", "sweep", or "done": the plan is built
  offsets,      \* plan->offsets, of the allocations placed so far
  live,         \* allocations placed and not released
  free,         \* the free ranges
  pool_used,    \* nodes taken from the pool
  cursor,       \* end of the region laid out so far
  peak_live     \* plan->peak_live

vars == <<allocs, arena_align, phase, offsets, live, free, pool_used, cursor,
          peak_live>>

Idx == DOMAIN allocs
Placed == DOMAIN offsets

\* Round v up to a multiple of a.
pai_mem_align_up(v, a) == ((v + a - 1) \div a) * a

\* Bytes of the allocations S of the list as.
SumOf(as, S) == MapThenSumSet(LAMBDA i : as[i].size, S)
BytesOf(S) == SumOf(allocs, S)

Init ==
  /\ allocs = <<>>
  /\ arena_align \in ArenaAligns
  /\ phase = "adding"
  /\ offsets = <<>>
  /\ live = {} /\ free = {}
  /\ pool_used = 0 /\ cursor = 0 /\ peak_live = 0

\* pai_mem_planner_add and add_pinned; a full planner refuses.
planner_add_common(r) ==
  /\ phase = "adding" /\ Len(allocs) < MaxAllocs
  /\ allocs' = Append(allocs, r)
  /\ UNCHANGED <<arena_align, phase, offsets, live, free, pool_used, cursor,
                 peak_live>>

pai_mem_plan_build ==
  /\ phase = "adding" /\ allocs # <<>>
  /\ phase' = "sweep"
  /\ UNCHANGED <<allocs, arena_align, offsets, live, free, pool_used, cursor,
                 peak_live>>

(***************************************************************************)
(* The sweep.                                                              *)
(***************************************************************************)
\* alloc_cmp(a, b) < 0; ties are in no particular order.
Before(a, b) ==
  \/ ~a.pinned /\ b.pinned
  \/ /\ a.pinned = b.pinned
     /\ a.start < b.start \/ (a.start = b.start /\ a.end > b.end)

\* An allocation the sort may put next.
Upcoming(i) ==
  /\ phase = "sweep" /\ i \in Idx \ Placed
  /\ \A j \in Idx \ Placed : ~Before(allocs[j], allocs[i])

Expired_early(j, i) == allocs[j].end <= allocs[i].start + 1  \* mutant

Expired(j, i) == allocs[j].end <= allocs[i].start

Span(off, size) == [off |-> off, size |-> size]

\* free_list_insert, on a list F with u nodes used: merge with a neighbour
\* on either side, or take a new node; without one the range is dropped.
Inserted(F, u, off, size) ==
  LET prev == {r \in F : r.off + r.size = off}
      succ == {r \in F : off + size = r.off}
      p == IF prev # {} THEN CHOOSE r \in prev : TRUE ELSE Span(off, 0)
      q == IF succ # {} THEN CHOOSE r \in succ : TRUE ELSE Span(off + size, 0)
      merged == Span(p.off, p.size + size + q.size)
  IN IF prev \cup succ # {} THEN [list |-> (F \ (prev \cup succ)) \cup {merged},
                                  used |-> u]
     ELSE IF u >= PoolSize THEN [list |-> F, used |-> u]
     ELSE [list |-> F \cup {merged}, used |-> u + 1]

release(i, j) ==
  LET f == Inserted(free, pool_used, offsets[j], allocs[j].size) IN
  /\ Upcoming(i) /\ ~allocs[i].pinned
  /\ j \in live /\ Expired(j, i)
  /\ live' = live \ {j}
  /\ free' = f.list /\ pool_used' = f.used
  /\ UNCHANGED <<allocs, arena_align, phase, offsets, cursor, peak_live>>

\* The range holds the allocation at its alignment.
Fits(r, a) ==
  r.size >= (pai_mem_align_up(r.off, a.align) - r.off) + a.size

PeakWith_before(i) ==                                    \* mutant
  LET bytes == BytesOf(live) IN IF bytes > peak_live THEN bytes ELSE peak_live

PeakWith(i) ==
  LET bytes == BytesOf(live \cup {i}) IN IF bytes > peak_live THEN bytes ELSE peak_live

\* Place i at off: offsets is a partial function of the add order.
PlacedAt(i, off) ==
  offsets' = [k \in Placed \cup {i} |-> IF k = i THEN off ELSE offsets[k]]

\* Best fit: a smallest range that fits; what is left of it on either side
\* goes back to the list.
place_reuse(i) ==
  LET a == allocs[i]
      fitting == {r \in free : Fits(r, a)}
  IN /\ Upcoming(i) /\ ~a.pinned
     /\ \A j \in live : ~Expired(j, i)
     /\ fitting # {}
     /\ LET best == CHOOSE r \in fitting :
                      \A q \in fitting : r.size < q.size
                        \/ (r.size = q.size /\ r.off <= q.off)
            off == pai_mem_align_up(best.off, a.align)
            left == off - best.off
            right == best.size - left - a.size
            f0 == [list |-> free \ {best}, used |-> pool_used]
            f1 == IF left > 0 THEN Inserted(f0.list, f0.used, best.off, left)
                  ELSE f0
            f2 == IF right > 0
                  THEN Inserted(f1.list, f1.used, off + a.size, right) ELSE f1
        IN /\ PlacedAt(i, off)
           /\ free' = f2.list /\ pool_used' = f2.used
     /\ live' = live \cup {i}
     /\ peak_live' = PeakWith(i)
     /\ UNCHANGED <<allocs, arena_align, phase, cursor>>

Extend(i) ==
  LET off == pai_mem_align_up(cursor, allocs[i].align) IN
  /\ PlacedAt(i, off)
  /\ cursor' = off + allocs[i].size
  /\ live' = live \cup {i}
  /\ UNCHANGED <<allocs, arena_align, phase, free, pool_used>>

\* No range fits: the region grows.
place_extend(i) ==
  /\ Upcoming(i) /\ ~allocs[i].pinned
  /\ \A j \in live : ~Expired(j, i)
  /\ {r \in free : Fits(r, allocs[i])} = {}
  /\ Extend(i)
  /\ peak_live' = PeakWith(i)

\* Pinned allocations release nothing, reuse nothing and are not counted.
place_pinned(i) ==
  /\ Upcoming(i) /\ allocs[i].pinned
  /\ Extend(i)
  /\ UNCHANGED peak_live

Finish ==
  /\ phase = "sweep" /\ Placed = Idx
  /\ phase' = "done"
  /\ UNCHANGED <<allocs, arena_align, offsets, live, free, pool_used, cursor,
                 peak_live>>

\* The region is as long as the furthest allocation, rounded.

region_bytes ==
  pai_mem_align_up(cursor, IF arena_align = 0 THEN 1 ELSE arena_align)

\* The plan is given up and the planner initialised for another graph.
pai_mem_plan_free ==
  /\ phase = "done"
  /\ phase' = "adding"
  /\ allocs' = <<>> /\ offsets' = <<>>
  /\ live' = {} /\ free' = {}
  /\ pool_used' = 0 /\ cursor' = 0 /\ peak_live' = 0
  /\ UNCHANGED arena_align

Sweep ==
  \/ \E i \in Idx : \/ \E j \in live : release(i, j)
                    \/ place_reuse(i) \/ place_extend(i) \/ place_pinned(i)
  \/ Finish

Next ==
  \/ \E r \in Requests : planner_add_common(r)
  \/ pai_mem_plan_build \/ Sweep \/ pai_mem_plan_free

Spec == Init /\ [][Next]_vars

-----------------------------------------------------------------------------
(* Properties. *)

End(i) == offsets[i] + allocs[i].size
Disjoint(i, j) == End(i) <= offsets[j] \/ End(j) <= offsets[i]
Alive(i, step) == allocs[i].start <= step /\ step < allocs[i].end
Steps == UNION {allocs[i].start..(allocs[i].end - 1) : i \in Idx}

\* Two allocations alive at the same step never overlap, so that reuse is
\* invisible to the kernels that run at each step; a pinned one shares its
\* space with nothing, whatever the lifetimes.  In the end every allocation
\* lies in the region, at its alignment.
NoOverlap ==
  /\ \A i, j \in Placed :
       i # j /\ (allocs[i].pinned \/ \E s \in Steps : Alive(i, s) /\ Alive(j, s))
         => Disjoint(i, j)
  /\ phase = "done" =>
       /\ \A i \in Placed : End(i) <= region_bytes /\ offsets[i] % allocs[i].align = 0
       /\ arena_align # 0 => region_bytes % arena_align = 0

\* What the reusable allocations placed so far need at a step.
Reusable(s) == {i \in Placed : ~allocs[i].pinned /\ Alive(i, s)}
Need(s) == BytesOf(Reusable(s))

\* peak_live is what the reusable allocations need at their worst step, and
\* no layout can do with less.  The pinned ones, which the code sums up apart
\* in pinned_bytes, are not in it: see PeakCountsLive.
PeakExact ==
  phase = "done" =>
    /\ \A s \in Steps : Need(s) <= peak_live
    /\ peak_live = 0 \/ \E s \in Steps : Need(s) = peak_live
    /\ peak_live <= region_bytes

\* planner.h says of peak_live: "max concurrently-live bytes at a step".  No step
\* has more bytes alive, pinned or not.
PeakCountsLive ==
  phase = "done" => \A s \in Steps : BytesOf({i \in Placed : Alive(i, s)}) <= peak_live

=============================================================================
