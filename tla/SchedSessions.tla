--------------------------- MODULE SchedSessions ---------------------------
(***************************************************************************)
(* The scheduler's session registry (scheduler/scheduler.c): a fixed table *)
(* of slots, reused after destruction, handing out ids that must never be  *)
(* mistaken for an earlier session's.  Callers keep ids and pass them back *)
(* whenever they like, also long after the session is gone.                *)
(***************************************************************************)
EXTENDS Integers, FiniteSets

CONSTANTS
  MaxSlots,     \* PAI_SCHED_MAX_SESSIONS
  Priorities,   \* priorities callers use
  MaxCreates    \* bound: sessions created in a behaviour

ASSUME SlotsAssumption == MaxSlots \in Nat \ {0} /\ MaxCreates \in Nat
ASSUME PrioritiesAssumption == Priorities \subseteq Int /\ Priorities # {}

VARIABLES
  id,         \* slots[i].id
  priority,   \* slots[i].priority
  active,     \* slots[i].active
  count,      \* sessions->count
  next_id,    \* sessions->next_id
  live,       \* history: ids created and not destroyed since
  last        \* history: the last call and its result

vars == <<id, priority, active, count, next_id, live, last>>

Slots == 1..MaxSlots
Ids == 1..MaxCreates
Call == [op: {"none", "create", "destroy"}, ok: BOOLEAN]

FirstFree_any(i) == i = 1                                \* mutant

\* The first free slot; create scans the table from its start.
FirstFree(i) == ~active[i] /\ \A j \in Slots : ~active[j] => i <= j

pai_sched_session_create_reuse(p) ==                     \* mutant
  /\ next_id <= MaxCreates
  /\ \E i \in Slots :
       /\ FirstFree(i)
       /\ id' = [id EXCEPT ![i] = i]
       /\ priority' = [priority EXCEPT ![i] = p]
       /\ active' = [active EXCEPT ![i] = TRUE]
       /\ live' = live \cup {i}
  /\ next_id' = next_id + 1
  /\ count' = count + 1
  /\ last' = [op |-> "create", ok |-> TRUE]

\* A session takes the first free slot and the next id.
pai_sched_session_create(p) ==
  /\ next_id <= MaxCreates
  /\ \E i \in Slots :
       /\ FirstFree(i)
       /\ id' = [id EXCEPT ![i] = next_id]
       /\ priority' = [priority EXCEPT ![i] = p]
       /\ active' = [active EXCEPT ![i] = TRUE]
       /\ live' = live \cup {next_id}
  /\ next_id' = next_id + 1
  /\ count' = count + 1
  /\ last' = [op |-> "create", ok |-> TRUE]

\* PAI_ERR_NOMEM: no slot is free.
create_refused_early ==                                  \* mutant
  /\ count >= MaxSlots - 1
  /\ last' = [op |-> "create", ok |-> FALSE]
  /\ UNCHANGED <<id, priority, active, count, next_id, live>>
create_refused ==
  /\ \A i \in Slots : active[i]
  /\ last' = [op |-> "create", ok |-> FALSE]
  /\ UNCHANGED <<id, priority, active, count, next_id, live>>

Holds(i, s) == active[i] /\ id[i] = s

\* The session's slot is freed; its id and priority stay behind in it.
pai_sched_session_destroy(s) ==
  /\ \E i \in Slots :
       /\ Holds(i, s)
       /\ active' = [active EXCEPT ![i] = FALSE]
  /\ count' = count - 1
  /\ live' = live \ {s}
  /\ last' = [op |-> "destroy", ok |-> TRUE]
  /\ UNCHANGED <<id, priority, next_id>>

\* PAI_ERR_MISMATCH: an id that names no active session.
destroy_refused(s) ==
  /\ \A i \in Slots : ~Holds(i, s)
  /\ last' = [op |-> "destroy", ok |-> FALSE]
  /\ UNCHANGED <<id, priority, active, count, next_id, live>>

pai_sched_session_active(s) == \E i \in Slots : Holds(i, s)

pick_first(i, j) == priority[j] < priority[i] \/ (priority[j] = priority[i] /\ i <= j)

\* The slot the scan settles on: a later slot displaces an earlier one only
\* with a higher priority.  0 when nothing is active.
pai_sched_pick_session ==
  IF \E i \in Slots : active[i]
    THEN CHOOSE i \in Slots :
           active[i] /\ \A j \in Slots : active[j] => pick_first(i, j)
    ELSE 0

-----------------------------------------------------------------------------

Init ==
  /\ id = [i \in Slots |-> 0]
  /\ priority = [i \in Slots |-> 0]
  /\ active = [i \in Slots |-> FALSE]
  /\ count = 0
  /\ next_id = 1
  /\ live = {}
  /\ last = [op |-> "none", ok |-> TRUE]

Next ==
  \/ \E p \in Priorities : pai_sched_session_create(p)
  \/ create_refused
  \/ \E s \in Ids : pai_sched_session_destroy(s) \/ destroy_refused(s)

Spec == Init /\ [][Next]_vars

-----------------------------------------------------------------------------

\* Ids start at 1, so that 0 never names a session.
TypeOK ==
  /\ id \in [Slots -> Nat]
  /\ priority \in [Slots -> Int]
  /\ active \in [Slots -> BOOLEAN]
  /\ count \in Int
  /\ next_id \in Nat \ {0}
  /\ live \subseteq Nat
  /\ last \in Call

\* The registry is the set of live sessions: the ids callers hold are, one
\* slot each, the ids of the active slots, and every id ever handed out is
\* below the next one.
RegistryExact ==
  /\ live = {id[i] : i \in {j \in Slots : active[j]}}
  /\ \A i, j \in Slots : active[i] /\ active[j] /\ id[i] = id[j] => i = j
  /\ \A i \in Slots : id[i] < next_id

\* count, which callers read without scanning, is the number of live
\* sessions; so it is never negative and never above the table's size.
CountExact == count = Cardinality(live)

NoRevival ==
  \A s \in Ids : s < next_id /\ s \notin live =>
    /\ ~pai_sched_session_active(s)'
    /\ s \notin live'

\* A destroyed session's id stays dead: no later session, in its slot or
\* another, answers to it.
DeadStaysDead == [][NoRevival]_vars

\* However sessions came and went, no slot is lost and none is overlooked: a
\* create is refused only while every slot holds a live session, and the pick
\* is a live session of the highest priority whenever there is one.  Of several
\* it is the one in the lowest slot, which is not always the one with the lowest
\* id that scheduler.h promises: a slot used again holds a younger session.
NoSlotLost ==
  /\ last = [op |-> "create", ok |-> FALSE] => Cardinality(live) = MaxSlots
  /\ LET i == pai_sched_pick_session IN
     IF live = {} THEN i = 0
     ELSE /\ i \in Slots /\ active[i]
          /\ \A j \in Slots : active[j] => priority[j] <= priority[i]

=============================================================================
