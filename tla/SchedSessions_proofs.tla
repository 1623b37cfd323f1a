------------------------ MODULE SchedSessions_proofs ------------------------
(***************************************************************************)
(* The session registry is exact for every table size, every set of        *)
(* priorities and every number of sessions.                                *)
(***************************************************************************)
EXTENDS SchedSessions, TLAPS, FiniteSetTheorems, WellFoundedInduction

\* What the table, the counter and the callers' ids have to do with each
\* other: inductive together.
RegistryInv ==
  /\ TypeOK
  /\ RegistryExact
  /\ IsFiniteSet(live)
  /\ CountExact

-----------------------------------------------------------------------------

\* An empty registry.
LEMMA InitRegistry == Init => RegistryInv
<1> SUFFICES ASSUME Init PROVE RegistryInv
  OBVIOUS
<1>1. TypeOK
  BY SlotsAssumption DEF Init, TypeOK, Call, Slots
<1>2. RegistryExact
  BY DEF Init, RegistryExact, Slots
<1>3. IsFiniteSet(live) /\ CountExact
  BY FS_EmptySet DEF Init, CountExact
<1>4. QED
  BY <1>1, <1>2, <1>3 DEF RegistryInv

\* Creating a session adds an id that no live session has.
LEMMA CreateRegistry ==
  ASSUME RegistryInv, NEW p \in Priorities, pai_sched_session_create(p)
  PROVE  RegistryInv'
<1>1. PICK i \in Slots :
        /\ ~active[i]
        /\ id' = [id EXCEPT ![i] = next_id]
        /\ priority' = [priority EXCEPT ![i] = p]
        /\ active' = [active EXCEPT ![i] = TRUE]
        /\ live' = live \cup {next_id}
  BY DEF pai_sched_session_create, FirstFree
<1>2. next_id' = next_id + 1 /\ count' = count + 1 /\ last' \in Call
  BY DEF pai_sched_session_create, Call
<1>3. /\ TypeOK /\ RegistryExact /\ IsFiniteSet(live) /\ CountExact
      /\ next_id \in Nat /\ next_id \notin live
  <2>1. TypeOK /\ RegistryExact /\ IsFiniteSet(live) /\ CountExact
    BY DEF RegistryInv
  <2>2. next_id \in Nat /\ \A j \in Slots : id[j] \in Nat /\ id[j] < next_id
    BY <2>1 DEF TypeOK, RegistryExact
  <2>3. next_id \notin live
    BY <2>1, <2>2 DEF RegistryExact
  <2>4. QED
    BY <2>1, <2>2, <2>3
<1>4. TypeOK'
  <2>1. p \in Int
    BY PrioritiesAssumption
  <2>2. id' \in [Slots -> Nat] /\ active' \in [Slots -> BOOLEAN]
        /\ priority' \in [Slots -> Int]
    BY <1>1, <1>3, <2>1 DEF TypeOK
  <2>3. next_id' \in Nat \ {0} /\ count' \in Int /\ live' \subseteq Nat
    BY <1>1, <1>2, <1>3 DEF TypeOK
  <2>4. QED
    BY <1>2, <2>2, <2>3 DEF TypeOK
<1>5. RegistryExact'
  <2>1. id'[i] = next_id /\ active'[i] /\ \A j \in Slots \ {i} :
          id'[j] = id[j] /\ active'[j] = active[j]
    BY <1>1, <1>3 DEF TypeOK
  <2>2. \A j \in Slots : id[j] \in Nat /\ id[j] < next_id
    BY <1>3 DEF TypeOK, RegistryExact
  <2>3. \A j \in Slots : id'[j] < next_id'
    BY <1>2, <1>3, <2>1, <2>2
  <2>4. \A j, k \in Slots : active'[j] /\ active'[k] /\ id'[j] = id'[k] => j = k
    BY <1>3, <2>1, <2>2 DEF RegistryExact
  <2>5. live' = {id'[k] : k \in {j \in Slots : active'[j]}}
    BY <1>1, <1>3, <2>1 DEF RegistryExact
  <2>6. QED
    BY <2>3, <2>4, <2>5 DEF RegistryExact
<1>6. IsFiniteSet(live') /\ Cardinality(live') = Cardinality(live) + 1
  BY <1>1, <1>3, FS_AddElement
<1>7. CountExact'
  BY <1>2, <1>3, <1>6 DEF CountExact
<1>8. QED
  BY <1>4, <1>5, <1>6, <1>7 DEF RegistryInv

\* Destroying a session removes its id and no other.
LEMMA DestroyRegistry ==
  ASSUME RegistryInv, NEW s, pai_sched_session_destroy(s)
  PROVE  RegistryInv'
<1>1. PICK i \in Slots :
        active[i] /\ id[i] = s /\ active' = [active EXCEPT ![i] = FALSE]
  BY DEF pai_sched_session_destroy, Holds
<1>2. /\ count' = count - 1 /\ live' = live \ {s} /\ last' \in Call
      /\ UNCHANGED <<id, priority, next_id>>
  BY DEF pai_sched_session_destroy, Call
<1>3. TypeOK /\ RegistryExact /\ IsFiniteSet(live) /\ CountExact
  BY DEF RegistryInv
<1>4. TypeOK'
  <2>1. active' \in [Slots -> BOOLEAN]
    <3>1. active \in [Slots -> BOOLEAN]
      BY <1>3 DEF TypeOK
    <3>2. QED
      BY <1>1, <3>1
  <2>2. count' \in Int
    BY <1>2, <1>3 DEF TypeOK
  <2>3. live' \subseteq Nat
    BY <1>2, <1>3 DEF TypeOK
  <2>4. QED
    BY <1>2, <1>3, <2>1, <2>2, <2>3 DEF TypeOK
<1>5. RegistryExact'
  <2>1. ~active'[i] /\ \A j \in Slots \ {i} : active'[j] = active[j]
    BY <1>1, <1>3 DEF TypeOK
  <2>2. live' = {id'[k] : k \in {j \in Slots : active'[j]}}
    BY <1>1, <1>2, <1>3, <2>1 DEF RegistryExact
  <2>3. QED
    BY <1>2, <1>3, <2>1, <2>2 DEF RegistryExact
<1>6. s \in live
  BY <1>1, <1>3 DEF RegistryExact
<1>7. IsFiniteSet(live') /\ Cardinality(live') = Cardinality(live) - 1
  BY <1>2, <1>3, <1>6, FS_RemoveElement
<1>8. CountExact'
  BY <1>2, <1>3, <1>7 DEF CountExact
<1>9. QED
  BY <1>4, <1>5, <1>7, <1>8 DEF RegistryInv

\* Every call keeps the registry exact.
LEMMA NextRegistry == RegistryInv /\ [Next]_vars => RegistryInv'
<1> SUFFICES ASSUME RegistryInv, [Next]_vars PROVE RegistryInv'
  OBVIOUS
<1>1. ASSUME UNCHANGED <<id, priority, active, count, next_id, live>>, last' \in Call
      PROVE  RegistryInv'
  BY <1>1 DEF RegistryInv, TypeOK, RegistryExact, CountExact
<1>2. CASE UNCHANGED vars
  BY <1>1, <1>2 DEF vars, RegistryInv, TypeOK
<1>3. CASE create_refused
  BY <1>1, <1>3 DEF create_refused, Call
<1>4. ASSUME NEW s \in Ids, destroy_refused(s)
      PROVE  RegistryInv'
  BY <1>1, <1>4 DEF destroy_refused, Call
<1>5. QED
  BY <1>2, <1>3, <1>4, CreateRegistry, DestroyRegistry DEF Next

\* The registry, whatever callers do, is the set of live sessions: one slot
\* each, every id below the next, and count its size.
THEOREM RegistryCorrect == Spec => [](TypeOK /\ RegistryExact /\ CountExact)
<1>1. RegistryInv => TypeOK /\ RegistryExact /\ CountExact
  BY DEF RegistryInv
<1>2. QED
  BY <1>1, InitRegistry, NextRegistry, PTL DEF Spec

\* A dead id never answers again: next_id only grows, so no session gets it.
THEOREM DeadIdsStayDead == Spec => DeadStaysDead
<1>1. RegistryInv /\ [Next]_vars => [NoRevival]_vars
  <2> SUFFICES ASSUME RegistryInv, Next, NEW s \in Ids, s < next_id, s \notin live
               PROVE  ~pai_sched_session_active(s)' /\ s \notin live'
    BY DEF NoRevival
  <2>1. s \in Int /\ next_id \in Nat
    BY SlotsAssumption DEF Ids, RegistryInv, TypeOK
  <2>2. live' \subseteq live \cup {next_id}
    BY DEF Next, pai_sched_session_create, create_refused,
           pai_sched_session_destroy, destroy_refused
  <2>3. s \notin live'
    BY <2>1, <2>2
  <2>4. RegistryExact'
    BY NextRegistry DEF RegistryInv
  <2>5. ~pai_sched_session_active(s)'
    BY <2>3, <2>4 DEF pai_sched_session_active, Holds, RegistryExact
  <2>6. QED
    BY <2>3, <2>5
<1>2. QED
  BY <1>1, InitRegistry, NextRegistry, PTL DEF Spec, DeadStaysDead

-----------------------------------------------------------------------------
(* No slot is lost and the pick is the best session there is.              *)

\* The order of the scan is total and transitive: of two active slots one
\* displaces the other.
LEMMA PickOrder ==
  ASSUME TypeOK, NEW i \in Slots, NEW j \in Slots
  PROVE  /\ pick_first(i, i)
         /\ ~pick_first(i, j) => pick_first(j, i)
         /\ \A k \in Slots : pick_first(i, j) /\ pick_first(j, k) => pick_first(i, k)
<1>1. Slots \subseteq Int
  BY SlotsAssumption DEF Slots
<1>2. \A k \in Slots : priority[k] \in Int
  BY DEF TypeOK
<1>3. QED
  BY <1>1, <1>2 DEF pick_first

\* The active slots the scan would settle on rather than on i.
Ahead(i) == {j \in Slots : active[j] /\ ~pick_first(i, j)}

\* What is ahead of a slot that is ahead of i is ahead of i too, and there is
\* less of it.
LEMMA AheadShrinks ==
  ASSUME TypeOK, NEW i \in Slots, NEW j \in Ahead(i)
  PROVE  /\ Cardinality(Ahead(i)) \in Nat /\ Cardinality(Ahead(j)) \in Nat
         /\ Cardinality(Ahead(j)) < Cardinality(Ahead(i))
<1>1. j \in Slots /\ active[j] /\ ~pick_first(i, j)
  BY DEF Ahead
<1>2. j \notin Ahead(j)
  BY <1>1, PickOrder DEF Ahead
<1>3. Ahead(j) \subseteq Ahead(i)
  <2> SUFFICES ASSUME NEW k \in Ahead(j) PROVE k \in Ahead(i)
    OBVIOUS
  <2>1. k \in Slots /\ active[k] /\ ~pick_first(j, k)
    BY DEF Ahead
  <2>2. pick_first(k, j)
    BY <1>1, <2>1, PickOrder
  <2>3. ~pick_first(i, k)
    BY <1>1, <2>1, <2>2, PickOrder
  <2>4. QED
    BY <2>1, <2>3 DEF Ahead
<1>4. IsFiniteSet(Slots)
  BY SlotsAssumption, FS_Interval DEF Slots
<1>5. IsFiniteSet(Ahead(i)) /\ IsFiniteSet(Ahead(j))
  <2>1. Ahead(i) \in SUBSET Slots /\ Ahead(j) \in SUBSET Slots
    BY DEF Ahead
  <2>2. QED
    BY <1>4, <2>1, FS_Subset
<1>6. /\ Cardinality(Ahead(j)) <= Cardinality(Ahead(i))
      /\ Cardinality(Ahead(i)) = Cardinality(Ahead(j)) => Ahead(i) = Ahead(j)
  BY <1>3, <1>5, FS_Subset
<1>7. Cardinality(Ahead(i)) \in Nat /\ Cardinality(Ahead(j)) \in Nat
  BY <1>5, FS_CardinalityType
<1>8. Cardinality(Ahead(i)) # Cardinality(Ahead(j))
  BY <1>2, <1>6
<1>9. QED
  BY <1>6, <1>7, <1>8

\* A nonempty set of natural numbers has a least element.
LEMMA LeastNat ==
  ASSUME NEW T \in SUBSET Nat, T # {}
  PROVE  \E x \in T : \A y \in T : x <= y
<1>1. PICK x \in T : \A y \in T : ~(<<y, x>> \in OpToRel(<, Nat))
  BY NatLessThanWellFounded, WFMin
<1>2. OpToRel(<, Nat) = {ss \in Nat \X Nat : ss[1] < ss[2]}
  BY Zenon DEF OpToRel
<1>3. ASSUME NEW a \in Nat, NEW y \in Nat, y < a
      PROVE  <<y, a>> \in {ss \in Nat \X Nat : ss[1] < ss[2]}
  BY <1>3
<1>4. \A y \in T : ~(y < x)
  BY <1>1, <1>2, <1>3
<1>5. QED
  BY <1>4

\* Among the active slots there is one that nothing is ahead of.
LEMMA BestExists ==
  ASSUME TypeOK, \E i \in Slots : active[i]
  PROVE  \E i \in Slots : active[i] /\ \A j \in Slots : active[j] => pick_first(i, j)
<1> DEFINE Rank(i) == Cardinality(Ahead(i))
           T == {Rank(i) : i \in {k \in Slots : active[k]}}
<1>1. \A i \in Slots : Rank(i) \in Nat
  <2> TAKE i \in Slots
  <2>1. IsFiniteSet(Slots) /\ Ahead(i) \in SUBSET Slots
    BY SlotsAssumption, FS_Interval DEF Slots, Ahead
  <2>2. QED
    BY <2>1, FS_Subset, FS_CardinalityType
<1>2. T \in SUBSET Nat /\ T # {}
  BY <1>1
<1>3. PICK x \in T : \A y \in T : x <= y
  BY <1>2, LeastNat
<1>4. PICK i \in Slots : active[i] /\ x = Rank(i)
  BY <1>3
<1>5. Ahead(i) = {}
  <2> SUFFICES ASSUME NEW j \in Ahead(i) PROVE FALSE
    OBVIOUS
  <2>1. j \in Slots /\ active[j]
    BY DEF Ahead
  <2>2. x <= Rank(j)
    BY <1>3, <2>1
  <2>3. QED
    BY <1>4, <2>2, AheadShrinks
<1>6. QED
  BY <1>4, <1>5 DEF Ahead

\* The pick is an active slot of the highest priority, or 0 when there is none.
LEMMA PickBest ==
  ASSUME RegistryInv
  PROVE  LET i == pai_sched_pick_session IN
         IF live = {} THEN i = 0
         ELSE /\ i \in Slots /\ active[i]
              /\ \A j \in Slots : active[j] => priority[j] <= priority[i]
<1>1. TypeOK /\ RegistryExact
  BY DEF RegistryInv
<1>2. live = {} <=> ~\E i \in Slots : active[i]
  BY <1>1 DEF RegistryExact
<1>3. CASE live = {}
  BY <1>2, <1>3 DEF pai_sched_pick_session
<1>4. CASE live # {}
  <2>1. \E i \in Slots : active[i] /\ \A j \in Slots : active[j] => pick_first(i, j)
    BY <1>1, <1>2, <1>4, BestExists
  <2>2. /\ pai_sched_pick_session \in Slots /\ active[pai_sched_pick_session]
        /\ \A j \in Slots : active[j] => pick_first(pai_sched_pick_session, j)
    BY <1>2, <1>4, <2>1 DEF pai_sched_pick_session
  <2>3. \A j \in Slots : priority[j] \in Int
    BY <1>1 DEF TypeOK
  <2>4. \A j \in Slots : active[j] => priority[j] <= priority[pai_sched_pick_session]
    BY <2>2, <2>3 DEF pick_first
  <2>5. QED
    BY <1>4, <2>2, <2>4
<1>5. QED
  BY <1>3, <1>4

\* With every slot active there are as many live sessions as slots: id maps
\* the slots one to one onto the ids callers hold.
LEMMA FullTable ==
  ASSUME RegistryInv, \A i \in Slots : active[i]
  PROVE  Cardinality(live) = MaxSlots
<1>1. TypeOK /\ RegistryExact /\ IsFiniteSet(live)
  BY DEF RegistryInv
<1>2. live = {id[i] : i \in Slots}
  BY <1>1 DEF RegistryExact
<1>3. id \in [Slots -> live]
  BY <1>1, <1>2 DEF TypeOK
<1>4. \A i, j \in Slots : id[i] = id[j] => i = j
  BY <1>1 DEF RegistryExact
<1>5. id \in Injection(Slots, live)
  BY <1>3, <1>4 DEF Injection, IsInjective
<1>6. id \in Surjection(Slots, live)
  BY <1>2, <1>3 DEF Surjection
<1>7. Cardinality(Slots) = Cardinality(live)
  BY <1>1, <1>5, <1>6, FS_Injection
<1>8. Cardinality(Slots) = MaxSlots
  BY SlotsAssumption, FS_Interval DEF Slots
<1>9. QED
  BY <1>7, <1>8

\* A refusal is the last thing that happened: the table is still full.
RefusedFull == last = [op |-> "create", ok |-> FALSE] => \A i \in Slots : active[i]

\* Only create_refused leaves a refused create behind, and nothing changes the
\* table without leaving another result.
LEMMA NextRefusedFull == RefusedFull /\ [Next]_vars => RefusedFull'
<1> SUFFICES ASSUME RefusedFull, [Next]_vars PROVE RefusedFull'
  OBVIOUS
<1>1. CASE UNCHANGED vars
  BY <1>1 DEF vars, RefusedFull
<1>2. CASE create_refused
  BY <1>2 DEF create_refused, RefusedFull
<1>3. ASSUME NEW p \in Priorities, pai_sched_session_create(p)
      PROVE  RefusedFull'
  BY <1>3 DEF pai_sched_session_create, RefusedFull
<1>4. ASSUME NEW s \in Ids, pai_sched_session_destroy(s) \/ destroy_refused(s)
      PROVE  RefusedFull'
  BY <1>4 DEF pai_sched_session_destroy, destroy_refused, RefusedFull
<1>5. QED
  BY <1>1, <1>2, <1>3, <1>4 DEF Next

\* However sessions came and went, a create is refused only by a table full of
\* live sessions, and the pick overlooks none of them.
THEOREM SlotsAllUsable == Spec => []NoSlotLost
<1>1. Init => RefusedFull
  BY DEF Init, RefusedFull
<1>2. RegistryInv /\ RefusedFull => NoSlotLost
  <2> SUFFICES ASSUME RegistryInv, RefusedFull PROVE NoSlotLost
    OBVIOUS
  <2>1. last = [op |-> "create", ok |-> FALSE] => Cardinality(live) = MaxSlots
    BY FullTable DEF RefusedFull
  <2>2. QED
    BY <2>1, PickBest DEF NoSlotLost
<1>3. QED
  BY <1>1, <1>2, InitRegistry, NextRegistry, NextRefusedFull, PTL DEF Spec
=============================================================================
