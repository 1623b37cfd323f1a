-------------------------- MODULE Lifecycle_proofs --------------------------
(***************************************************************************)
(* Replaced, for any number of deployments that overlap in any way, any    *)
(* number of turns of the wait and any number of connections by strangers. *)
(***************************************************************************)
EXTENDS Lifecycle, TLAPS

Labels == {"none", "probe", "release", "connect", "send", "ack", "wait", "init",
           "start", "run", "gone"}
Listening == {"listen", "accept", "recv", "exit"}

TypeOK ==
  /\ at \in [Instances -> Labels]
  /\ lis \in [Instances -> Listening \cup {"none"}]
  /\ port \in Instances \cup {NoOne}
  /\ stopped \subseteq Instances
  /\ before \in [Instances -> SUBSET Instances]
  /\ faults \in Nat

\* The port has one owner: an instance whose listener is there, or one that
\* probes and is about to close its socket.
OneOwner ==
  \A i \in Instances :
    /\ at[i] = "release" => port = i
    /\ lis[i] # "none" => port = i /\ at[i] = "run"

\* stop_previous returned in the past of an instance that began.
Began == \A i \in stopped : at[i] # "none"

\* While no call fails a listener ends only with its instance.
StillThere ==
  faults = 0 =>
    \A i \in Instances : \A j \in before[i] : at[j] = "gone" \/ lis[j] # "none"

LifeInv == TypeOK /\ OneOwner /\ Began /\ StillThere /\ Replaced

-----------------------------------------------------------------------------

\* Before the first deployment nothing is bound and nobody has stopped.
LEMMA InitLife == Init => LifeInv
BY DEF Init, LifeInv, TypeOK, OneOwner, Began, StillThere, Replaced, Labels,
   NoOne

\* A step that only moves main of one instance, which began and is not gone,
\* to a label other than the ones that say something of the port.
LEMMA MoveStep ==
  ASSUME LifeInv, NEW i \in Instances, NEW l \in Labels,
         at[i] \notin {"none", "run", "gone", "release"}, l \notin {"none", "release"},
         Goto(i, l), UNCHANGED <<lis, port, stopped, before>>,
         faults' \in Nat, faults' = 0 => faults = 0
  PROVE  LifeInv'
<1> USE DEF LifeInv, Goto
<1>1. TypeOK' /\ OneOwner' /\ Began'
  BY DEF TypeOK, OneOwner, Began
<1>2. StillThere' /\ Replaced'
  BY DEF TypeOK, StillThere, Replaced
<1>3. QED
  BY <1>1, <1>2

\* The end of an instance: it gives up the port if it is its.
LEMMA GoneStep ==
  ASSUME LifeInv, NEW i \in Instances, at[i] \notin {"none", "release"},
         Gone(i), UNCHANGED <<stopped, before, faults>>
  PROVE  LifeInv'
<1> USE DEF LifeInv, Gone, Goto
<1>1. TypeOK'
  BY DEF TypeOK, Labels, NoOne
<1>2. at' = [at EXCEPT ![i] = "gone"] /\ lis' = [lis EXCEPT ![i] = "none"]
      /\ (port' = port \/ port = i)
  OBVIOUS
<1>3. OneOwner' /\ Began'
  BY <1>2 DEF TypeOK, OneOwner, Began
<1>4. StillThere' /\ Replaced'
  BY <1>2 DEF TypeOK, StillThere, Replaced
<1>5. QED
  BY <1>1, <1>3, <1>4

\* Binding the free port: for a probe, or for the listener to come.
LEMMA BindStep ==
  ASSUME LifeInv, NEW i \in Instances, port = NoOne, port' = i,
         UNCHANGED <<stopped, before>>, faults' \in Nat, faults' = 0 => faults = 0,
         at[i] \notin {"none", "run", "gone", "release"},
         \/ Goto(i, "release") /\ UNCHANGED lis
         \/ Goto(i, "run") /\ lis' = [lis EXCEPT ![i] = "listen"]
         \/ Goto(i, "run") /\ UNCHANGED lis
  PROVE  LifeInv'
<1> USE DEF LifeInv, Goto
<1>1. \A j \in Instances : lis[j] = "none" /\ at[j] # "release"
  BY DEF OneOwner, Instances, NoOne
<1>2. TypeOK'
  BY DEF TypeOK, Labels, Listening
<1>3. OneOwner' /\ Began'
  BY <1>1 DEF TypeOK, OneOwner, Began
<1>4. StillThere' /\ Replaced'
  BY DEF TypeOK, StillThere, Replaced
<1>5. QED
  BY <1>2, <1>3, <1>4

\* A step of a listener that stays there.
LEMMA ListenerStep ==
  ASSUME LifeInv, NEW i \in Instances, lis[i] # "none",
         NEW l \in Listening \cup {"none"}, lis' = [lis EXCEPT ![i] = l],
         faults' \in Nat, faults' = 0 => faults = 0 /\ l # "none",
         UNCHANGED <<at, port, stopped, before>>
  PROVE  LifeInv'
<1> USE DEF LifeInv
<1>1. TypeOK' /\ OneOwner' /\ Began'
  BY DEF TypeOK, OneOwner, Began
<1>2. StillThere' /\ Replaced'
  BY DEF TypeOK, StillThere, Replaced
<1>3. QED
  BY <1>1, <1>2

\* The probe that found the port free gives it back: nobody who served the
\* port when stop_previous began is left, since a listener holds the port.
LEMMA ReleaseStep ==
  ASSUME LifeInv, NEW i \in Instances, Release(i)
  PROVE  LifeInv'
<1> USE DEF LifeInv, Release, StopReturnsOk, Goto
<1>1. /\ at[i] = "release" /\ port = i /\ lis[i] = "none"
      /\ \A j \in Instances : lis[j] = "none"
  BY DEF OneOwner, TypeOK
<1>2. faults = 0 => \A j \in before[i] : at[j] = "gone"
  BY <1>1 DEF StillThere, TypeOK
<1>3. TypeOK' /\ OneOwner' /\ Began'
  BY <1>1 DEF TypeOK, OneOwner, Began, Labels, envVars, NoOne
<1>4. StillThere'
  BY <1>1 DEF TypeOK, StillThere, envVars
<1>5. Replaced'
  BY <1>1, <1>2 DEF TypeOK, Replaced, envVars
<1>6. QED
  BY <1>3, <1>4, <1>5

\* A new deployment: whoever serves the port is the one it must replace.
LEMMA DeployStep ==
  ASSUME LifeInv, NEW i \in Instances, Deploy(i)
  PROVE  LifeInv'
<1> USE DEF LifeInv, Deploy, Goto
<1>1. TypeOK' /\ OneOwner' /\ Began'
  BY DEF TypeOK, OneOwner, Began, Labels
<1>2. StillThere'
  BY DEF TypeOK, StillThere
<1>3. Replaced'
  BY DEF TypeOK, Replaced, Began
<1>4. QED
  BY <1>1, <1>2, <1>3

\* Every step keeps the invariant.
LEMMA NextLife == LifeInv /\ [Next]_vars => LifeInv'
<1> SUFFICES ASSUME LifeInv, [Next]_vars PROVE LifeInv'
  OBVIOUS
<1> faults \in Nat /\ (faults' = faults => faults' \in Nat /\ (faults' = 0 => faults = 0))
    /\ (Fault => faults' \in Nat /\ faults' # 0)
  BY DEF LifeInv, TypeOK, Fault
<1>1. ASSUME NEW i \in Instances, pai_lifecycle_stop_previous(i) PROVE LifeInv'
  <2>1. CASE FirstProbe(i)
    <3>1. CASE port = NoOne
      BY <2>1, <3>1, BindStep DEF FirstProbe, envVars
    <3>2. CASE port # NoOne
      BY <2>1, <3>2, MoveStep DEF FirstProbe, envVars, Labels
    <3>3. QED
      BY <3>1, <3>2
  <2>2. CASE CannotTell(i)
    <3>1. TypeOK' /\ OneOwner' /\ Began'
      BY <2>2 DEF CannotTell, StopReturnsOk, Goto, LifeInv, TypeOK, OneOwner,
         Began, Labels
    <3>2. QED
      BY <2>2, <3>1 DEF CannotTell, LifeInv, StillThere, Replaced
  <2>3. CASE Release(i)
    BY <2>3, ReleaseStep
  <2>4. CASE Connect(i)
    BY <2>4, MoveStep DEF Connect, envVars, Labels
  <2>5. CASE SendStop(i)
    BY <2>5, MoveStep DEF SendStop, envVars, Labels
  <2>6. CASE RecvAck(i)
    BY <2>6, MoveStep DEF RecvAck, envVars, Labels
  <2>7. CASE WaitTurn(i)
    <3>1. CASE port = NoOne
      BY <2>7, <3>1, BindStep DEF WaitTurn, envVars
    <3>2. CASE port # NoOne
      BY <2>7, <3>2 DEF WaitTurn, envVars, LifeInv, TypeOK, OneOwner, Began,
         StillThere, Replaced
    <3>3. QED
      BY <3>1, <3>2
  <2>8. CASE WaitEnds(i)
    BY <2>8, MoveStep DEF WaitEnds, Labels
  <2>9. QED
    BY <1>1, <2>1, <2>2, <2>3, <2>4, <2>5, <2>6, <2>7, <2>8
    DEF pai_lifecycle_stop_previous
<1>2. ASSUME NEW i \in Instances, RuntimeInit(i) PROVE LifeInv'
  <2>1. CASE Goto(i, "start") /\ UNCHANGED <<lis, port, netVars>>
    BY <1>2, <2>1, MoveStep DEF RuntimeInit, envVars, Labels
  <2>2. CASE Gone(i)
    BY <1>2, <2>2, GoneStep DEF RuntimeInit, envVars
  <2>3. QED
    BY <1>2, <2>1, <2>2 DEF RuntimeInit
<1>3. ASSUME NEW i \in Instances, pai_lifecycle_start(i) PROVE LifeInv'
  <2>1. faults' \in Nat /\ (faults' = 0 => faults = 0)
    BY <1>3 DEF pai_lifecycle_start
  <2>2. CASE UNCHANGED <<lis, port>>
    BY <1>3, <2>1, <2>2, MoveStep DEF pai_lifecycle_start, Labels
  <2>3. CASE port = NoOne /\ port' = i
    BY <1>3, <2>1, <2>3, BindStep DEF pai_lifecycle_start
  <2>4. QED
    BY <1>3, <2>2, <2>3 DEF pai_lifecycle_start
<1>4. ASSUME NEW i \in Instances, MainReturns(i) PROVE LifeInv'
  BY <1>4, GoneStep DEF MainReturns, envVars
<1>5. ASSUME NEW i \in Instances, pai_lifecycle_listener(i) PROVE LifeInv'
  <2>1. CASE Listen(i)
    BY <2>1, ListenerStep DEF Listen, Listening
  <2>2. CASE Accept(i)
    BY <2>2, ListenerStep DEF Accept, envVars, Listening
  <2>3. CASE Recv(i)
    BY <2>3, ListenerStep DEF Recv, envVars, Listening
  <2>4. CASE PayloadExit(i)
    <3>1. at[i] = "run"
      BY <2>4 DEF PayloadExit, LifeInv, OneOwner
    <3>2. QED
      BY <2>4, <3>1, GoneStep DEF PayloadExit, envVars
  <2>5. QED
    BY <1>5, <2>1, <2>2, <2>3, <2>4 DEF pai_lifecycle_listener
<1>6. CASE UNCHANGED <<at, lis, port, stopped, before, faults>>
  BY <1>6 DEF LifeInv, TypeOK, OneOwner, Began, StillThere, Replaced
<1>7. ASSUME NEW i \in Instances, Deploy(i) PROVE LifeInv'
  BY <1>7, DeployStep
<1>8. QED
  BY <1>1, <1>2, <1>3, <1>4, <1>5, <1>6, <1>7 DEF Next, Main, StrangerConnects,
     vars

\* stop_previous keeps its word however deployments overlap: once it returned
\* PAI_OK, no instance that served the port when it began is still there,
\* unless a socket or thread call failed on the way.
THEOREM PreviousReplaced == Spec => []Replaced
BY InitLife, NextLife, PTL DEF Spec, LifeInv
=============================================================================
