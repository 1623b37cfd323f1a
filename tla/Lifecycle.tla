----------------------------- MODULE Lifecycle -----------------------------
(***************************************************************************)
(* Deployments of the payload on one console (platform/ps5/lifecycle.c).   *)
(* main first calls pai_lifecycle_stop_previous, which asks the instance   *)
(* that holds the lifecycle port to exit and waits for the port, then      *)
(* pai_lifecycle_start, which binds the port and starts the listener that  *)
(* serves the next deployment.  Deployments may overlap in any way.        *)
(***************************************************************************)
EXTENDS Naturals, Sequences

CONSTANTS
  N,           \* deployments
  MaxProbes,   \* turns of the wait for the port (30 in the code)
  MaxStrangers,\* connections to the port by programs that send no stop frame
  MaxFaults    \* calls of the socket and thread library that fail

ASSUME LifecycleBounds ==
  N \in Nat /\ MaxProbes \in Nat /\ MaxStrangers \in Nat /\ MaxFaults \in Nat

Instances == 1..N
NoOne == 0
Stranger == N + 1

VARIABLES
  at,       \* where main of each instance is
  lis,      \* where its listener thread is
  port,     \* the instance one of whose sockets is bound to the port
  backlog,  \* connections the bound socket has not accepted
  client,   \* the connection each listener serves
  sent,     \* instances whose stop frame is on its way
  acked,    \* instances whose connection was answered or reset
  tries,    \* turns of the wait loop taken
  stopped,  \* instances whose stop_previous returned PAI_OK
  before,   \* the instances that held the port for serving when each began
  strangers, faults

vars == <<at, lis, port, backlog, client, sent, acked, tries, stopped, before,
          strangers, faults>>
netVars == <<backlog, client, sent, acked>>
envVars == <<before, strangers, faults>>

Init ==
  /\ at = [i \in Instances |-> "none"] /\ lis = [i \in Instances |-> "none"]
  /\ port = NoOne /\ backlog = << >> /\ client = [i \in Instances |-> NoOne]
  /\ sent = {} /\ acked = {} /\ tries = [i \in Instances |-> 0]
  /\ stopped = {} /\ before = [i \in Instances |-> {}]
  /\ strangers = 0 /\ faults = 0

Goto(i, label) == at' = [at EXCEPT ![i] = label]
Fault == faults < MaxFaults /\ faults' = faults + 1

\* The loader starts a new instance of the payload.
Deploy(i) ==
  /\ at[i] = "none" /\ \A j \in Instances : j < i => at[j] # "none"
  /\ Goto(i, "probe")
  /\ before' = [before EXCEPT ![i] = {j \in Instances : lis[j] # "none"}]
  /\ UNCHANGED <<lis, port, netVars, tries, stopped, strangers, faults>>

-----------------------------------------------------------------------------
(* pai_lifecycle_stop_previous *)

\* stop_previous returns; its caller ignores the status, TIMEOUT included.
StopReturnsOk(i) == stopped' = stopped \cup {i} /\ Goto(i, "init")

\* The first try_bind: a free port means that there is nobody to stop.
FirstProbe(i) ==
  /\ at[i] = "probe"
  /\ IF port = NoOne THEN port' = i /\ Goto(i, "release")
                     ELSE UNCHANGED port /\ Goto(i, "connect")
  /\ UNCHANGED <<lis, netVars, tries, stopped, envVars>>

\* socket fails, or bind for a reason other than EADDRINUSE.
CannotTell(i) ==
  /\ at[i] = "probe" /\ Fault /\ StopReturnsOk(i)
  /\ UNCHANGED <<lis, port, netVars, tries, before, strangers>>

\* The socket that found the port free is closed again.
Release(i) ==
  /\ at[i] = "release" /\ port' = NoOne /\ StopReturnsOk(i)
  /\ UNCHANGED <<lis, netVars, tries, envVars>>

\* The port may belong to a socket that does not listen: one that only
\* probes, one whose listener is not there yet or never will be.
Connect(i) ==
  /\ at[i] = "connect"
  /\ IF port # NoOne /\ lis[port] \in {"accept", "recv", "exit"}
       THEN backlog' = Append(backlog, i) /\ Goto(i, "send")
       ELSE UNCHANGED backlog /\ Goto(i, "wait")
  /\ UNCHANGED <<lis, port, client, sent, acked, tries, stopped, envVars>>

SendStop(i) ==
  /\ at[i] = "send" /\ sent' = sent \cup {i} /\ Goto(i, "ack")
  /\ UNCHANGED <<lis, port, backlog, client, acked, tries, stopped, envVars>>

\* recv without a timeout: the acknowledgement, or the end of the connection.
RecvAck(i) ==
  /\ at[i] = "ack" /\ i \in acked /\ Goto(i, "wait")
  /\ UNCHANGED <<lis, port, netVars, tries, stopped, envVars>>

\* A turn of the wait loop: bound means that the port was given up.
WaitTurn_no_wait(i) ==                                          \* mutant
  /\ at[i] = "wait" /\ StopReturnsOk(i)
  /\ UNCHANGED <<lis, port, netVars, tries, envVars>>
WaitTurn(i) ==
  /\ at[i] = "wait" /\ tries[i] < MaxProbes
  /\ IF port = NoOne
       THEN port' = i /\ Goto(i, "release") /\ UNCHANGED tries
       ELSE tries' = [tries EXCEPT ![i] = @ + 1] /\ UNCHANGED <<at, port>>
  /\ UNCHANGED <<lis, netVars, stopped, envVars>>

\* The loop ends, or try_bind fails for another reason: PAI_ERR_TIMEOUT.
WaitEnds(i) ==
  /\ at[i] = "wait" /\ Goto(i, "init")
  /\ \/ tries[i] = MaxProbes /\ UNCHANGED faults
     \/ tries[i] < MaxProbes /\ Fault
  /\ UNCHANGED <<lis, port, netVars, tries, stopped, before, strangers>>

-----------------------------------------------------------------------------
(* The rest of main, and the listener. *)

\* The end of an instance closes its sockets; connections nobody accepted,
\* and the one being served, are reset.
Gone(i) ==
  /\ Goto(i, "gone") /\ lis' = [lis EXCEPT ![i] = "none"]
  /\ IF port = i
       THEN /\ port' = NoOne /\ backlog' = << >>
            /\ acked' = acked \cup {backlog[k] : k \in DOMAIN backlog} \cup {client[i]}
       ELSE UNCHANGED <<port, backlog, acked>>
  /\ client' = [client EXCEPT ![i] = NoOne]

\* pai_runtime_init succeeds or main returns 3.
RuntimeInit(i) ==
  /\ at[i] = "init"
  /\ \/ Goto(i, "start") /\ UNCHANGED <<lis, port, netVars>>
     \/ Gone(i) /\ UNCHANGED sent
  /\ UNCHANGED <<tries, stopped, envVars>>

\* A port that is taken leaves the instance without stop probes; so does a
\* socket or bind that fails otherwise, and a thread that cannot be created,
\* with the port bound.
pai_lifecycle_start(i) ==
  /\ at[i] = "start" /\ Goto(i, "run")
  /\ \/ port # NoOne /\ UNCHANGED <<lis, port, faults>>
     \/ Fault /\ UNCHANGED <<lis, port>>
     \/ port = NoOne /\ port' = i /\ lis' = [lis EXCEPT ![i] = "listen"]
          /\ UNCHANGED faults
     \/ port = NoOne /\ port' = i /\ Fault /\ UNCHANGED lis
  /\ UNCHANGED <<netVars, tries, stopped, before, strangers>>

\* The experiments end and main returns.
MainReturns(i) ==
  /\ at[i] = "run" /\ Gone(i)
  /\ UNCHANGED <<sent, tries, stopped, envVars>>

Listen(i) ==
  /\ lis[i] = "listen"
  /\ \/ lis' = [lis EXCEPT ![i] = "accept"] /\ UNCHANGED faults
     \/ lis' = [lis EXCEPT ![i] = "none"] /\ Fault
  /\ UNCHANGED <<at, port, netVars, tries, stopped, before, strangers>>

Accept(i) ==
  /\ lis[i] = "accept" /\ backlog # << >>
  /\ client' = [client EXCEPT ![i] = Head(backlog)] /\ backlog' = Tail(backlog)
  /\ lis' = [lis EXCEPT ![i] = "recv"]
  /\ UNCHANGED <<at, port, sent, acked, tries, stopped, envVars>>

\* A stop frame is acknowledged and ends the instance; anything else, or the
\* end of the connection, only closes the connection.
Recv_gives_up(i) ==                                             \* mutant
  /\ lis[i] = "recv" /\ client[i] \in sent \cup {Stranger}
  /\ acked' = acked \cup {client[i]}
  /\ lis' = [lis EXCEPT ![i] = IF client[i] = Stranger THEN "done" ELSE "exit"]
  /\ UNCHANGED <<at, port, backlog, client, sent, tries, stopped, envVars>>
Recv(i) ==
  /\ lis[i] = "recv" /\ client[i] \in sent \cup {Stranger}
  /\ acked' = acked \cup {client[i]}
  /\ lis' = [lis EXCEPT ![i] = IF client[i] = Stranger THEN "accept" ELSE "exit"]
  /\ UNCHANGED <<at, port, backlog, client, sent, tries, stopped, envVars>>

\* payload_exit, after the acknowledgement was sent.
PayloadExit(i) ==
  /\ lis[i] = "exit" /\ Gone(i)
  /\ UNCHANGED <<sent, tries, stopped, envVars>>

\* Some other program connects; it sends something else or leaves.
StrangerConnects ==
  /\ strangers < MaxStrangers /\ strangers' = strangers + 1
  /\ port # NoOne /\ lis[port] \in {"accept", "recv", "exit"}
  /\ backlog' = Append(backlog, Stranger)
  /\ UNCHANGED <<at, lis, port, client, sent, acked, tries, stopped, before, faults>>

-----------------------------------------------------------------------------

pai_lifecycle_stop_previous(i) ==
  \/ FirstProbe(i) \/ CannotTell(i) \/ Release(i) \/ Connect(i)
  \/ SendStop(i) \/ RecvAck(i) \/ WaitTurn(i) \/ WaitEnds(i)

Main(i) == pai_lifecycle_stop_previous(i) \/ RuntimeInit(i) \/ pai_lifecycle_start(i)
pai_lifecycle_listener(i) == Listen(i) \/ Accept(i) \/ Recv(i) \/ PayloadExit(i)

Next ==
  \/ \E i \in Instances : Deploy(i) \/ Main(i) \/ MainReturns(i)
                            \/ pai_lifecycle_listener(i)
  \/ StrangerConnects

\* Each thread runs; nobody has to deploy, to end its experiments or to
\* connect.
Spec == /\ Init /\ [][Next]_vars
        /\ \A i \in Instances : WF_vars(Main(i)) /\ WF_vars(pai_lifecycle_listener(i))

-----------------------------------------------------------------------------
(* Properties. *)

\* platform.h: PAI_OK "when none exists or it terminated in time".  However
\* deployments overlap, no instance that served the port when stop_previous
\* began is still there once it has returned PAI_OK, unless a call failed.
Replaced ==
  faults = 0 => \A i \in stopped : \A j \in before[i] : at[j] = "gone"

\* stop_previous returns, although it waits for the acknowledgement without a
\* timeout: a listener that does not answer is one whose instance ends.
StopReturns == \A i \in Instances : at[i] = "probe" ~> at[i] \in {"init", "gone"}
=============================================================================
