----------------------------- MODULE Handshake -----------------------------
(***************************************************************************)
(* What the capability negotiation of the PAI protocol promises, without   *)
(* frames, streams of bytes or failures: the client asks, the server       *)
(* grants a set of capabilities at most once and only when asked, and the  *)
(* client opens, if it opens at all, with exactly the set granted.  Either *)
(* end may close at any time and stays closed.                             *)
(***************************************************************************)
EXTENDS Naturals, Sequences

CONSTANT Grantable   \* the capabilities a grant may contain

VARIABLES
  phase,    \* each end: "idle", "asking", "open" or "closed"
  asked,    \* the client has started to ask
  agreed    \* each end: << >> before it opens, <<caps>> from then on

absVars == <<phase, asked, agreed>>

Ends == {"client", "server"}

AbsInit ==
  /\ phase = [e \in Ends |-> "idle"]
  /\ asked = FALSE
  /\ agreed = [e \in Ends |-> << >>]

\* The client asks; an attempt cut short leaves it idle, free to try again.
Ask ==
  /\ phase["client"] = "idle"
  /\ asked' = TRUE
  /\ phase' \in {phase, [phase EXCEPT !["client"] = "asking"]}
  /\ UNCHANGED agreed

\* The server answers an asking client; it may fail to tell it and close.
Grant ==
  /\ phase["server"] = "idle"
  /\ asked
  /\ phase["client"] # "idle"
  /\ \E caps \in SUBSET Grantable :
       agreed' = [agreed EXCEPT !["server"] = <<caps>>]
  /\ phase' \in {[phase EXCEPT !["server"] = p] : p \in {"open", "closed"}}
  /\ UNCHANGED asked

\* The client learns of the grant.
Confirm ==
  /\ phase["client"] = "asking"
  /\ agreed["server"] # << >>
  /\ agreed' = [agreed EXCEPT !["client"] = agreed["server"]]
  /\ phase' = [phase EXCEPT !["client"] = "open"]
  /\ UNCHANGED asked

Shut(e) ==
  /\ phase[e] # "closed"
  /\ phase' = [phase EXCEPT ![e] = "closed"]
  /\ UNCHANGED <<asked, agreed>>

AbsNext == Ask \/ Grant \/ Confirm \/ \E e \in Ends : Shut(e)

AbsSpec == AbsInit /\ [][AbsNext]_absVars

=============================================================================
