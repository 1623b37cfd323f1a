-------------------------- MODULE MCSchedSessions --------------------------
(* Small instances of SchedSessions for TLC. *)
EXTENDS SchedSessions

MCPriorities == {-1, 0, 1}
=============================================================================
