----------------------------- MODULE MCKvCache -----------------------------
(* A region whose suballocator is used directly, or by a cache, for TLC. *)
EXTENDS KvCache

VARIABLE client   \* whose region it is

MemInit == KvInit /\ client \in {"owner", "cache"}

MemNext ==
  /\ UNCHANGED client
  /\ \/ client = "owner" /\ Next /\ UNCHANGED kvVars
     \/ client = "cache" /\ KvNext

MemSpec == MemInit /\ [][MemNext]_<<vars, client>>
=============================================================================
