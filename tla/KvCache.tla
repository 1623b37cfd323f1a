------------------------------ MODULE KvCache ------------------------------
(***************************************************************************)
(* The KV cache manager (cache/kv_cache.c) over the buddy suballocator: it *)
(* appends token positions, each reservation in one block of the region,   *)
(* remembers the prefix hash at every position, and is reset between       *)
(* sessions without giving the region up.  Statistics counters and touch   *)
(* ticks are left out.                                                     *)
(***************************************************************************)
EXTENDS Buddy

CONSTANTS
  BlockBytes,   \* num_layers * kv_bytes_per_token
  BlockTokens,  \* PAI_KV_BLOCK_TOKENS
  Width,        \* values of a uint32_t; 2^32 in the code
  Tokens,       \* reservation sizes callers ask for
  Hashes        \* prefix hashes callers present

\* The code's widths make a reservation that wraps too big for any region:
\* 2^32 positions against at most 2^30 bytes.
ASSUME KvAssumption ==
  /\ BlockBytes \in Nat \ {0} /\ BlockTokens \in Nat \ {0}
  /\ Tokens \subseteq 1..(Width - 1)
  /\ (Width - BlockTokens) * BlockBytes > 2^MaxOrder
  /\ Hashes \subseteq Nat

Align == 64   \* what reserve asks the suballocator for

VARIABLES        \* and those of the suballocator
  state,           \* "none", or who owns the region: "caller" or "cache"
  raws,            \* regions allocated by init_owned and not freed
  owned,           \* cache->buddy.owned is set
  positions,       \* cache->positions
  blocks,          \* block_ptrs and block_bytes_used, by position
  prefix_hashes,   \* cache->prefix_hashes
  seen,            \* history: positions whose hash was recorded
  hit              \* history: the position of the last prefix hit, or -1

kvVars == <<state, raws, owned, positions, blocks, prefix_hashes, seen, hit>>
vars == <<buddyVars, kvVars>>

\* The per-position cost the capacity is computed from.
Rounded == CHOOSE r \in {2^o : o \in 6..30} :
             /\ r >= BlockBytes \/ r = 2^30
             /\ \A q \in {2^o : o \in 6..30} : q >= BlockBytes => r <= q

capacity_tokens ==
  LET c == 2^MaxOrder \div Rounded IN IF c > BlockTokens THEN BlockTokens ELSE c

Positions == 0..(capacity_tokens - 1)
NoBlock == [ptr |-> 0, need |-> 0]
Fresh ==
  /\ positions' = 0
  /\ blocks' = [p \in Positions |-> NoBlock]
  /\ prefix_hashes' = [p \in Positions |-> 0]
  /\ seen' = {}
  /\ hit' = -1

\* pai_buddy_init over the region, as it is found.
BuddyFresh ==
  /\ hdr' = Stamp(hdr, "FREE", {[off |-> 0, order |-> MaxOrder]})
  /\ free_lists' = [o \in Orders |-> IF o = MaxOrder THEN {0} ELSE {}]
  /\ used_bytes' = 0
  /\ held' = {} /\ given' = {}
  /\ last' = [op |-> "init", order |-> MinOrder]

KvInit ==
  /\ Init
  /\ state = "none" /\ raws = 0 /\ owned = FALSE
  /\ positions = 0
  /\ blocks = [p \in Positions |-> NoBlock]
  /\ prefix_hashes = [p \in Positions |-> 0]
  /\ seen = {} /\ hit = -1

\* The suballocator is set up over the region before the tables are obtained;
\* when one of them is not (ok is FALSE), the cache is destroyed again.
pai_kv_cache_init(ok) ==
  /\ state = "none" /\ capacity_tokens > 0
  /\ state' = (IF ok THEN "caller" ELSE "none") /\ owned' = FALSE
  /\ BuddyFresh /\ Fresh
  /\ UNCHANGED raws

\* The region is handed to the cache, or freed when the cache was not set up.
pai_kv_cache_init_owned(ok) ==
  /\ state = "none" /\ capacity_tokens > 0
  /\ state' = (IF ok THEN "cache" ELSE "none") /\ owned' = ok
  /\ raws' = IF ok THEN raws + 1 ELSE raws
  /\ BuddyFresh /\ Fresh

\* buddy_destroy frees what `owned` points to, if anything.
pai_kv_cache_destroy ==
  /\ state # "none"
  /\ raws' = IF state = "cache" /\ owned THEN raws - 1 ELSE raws
  /\ state' = "none" /\ owned' = FALSE
  /\ BuddyFresh /\ Fresh

AlignUp(x) == ((x + Align - 1) \div Align) * Align

Payload_unaligned(off) == off                            \* mutant

\* Where pai_buddy_alloc puts the payload of a block.
Payload(off) == AlignUp(off + Header)

\* The check is done in 32 bits and may wrap.
FitsCapacity(t) == (positions + t) % Width <= capacity_tokens

pai_kv_cache_reserve(t) ==
  LET need == BlockBytes * t IN
  /\ state # "none"
  /\ FitsCapacity(t)
  /\ pai_buddy_alloc(OrderFor(need, Align))
  /\ LET b == CHOOSE x \in held' : x \notin held
     IN blocks' = [blocks EXCEPT ![positions] =
                     [ptr |-> Payload(b.off), need |-> need]]
  /\ positions' = positions + t
  /\ UNCHANGED <<state, raws, owned, prefix_hashes, seen, hit>>

\* PAI_ERR_NOMEM: past the capacity, or no block is left.
reserve_refused(t) ==
  /\ state # "none"
  /\ IF FitsCapacity(t)
     THEN alloc_refused(OrderFor(BlockBytes * t, Align))
     ELSE /\ last' = [op |-> "full", order |-> MinOrder]
          /\ UNCHANGED <<hdr, free_lists, used_bytes, held, given>>
  /\ UNCHANGED kvVars

pai_kv_cache_touch(p, h) ==
  /\ state # "none" /\ p < positions
  /\ hit' = IF prefix_hashes[p] = h THEN p ELSE -1
  /\ prefix_hashes' = [prefix_hashes EXCEPT ![p] = h]
  /\ seen' = IF prefix_hashes[p] = h THEN seen ELSE seen \cup {p}
  /\ UNCHANGED <<buddyVars, state, raws, owned, positions, blocks>>

pai_kv_cache_reset_keeps_hashes ==                       \* mutant
  /\ state # "none"
  /\ BuddyFresh
  /\ positions' = 0
  /\ blocks' = [p \in Positions |-> NoBlock]
  /\ seen' = {} /\ hit' = -1
  /\ UNCHANGED <<state, raws, owned, prefix_hashes>>

\* The region stays; the suballocator is set up anew over it, with the owned
\* pointer taken aside and put back.
pai_kv_cache_reset ==
  /\ state # "none"
  /\ BuddyFresh /\ Fresh
  /\ UNCHANGED <<state, raws, owned>>

KvNext ==
  \/ \E ok \in BOOLEAN : pai_kv_cache_init(ok) \/ pai_kv_cache_init_owned(ok)
  \/ pai_kv_cache_destroy \/ pai_kv_cache_reset
  \/ \E t \in Tokens : pai_kv_cache_reserve(t) \/ reserve_refused(t)
  \/ \E p \in Positions, h \in Hashes : pai_kv_cache_touch(p, h)

KvSpec == KvInit /\ [][KvNext]_vars

-----------------------------------------------------------------------------
(* Properties. *)

\* What is stored for one position overlaps neither another's nor any block
\* header of the suballocator, and lies within the region; a region that
\* init_owned allocated is there as long as the cache and freed once, however
\* often the cache was reset in between.
StorageSound ==
  LET Used(p) == blocks[p].ptr..(blocks[p].ptr + blocks[p].need - 1)
      Headers == UNION {b.off..(b.off + Header - 1) :
                          b \in held \cup FreeBlocks}
  IN /\ \A p \in {q \in Positions : blocks[q].need > 0} :
          /\ Used(p) \subseteq 0..(2^MaxOrder - 1)
          /\ Used(p) \cap Headers = {}
          /\ \A q \in Positions \ {p} : Used(p) \cap Used(q) = {}
     /\ raws = IF state = "cache" THEN 1 ELSE 0

\* A prefix hit is one on a position whose hash was recorded since the cache
\* was last empty; a stale hash would make a session skip computing a prefix
\* that is not there.  The hash 0 is the exception: calloc and reset leave it
\* at every position, recorded or not.
HitOnlyIfRecorded == hit # -1 => hit \in seen \/ prefix_hashes[hit] = 0

\* kv_cache.c: the capacity is computed from the rounded cost so that reserve
\* does not fail before the claimed capacity is reached.
CapacityReachable == last.op = "refused" => positions = capacity_tokens
=============================================================================
