------------------------------- MODULE Buddy -------------------------------
(***************************************************************************)
(* The buddy suballocator (memory/allocator.c).  Every block begins with a *)
(* header, and the allocator decides from headers alone: free recognises a *)
(* block in use by its magic, and merges with a neighbour whose header     *)
(* says that it is free.  Headers inside a larger block are stale.         *)
(*                                                                         *)
(* A free list is a set of blocks: which of several blocks of one order is *)
(* taken is left open.  Offsets are relative to the region's base.         *)
(***************************************************************************)
EXTENDS Integers, FiniteSets, FiniteSetsExt

CONSTANTS
  MinOrder,    \* order of PAI_BUDDY_MIN_BLOCK (6)
  MaxOrder,    \* log2 of the region's size
  Header,      \* PAI_BUDDY_HEADER
  Sizes,       \* request sizes callers use
  Aligns       \* request alignments callers use

ASSUME OrdersAssumption ==
  MinOrder \in Nat /\ MaxOrder \in Nat /\ MinOrder < MaxOrder
\* The law of exponents for the block sizes, 1 << order in the code.
ASSUME PowersAssumption ==
  \A i, j \in 0..MaxOrder :
    2^i \in Nat \ {0} /\ (i + j <= MaxOrder => 2^(i + j) = 2^i * 2^j)
ASSUME RequestsAssumption ==
  Header \in 0..2^MinOrder /\ Sizes \subseteq Nat \ {0} /\ Aligns \subseteq Nat \ {0}

VARIABLES
  hdr,          \* the header at each place a block may begin
  free_lists,   \* buddy->free_lists, as sets of offsets
  used_bytes,   \* buddy->used_bytes
  held,         \* history: blocks handed out and not given back
  given,        \* history: where blocks were handed out since it was set up
  last          \* history: the last operation and its outcome

buddyVars == <<hdr, free_lists, used_bytes, held, given, last>>

Orders == MinOrder..MaxOrder
Bases == {k * 2^MinOrder : k \in 0..(2^(MaxOrder - MinOrder) - 1)}
Block == [off: Bases, order: Orders]
Bytes(b) == b.off..(b.off + 2^b.order - 1)

\* Writing headers: h[b.off] for every b of a set of blocks.
Stamp(h, magic, bs) ==
  [x \in Bases |->
     IF \E b \in bs : b.off = x
     THEN [magic |-> magic, order |-> (CHOOSE b \in bs : b.off = x).order]
     ELSE h[x]]

Init ==
  /\ hdr = Stamp([x \in Bases |-> [magic |-> "none", order |-> MinOrder]],
                 "FREE", {[off |-> 0, order |-> MaxOrder]})
  /\ free_lists = [o \in Orders |-> IF o = MaxOrder THEN {0} ELSE {}]
  /\ used_bytes = 0
  /\ held = {} /\ given = {}
  /\ last = [op |-> "init", order |-> MinOrder]

(***************************************************************************)
(* Allocation.                                                             *)
(***************************************************************************)
\* The order of a request: room for the header, the alignment and the
\* payload.  Above MaxOrder the request is refused.
OrderFor(size, align) ==
  Min({o \in MinOrder..(MaxOrder + 1) :
         o = MaxOrder + 1 \/ size + align + Header <= 2^o})

\* The smallest order at or above the requested one that has a free block.
Found(order) == {f \in order..MaxOrder :
                   /\ free_lists[f] # {}
                   /\ \A g \in order..(f - 1) : free_lists[g] = {}}

Halves_kept(off, found, order) ==                        \* mutant
  {[off |-> off + 2^k, order |-> k] : k \in order + 1..found - 1}

\* The right halves that splitting a block of order `found` gives back.
Halves(off, found, order) ==
  {[off |-> off + 2^k, order |-> k] : k \in order..found - 1}

pai_buddy_alloc(order) ==
  \E found \in Found(order) : \E off \in free_lists[found] :
    LET halves == Halves(off, found, order) IN
    /\ free_lists' = [o \in Orders |->
         (free_lists[o] \ (IF o = found THEN {off} ELSE {}))
           \cup {h.off : h \in {x \in halves : x.order = o}}]
    /\ hdr' = Stamp(Stamp(hdr, "FREE", halves), "ALLOC",
                    {[off |-> off, order |-> order]})
    /\ used_bytes' = used_bytes + 2^order
    /\ held' = held \cup {[off |-> off, order |-> order]}
    /\ given' = given \cup {off}
    /\ last' = [op |-> "alloc", order |-> order]

alloc_refused(order) ==
  /\ order > MaxOrder \/ Found(order) = {}
  /\ last' = [op |-> "refused", order |-> order]
  /\ UNCHANGED <<hdr, free_lists, used_bytes, held, given>>

(***************************************************************************)
(* Release.                                                                *)
(***************************************************************************)
\* The block of order o that holds offset off, and its buddy.
Enclosing(off, o) == off - (off % 2^o)
BuddyOff(off, o) ==
  LET x == Enclosing(off, o)
  IN IF x % 2^(o + 1) = 0 THEN x + 2^o ELSE x - 2^o

block_is_free(off, order) ==
  hdr[off].magic = "FREE" /\ hdr[off].order = order

MergedOrder_once(off, order) ==                          \* mutant
  IF order < MaxOrder /\ block_is_free(BuddyOff(off, order), order)
  THEN order + 1 ELSE order

\* The order up to which the freed block merges: as long as the buddy at
\* each order on the way is free.
MergedOrder(off, order) ==
  Max({m \in order..MaxOrder :
         \A o \in order..(m - 1) : block_is_free(BuddyOff(off, o), o)})

pai_buddy_free_unmarked(off) ==                          \* mutant
  LET order == hdr[off].order
      top == MergedOrder(off, order)
      merged == [off |-> Enclosing(off, top), order |-> top]
  IN /\ hdr[off].magic = "ALLOC"
     /\ free_lists' = [o \in Orders |->
          (free_lists[o] \ (IF o \in order..(top - 1)
                            THEN {BuddyOff(off, o)} ELSE {}))
            \cup (IF o = top THEN {merged.off} ELSE {})]
     /\ hdr' = Stamp(hdr, "FREE", {merged})
     /\ used_bytes' = used_bytes - 2^order
     /\ held' = {x \in held : x.off # off}
     /\ last' = [op |-> "free", order |-> order]
     /\ UNCHANGED given

pai_buddy_free(off) ==
  LET order == hdr[off].order
      top == MergedOrder(off, order)
      merged == [off |-> Enclosing(off, top), order |-> top]
  IN /\ hdr[off].magic = "ALLOC"
     /\ free_lists' = [o \in Orders |->
          (free_lists[o] \ (IF o \in order..(top - 1)
                            THEN {BuddyOff(off, o)} ELSE {}))
            \cup (IF o = top THEN {merged.off} ELSE {})]
     /\ hdr' = Stamp(Stamp(hdr, "FREE", {[off |-> off, order |-> order]}),
                     "FREE", {merged})
     /\ used_bytes' = used_bytes - 2^order
     /\ held' = {x \in held : x.off # off}
     /\ last' = [op |-> "free", order |-> order]
     /\ UNCHANGED given

\* A block that is not in use: ignored.
free_ignored(off) ==
  /\ hdr[off].magic # "ALLOC"
  /\ last' = [op |-> "ignored", order |-> hdr[off].order]
  /\ UNCHANGED <<hdr, free_lists, used_bytes, held, given>>

\* Callers give back what they hold, and may give it back once more as long
\* as nobody was handed that memory again.
Untouched(off) == \A b \in held : off \notin Bytes(b)

Next ==
  \/ \E s \in Sizes, a \in Aligns :
       pai_buddy_alloc(OrderFor(s, a)) \/ alloc_refused(OrderFor(s, a))
  \/ \E off \in Bases :
       /\ off \in given /\ (Untouched(off) \/ \E b \in held : b.off = off)
       /\ pai_buddy_free(off) \/ free_ignored(off)

Spec == Init /\ [][Next]_buddyVars

-----------------------------------------------------------------------------
(* Properties. *)

FreeBlocks == {b \in Block : b.off \in free_lists[b.order]}

\* The blocks in use and the free ones tile the region: every byte belongs
\* to exactly one of them, so that no two callers share memory and none is
\* lost, however often blocks were split and merged.  Their headers tell the
\* truth about them, which is what makes merging from the buddy's header
\* alone exact.
Tiling ==
  /\ \A x \in Bases : Cardinality({b \in held \cup FreeBlocks : x \in Bytes(b)}) = 1
  /\ \A b \in held : hdr[b.off] = [magic |-> "ALLOC", order |-> b.order]
  /\ \A b \in FreeBlocks : hdr[b.off] = [magic |-> "FREE", order |-> b.order]

\* An allocation is refused only if every aligned span of its order holds a
\* byte in use.
RefusedOnlyWithoutRoom ==
  last.op = "refused" /\ last.order <= MaxOrder =>
    \A x \in Bases : x % 2^last.order = 0 =>
      \E b \in held : Bytes(b) \cap (x..(x + 2^last.order - 1)) # {}

\* A pointer given back twice is recognised as long as nobody was handed its
\* memory again: its old header does not say that it is in use, also where
\* blocks were split or merged over it since.  It is claimed of the pointers
\* handed out since the suballocator was set up: pai_buddy_init does not erase
\* the headers it finds in the region.
DoubleFreeRecognised ==
  \A x \in Bases : x \in given /\ Untouched(x) => hdr[x].magic # "ALLOC"
=============================================================================
