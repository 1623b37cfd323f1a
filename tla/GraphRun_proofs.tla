-------------------------- MODULE GraphRun_proofs --------------------------
(***************************************************************************)
(* From the planner to the runs, for every set of requests, every graph    *)
(* and every number of runs.                                               *)
(*                                                                         *)
(* The planner.  Free ranges and live allocations are apart and below the  *)
(* cursor, so that whatever is placed is apart from what is live; and what *)
(* is no longer live ended before anything yet to be placed starts,        *)
(* because the sort goes by start.  The peak is a sum: what is alive with  *)
(* an allocation at any of its steps is alive, and live, at its start.     *)
(*                                                                         *)
(* The sort.  The counter of an op is the number of its inputs whose       *)
(* producers have not told it, and the op is in the queue exactly when     *)
(* that is 0.  If an op is left over, an order of the graph would have a   *)
(* first op that is left over, which waits for nothing.                    *)
(*                                                                         *)
(* The runs.  Lifetimes contain every step from the producer to the last   *)
(* use, values whose lifetimes meet share no cell, and so whatever is      *)
(* needed from here on is left alone by each step.                         *)
(***************************************************************************)
EXTENDS GraphRun, TLAPS, WellFoundedInduction, SequenceTheorems, FiniteSetTheorems

\* A piece of the region, and two that share no byte.
Ranges == [off: Nat, size: Nat \ {0}]
Apart(r, q) == r.off + r.size <= q.off \/ q.off + q.size <= r.off
AllApart(F) == F \subseteq Ranges /\ \A r, q \in F : r # q => Apart(r, q)
Below(F, c) == \A r \in F : r.off + r.size <= c

\* Where allocation i lies.
Place(i) == Span(offsets[i], allocs[i].size)

\* Types; before the sweep nothing is placed.
PlannerType ==
  /\ allocs \in Seq(Allocations)
  /\ arena_align \in ArenaAligns
  /\ phase \in {"adding", "sweep", "done"}
  /\ Placed \subseteq Idx
  /\ offsets \in [Placed -> Nat]
  /\ live \subseteq Placed
  /\ cursor \in Nat
  /\ phase = "adding" => Placed = {} /\ live = {} /\ free = {}

\* Free ranges and live allocations are apart, and below the cursor.
SpaceApart ==
  /\ AllApart(free)
  /\ Below(free, cursor)
  /\ \A i \in Placed : End(i) <= cursor
  /\ \A i, j \in live : i # j => Apart(Place(i), Place(j))
  /\ \A i \in live, r \in free : Apart(Place(i), r)

\* Pinned allocations come last and are never released; what was released
\* ended before anything that is still to come.
SweepOrder ==
  /\ \A i \in Placed : allocs[i].pinned =>
       i \in live /\ \A k \in Idx \ Placed : allocs[k].pinned
  /\ \A j \in Placed \ live, k \in Idx \ Placed :
       allocs[k].pinned \/ allocs[j].end <= allocs[k].start

\* What the layout promises, of whatever has been placed.
LayoutSound ==
  /\ \A i \in Placed : offsets[i] % allocs[i].align = 0
  /\ \A i, j \in Placed :
       i # j /\ (\/ allocs[i].pinned
                 \/ allocs[i].start < allocs[j].end /\ allocs[j].start < allocs[i].end)
         => Apart(Place(i), Place(j))

PlanInv == PlannerType /\ SpaceApart /\ SweepOrder /\ LayoutSound

-----------------------------------------------------------------------------
(* Facts about the operators. *)

\* Division with remainder.
LEMMA DivMod ==
  ASSUME NEW x \in Nat, NEW a \in Nat \ {0}
  PROVE  /\ x \div a \in Nat /\ x % a \in Nat /\ x % a < a
         /\ x = (x \div a) * a + (x % a)
OBVIOUS

\* Rounding up never loses a byte and gives a multiple.
LEMMA AlignUp ==
  ASSUME NEW v \in Nat, NEW a \in Nat \ {0}
  PROVE  /\ pai_mem_align_up(v, a) \in Nat
         /\ v <= pai_mem_align_up(v, a)
         /\ pai_mem_align_up(v, a) % a = 0
<1>1. PICK x \in Nat : x = v + a - 1
  OBVIOUS
<1>2. PICK q \in Nat, m \in Nat : x = q * a + m /\ m < a /\ q = x \div a
  BY DivMod
<1>3. q * a \in Nat /\ v <= q * a
  BY <1>1, <1>2
<1>4. (q * a) % a = 0
  BY <1>2
<1>5. pai_mem_align_up(v, a) = q * a
  BY <1>1, <1>2 DEF pai_mem_align_up
<1>6. QED
  BY <1>3, <1>4, <1>5

\* A set of numbers has a least one.
LEMMA LeastOf ==
  ASSUME NEW S \in SUBSET Nat, S # {}
  PROVE  \E x \in S : \A y \in S : x <= y
<1>1. PICK x \in S : \A y \in S : ~(<<y, x>> \in OpToRel(<, Nat))
  BY NatLessThanWellFounded, WFMin
<1>2. OpToRel(<, Nat) = {ss \in Nat \X Nat : ss[1] < ss[2]}
  BY Zenon DEF OpToRel
<1>3. ASSUME NEW u \in Nat, NEW w \in Nat, w < u
      PROVE  <<w, u>> \in {ss \in Nat \X Nat : ss[1] < ss[2]}
  BY <1>3
<1>4. \A y \in S : ~(y < x)
  BY <1>1, <1>2, <1>3
<1>5. QED
  BY <1>4

-----------------------------------------------------------------------------
(* Sums.  A sum is a fold over the sets, chosen as the function that solves *)
(* its recursion: there is one, and it does not depend on the order.       *)

\* The element a fold takes next.
First(s) == CHOOSE x \in s : TRUE
\* One turn of the fold g.
Turn(g, as, s) == IF s = {} THEN 0 ELSE as[First(s)].size + g[s \ {First(s)}]
\* g is the fold over the sets of D.
Folds(g, as, D) == \A s \in D : g[s] = Turn(g, as, s)

\* The sum, with the operators of the library expanded.
LEMMA SumChosen ==
  ASSUME NEW as, NEW S
  PROVE SumOf(as, S) = (CHOOSE it : it = [s \in SUBSET S |-> 
     IF s = {} THEN 0 ELSE as[First(s)].size + it[s \ {First(s)}]])[S]
BY Zenon DEF SumOf, MapThenSumSet, MapThenFoldSet, First

\* The element taken is one of the set.
LEMMA FirstIn == \A s : s # {} => First(s) \in s
BY DEF First

\* Removing an element of a finite set.
LEMMA OneLess ==
  ASSUME NEW s, IsFiniteSet(s), NEW x \in s
  PROVE  /\ IsFiniteSet(s \ {x}) /\ Cardinality(s) \in Nat /\ Cardinality(s \ {x}) \in Nat
         /\ Cardinality(s \ {x}) = Cardinality(s) - 1
BY FS_RemoveElement, FS_CardinalityType

\* The recursion has a solution, by induction on the size of the sets.
LEMMA FoldExists ==
  ASSUME NEW as, NEW S, IsFiniteSet(S), \A i \in S : as[i].size \in Nat
  PROVE  \E g \in [SUBSET S -> Nat] : Folds(g, as, SUBSET S)
<1> DEFINE F(n) == {s \in SUBSET S : Cardinality(s) <= n}
           Good(n) == \E g \in [F(n) -> Nat] : Folds(g, as, F(n))
           Bad == {n \in Nat : ~Good(n)}
<1>1. \A s \in SUBSET S : IsFiniteSet(s) /\ Cardinality(s) \in Nat
  BY FS_Subset, FS_CardinalityType
<1>a. \A n \in Nat : \A s \in F(n) : s \in SUBSET S /\ Cardinality(s) <= n
  OBVIOUS
<1>b. \A n \in Nat : \A s \in SUBSET S : Cardinality(s) <= n => s \in F(n)
  OBVIOUS
<1> HIDE DEF F
<1>2. Bad = {}
  <2> SUFFICES ASSUME Bad # {} PROVE FALSE
    OBVIOUS
  <2>1. PICK n \in Bad : \A m \in Bad : n <= m
    BY LeastOf
  <2>2. n \in Nat /\ ~Good(n)
    OBVIOUS
  <2>3. CASE n = 0
    <3>1. \A s \in F(n) : s = {}
      BY <1>1, <1>a, <2>2, <2>3, FS_EmptySet
    <3>2. PICK g : g = [s \in F(n) |-> 0]
      OBVIOUS
    <3>3. g \in [F(n) -> Nat] /\ \A s \in F(n) : g[s] = 0
      BY <3>2
    <3>4. Folds(g, as, F(n))
      BY <3>1, <3>3 DEF Folds, Turn
    <3>5. QED
      BY <2>2, <3>3, <3>4
  <2>4. CASE n > 0
    <3>a. n - 1 \in Nat /\ n - 1 \notin Bad
      <4> HIDE DEF Bad
      <4>1. n \in Nat /\ \A m \in Bad : n <= m
        BY <2>1, <2>2
      <4>2. QED
        BY <2>4, <4>1
    <3>1. n - 1 \in Nat /\ Good(n - 1)
      BY <3>a, Zenon
    <3>2. PICK g \in [F(n - 1) -> Nat] : Folds(g, as, F(n - 1))
      BY <3>1
    <3>3. \A s \in F(n) : s # {} => First(s) \in S /\ s \ {First(s)} \in F(n - 1)
      <4> SUFFICES ASSUME NEW s \in F(n), s # {}
                   PROVE  First(s) \in S /\ s \ {First(s)} \in F(n - 1)
        OBVIOUS
      <4>1. First(s) \in s /\ s \in SUBSET S /\ Cardinality(s) <= n /\ IsFiniteSet(s)
        BY <1>1, <1>a, <2>2, FirstIn
      <4>2. Cardinality(s \ {First(s)}) = Cardinality(s) - 1 /\ Cardinality(s) \in Nat
        BY <4>1, OneLess
      <4>3. Cardinality(s \ {First(s)}) <= n - 1
        BY <2>2, <4>1, <4>2
      <4>4. QED
        BY <1>b, <3>1, <4>1, <4>3
    <3>4. PICK h : h = [s \in F(n) |-> Turn(g, as, s)]
      OBVIOUS
    <3>5. \A s \in F(n) : Turn(g, as, s) \in Nat
      <4> SUFFICES ASSUME NEW s \in F(n) PROVE Turn(g, as, s) \in Nat
        OBVIOUS
      <4>1. CASE s = {}
        BY <4>1 DEF Turn
      <4>2. CASE s # {}
        <5>1. PICK a \in Nat, b \in Nat : a = as[First(s)].size /\ b = g[s \ {First(s)}]
          BY <3>2, <3>3, <4>2
        <5>2. Turn(g, as, s) = a + b
          BY <4>2, <5>1 DEF Turn
        <5>3. QED
          BY <5>2
      <4>3. QED
        BY <4>1, <4>2
    <3>6. h \in [F(n) -> Nat]
      BY <3>4, <3>5
    <3>7. \A s \in F(n - 1) : h[s] = g[s]
      <4>1. \A s \in F(n - 1) : s \in F(n)
        BY <1>1, <1>a, <1>b, <2>2, <3>1
      <4>2. QED
        BY <3>2, <3>4, <4>1 DEF Folds
    <3>8. Folds(h, as, F(n))
      <4>1. \A s \in F(n) : Turn(h, as, s) = Turn(g, as, s)
        BY <3>3, <3>7 DEF Turn
      <4>2. QED
        BY <3>4, <4>1 DEF Folds
    <3>9. QED
      BY <2>2, <3>6, <3>8
  <2>5. QED
    BY <2>2, <2>3, <2>4
<1>3. PICK k \in Nat : k = Cardinality(S)
  BY FS_CardinalityType
<1>4. F(k) = SUBSET S
  <2>1. \A s \in SUBSET S : Cardinality(s) <= k
    BY <1>3, FS_Subset
  <2>2. QED
    BY <1>a, <1>b, <2>1
<1>5. Good(k)
  BY <1>2, <1>3
<1>6. QED
  BY <1>4, <1>5

\* Two folds give the same for T.
Agree(g, h, T) == g[T] = h[T]

\* The fold is the only one.
LEMMA FoldUnique ==
  ASSUME NEW as, NEW S, IsFiniteSet(S), NEW g, NEW h, NEW T \in SUBSET S,
         Folds(g, as, SUBSET S), Folds(h, as, SUBSET T)
  PROVE  Agree(g, h, T)
<1> DEFINE Bad == {n \in Nat : \E s \in SUBSET T : Cardinality(s) = n /\ g[s] # h[s]}
<1>1. \A s \in SUBSET T : IsFiniteSet(s) /\ Cardinality(s) \in Nat
  BY FS_Subset, FS_CardinalityType
<1>2. Bad = {}
  <2> SUFFICES ASSUME Bad # {} PROVE FALSE
    OBVIOUS
  <2>1. PICK n \in Bad : \A m \in Bad : n <= m
    BY LeastOf
  <2>2. PICK s \in SUBSET T : Cardinality(s) = n /\ g[s] # h[s]
    OBVIOUS
  <2>3. s # {}
    BY <2>2 DEF Folds, Turn
  <2>4. /\ First(s) \in s /\ Cardinality(s \ {First(s)}) = n - 1
        /\ n \in Nat /\ Cardinality(s \ {First(s)}) \in Nat
    BY <1>1, <2>2, <2>3, FirstIn, OneLess
  <2>5. g[s \ {First(s)}] = h[s \ {First(s)}]
    BY <2>1, <2>4
  <2>6. g[s] = h[s]
    BY <2>3, <2>5 DEF Folds, Turn
  <2>7. QED
    BY <2>2, <2>6
<1>3. QED
  BY <1>1, <1>2 DEF Agree

\* The sum is the fold.
LEMMA SumIsFold ==
  ASSUME NEW as, NEW S, IsFiniteSet(S), \A i \in S : as[i].size \in Nat
  PROVE  \E g \in [SUBSET S -> Nat] :
           Folds(g, as, SUBSET S) /\ \A T \in SUBSET S : SumOf(as, T) = g[T]
<1>1. PICK g \in [SUBSET S -> Nat] : Folds(g, as, SUBSET S)
  BY FoldExists
<1>2. ASSUME NEW T \in SUBSET S PROVE SumOf(as, T) = g[T]
  <2>1. IsFiniteSet(T) /\ \A i \in T : as[i].size \in Nat
    BY FS_Subset
  <2>2. PICK h \in [SUBSET T -> Nat] : Folds(h, as, SUBSET T)
    BY <2>1, FoldExists
  <2>3. h = [s \in SUBSET T |-> IF s = {} THEN 0 ELSE as[First(s)].size + h[s \ {First(s)}]]
    BY <2>2 DEF Folds, Turn
  <2>4. PICK c : /\ c = CHOOSE it : it = [s \in SUBSET T |->
                        IF s = {} THEN 0 ELSE as[First(s)].size + it[s \ {First(s)}]]
                 /\ SumOf(as, T) = c[T]
    BY SumChosen, Zenon
  <2>5. c = [s \in SUBSET T |-> IF s = {} THEN 0 ELSE as[First(s)].size + c[s \ {First(s)}]]
    BY <2>3, <2>4, Zenon
  <2>6. Folds(c, as, SUBSET T)
    BY <2>5 DEF Folds, Turn
  <2>7. Agree(g, c, T)
    BY <1>1, <2>6, FoldUnique
  <2>8. QED
    BY <2>4, <2>7 DEF Agree
<1>3. QED
  BY <1>1, <1>2

\* The elements may be taken in any order: whichever is taken first.
LEMMA SumOrder ==
  ASSUME NEW as, NEW S, IsFiniteSet(S), \A i \in S : as[i].size \in Nat
  PROVE  /\ SumOf(as, {}) = 0
         /\ \A T \in SUBSET S : SumOf(as, T) \in Nat
         /\ \A T \in SUBSET S : \A x \in T : SumOf(as, T) = as[x].size + SumOf(as, T \ {x})
<1>1. PICK g \in [SUBSET S -> Nat] :
        Folds(g, as, SUBSET S) /\ \A T \in SUBSET S : SumOf(as, T) = g[T]
  BY SumIsFold
<1>2. g[{}] = 0
  BY <1>1 DEF Folds, Turn
<1> DEFINE AnyFirst(s) == \A x \in s : g[s] = as[x].size + g[s \ {x}]
           Bad == {n \in Nat : \E s \in SUBSET S : Cardinality(s) = n /\ ~AnyFirst(s)}
<1>3. \A s \in SUBSET S : IsFiniteSet(s) /\ Cardinality(s) \in Nat
  BY FS_Subset, FS_CardinalityType
<1>4. Bad = {}
  <2> SUFFICES ASSUME Bad # {} PROVE FALSE
    OBVIOUS
  <2>1. PICK n \in Bad : \A m \in Bad : n <= m
    BY LeastOf
  <2>2. PICK s \in SUBSET S : Cardinality(s) = n /\ ~AnyFirst(s)
    OBVIOUS
  <2>3. PICK x \in s : g[s] # as[x].size + g[s \ {x}]
    BY <2>2
  <2>4. PICK y \in s : y = First(s)
    BY <2>3, FirstIn
  <2>5. g[s] = as[y].size + g[s \ {y}]
    BY <1>1, <2>4 DEF Folds, Turn
  <2>6. x # y
    BY <2>3, <2>5
  <2>7. AnyFirst(s \ {y}) /\ AnyFirst(s \ {x})
    <3>1. /\ Cardinality(s \ {y}) = n - 1 /\ Cardinality(s \ {x}) = n - 1
          /\ n \in Nat /\ n - 1 \in Nat
      BY <1>3, <2>2, <2>3, <2>4, OneLess
    <3>2. n - 1 \notin Bad
      <4> HIDE DEF Bad
      <4>1. QED
        BY <2>1, <3>1
    <3>3. s \ {y} \in SUBSET S /\ s \ {x} \in SUBSET S
      OBVIOUS
    <3>4. QED
      BY <3>1, <3>2, <3>3
  <2>8. PICK r : r = (s \ {y}) \ {x} /\ r = (s \ {x}) \ {y}
    OBVIOUS
  <2>9. g[s \ {y}] = as[x].size + g[r] /\ g[s \ {x}] = as[y].size + g[r]
    BY <2>6, <2>7, <2>8
  <2>10. PICK a \in Nat, b \in Nat, c \in Nat : a = as[x].size /\ b = as[y].size /\ c = g[r]
    BY <2>8
  <2>11. g[s] = b + (a + c) /\ g[s \ {x}] = b + c
    BY <2>5, <2>9, <2>10
  <2>12. g[s] = a + (b + c)
    BY <2>11
  <2>13. QED
    BY <2>3, <2>10, <2>11, <2>12
<1>5. ASSUME NEW T \in SUBSET S, NEW x \in T
      PROVE  SumOf(as, T) = as[x].size + SumOf(as, T \ {x})
  <2>1. AnyFirst(T)
    BY <1>3, <1>4
  <2>2. T \ {x} \in SUBSET S
    OBVIOUS
  <2>3. QED
    BY <1>1, <2>1, <2>2
<1>6. SumOf(as, {}) = 0 /\ \A T \in SUBSET S : SumOf(as, T) \in Nat
  BY <1>1, <1>2
<1>7. QED
  BY <1>5, <1>6

\* A smaller set has a smaller sum.
LEMMA SumMonotone ==
  ASSUME NEW as, NEW S, IsFiniteSet(S), \A i \in S : as[i].size \in Nat,
         NEW U \in SUBSET S, NEW T \in SUBSET U
  PROVE  SumOf(as, T) <= SumOf(as, U)
<1> DEFINE Bad == {n \in Nat : \E V \in SUBSET S : /\ Cardinality(V) = n /\ T \subseteq V
                                                  /\ ~(SumOf(as, T) <= SumOf(as, V))}
<1>1. \A V \in SUBSET S : IsFiniteSet(V) /\ Cardinality(V) \in Nat
  BY FS_Subset, FS_CardinalityType
<1>2. /\ \A V \in SUBSET S : SumOf(as, V) \in Nat
      /\ \A V \in SUBSET S : \A x \in V : SumOf(as, V) = as[x].size + SumOf(as, V \ {x})
  BY SumOrder
<1>3. Bad = {}
  <2> SUFFICES ASSUME Bad # {} PROVE FALSE
    OBVIOUS
  <2>1. PICK n \in Bad : \A m \in Bad : n <= m
    BY LeastOf
  <2>2. PICK V \in SUBSET S : /\ Cardinality(V) = n /\ T \subseteq V
                             /\ ~(SumOf(as, T) <= SumOf(as, V))
    OBVIOUS
  <2> HIDE DEF Bad
  <2>3. T # V
    <3> SUFFICES ASSUME T = V PROVE FALSE
      OBVIOUS
    <3>1. PICK t \in Nat : t = SumOf(as, T)
      BY <1>2
    <3>2. t <= t
      OBVIOUS
    <3>3. QED
      BY <2>2, <3>1, <3>2
  <2>4. PICK x \in V : x \notin T
    BY <2>2, <2>3
  <2>5. PICK W \in SUBSET S : W = V \ {x}
    OBVIOUS
  <2>6. T \subseteq W /\ Cardinality(W) = n - 1 /\ n \in Nat /\ n - 1 \in Nat
    BY <1>1, <2>2, <2>4, <2>5, OneLess
  <2>7. SumOf(as, T) <= SumOf(as, W)
    <3>1. n - 1 \notin Bad
      BY <2>1, <2>6
    <3>2. QED
      BY <2>6, <3>1 DEF Bad
  <2>8. PICK a \in Nat, b \in Nat, c \in Nat, d \in Nat :
          a = as[x].size /\ b = SumOf(as, W) /\ c = SumOf(as, V) /\ d = SumOf(as, T)
    BY <1>2, <2>2
  <2>9. c = a + b /\ d <= b
    BY <1>2, <2>4, <2>5, <2>7, <2>8
  <2>10. d <= c
    BY <2>9
  <2>11. QED
    BY <2>2, <2>8, <2>10
<1>4. QED
  BY <1>1, <1>3

\* A finite set of places has a last one.
LEMMA LastOf ==
  ASSUME NEW S, S # {}, NEW f, NEW c \in Nat, \A i \in S : f[i] \in Nat /\ f[i] <= c
  PROVE  \E x \in S : \A y \in S : f[y] <= f[x]
<1> DEFINE A == {c - f[i] : i \in S}
<1>1. A \in SUBSET Nat /\ A # {}
  OBVIOUS
<1>2. PICK m \in A : \A k \in A : m <= k
  <2> HIDE DEF A
  <2>1. QED
    BY <1>1, LeastOf
<1>3. PICK x \in S : m = c - f[x]
  OBVIOUS
<1>4. ASSUME NEW y \in S PROVE f[y] <= f[x]
  <2>1. c - f[x] <= c - f[y]
    BY <1>2, <1>3
  <2>2. QED
    BY <2>1
<1>5. QED
  BY <1>4

\* The size of piece i of the list as.
Sz(as, i) == as[i].size
\* The pieces S of as, at offs, are apart; they end by c.
PiecesApart(as, offs, S) ==
  /\ \A i \in S : Sz(as, i) \in Nat \ {0} /\ offs[i] \in Nat
  /\ \A i, j \in S : i # j => \/ offs[i] + Sz(as, i) <= offs[j]
                              \/ offs[j] + Sz(as, j) <= offs[i]
EndBy(as, offs, S, c) == \A i \in S : offs[i] + Sz(as, i) <= c

\* SumOrder, in terms of Sz.
LEMMA SumSizes ==
  ASSUME NEW as, NEW S, IsFiniteSet(S), \A i \in S : Sz(as, i) \in Nat
  PROVE  /\ SumOf(as, {}) = 0
         /\ \A T \in SUBSET S : SumOf(as, T) \in Nat
         /\ \A T \in SUBSET S : \A x \in T : SumOf(as, T) = Sz(as, x) + SumOf(as, T \ {x})
BY SumOrder DEF Sz

\* The numbers of one piece.
LEMMA PieceNumbers ==
  ASSUME NEW as, NEW offs, NEW S, PiecesApart(as, offs, S), NEW i \in S,
         NEW c \in Nat, EndBy(as, offs, S, c)
  PROVE  \E a \in Nat, o \in Nat : a = Sz(as, i) /\ o = offs[i] /\ a > 0 /\ o + a <= c
<1>1. PICK a, o : a = Sz(as, i) /\ o = offs[i]
  OBVIOUS
<1>2. a \in Nat \ {0} /\ o \in Nat /\ o + a <= c
  BY <1>1 DEF PiecesApart, EndBy
<1>3. a \in Nat /\ a > 0
  BY <1>2
<1>4. QED
  BY <1>1, <1>2, <1>3

\* Pieces that are apart and end by c have at most c bytes.
LEMMA PackedSum ==
  ASSUME NEW as, NEW offs, NEW S, IsFiniteSet(S), PiecesApart(as, offs, S),
         NEW c \in Nat, EndBy(as, offs, S, c)
  PROVE  SumOf(as, S) <= c
<1> DEFINE Bad == {n \in Nat : \E T \in SUBSET S, d \in Nat :
                     Cardinality(T) = n /\ EndBy(as, offs, T, d) /\ ~(SumOf(as, T) <= d)}
<1>1. \A V \in SUBSET S : IsFiniteSet(V) /\ Cardinality(V) \in Nat
  BY FS_Subset, FS_CardinalityType
<1>2. /\ SumOf(as, {}) = 0
      /\ \A V \in SUBSET S : SumOf(as, V) \in Nat
      /\ \A V \in SUBSET S : \A x \in V : SumOf(as, V) = Sz(as, x) + SumOf(as, V \ {x})
  BY SumSizes DEF PiecesApart
<1>3. Bad = {}
  <2> SUFFICES ASSUME Bad # {} PROVE FALSE
    OBVIOUS
  <2>1. PICK n \in Bad : \A m \in Bad : n <= m
    BY LeastOf
  <2>2. PICK T \in SUBSET S, d \in Nat :
          Cardinality(T) = n /\ EndBy(as, offs, T, d) /\ ~(SumOf(as, T) <= d)
    OBVIOUS
  <2> HIDE DEF Bad
  <2>0. PiecesApart(as, offs, T)
    BY DEF PiecesApart
  <2>3. T # {}
    <3> SUFFICES ASSUME T = {} PROVE FALSE
      OBVIOUS
    <3>1. ~(0 <= d)
      BY <1>2, <2>2
    <3>2. QED
      BY <3>1
  <2>4. PICK x \in T : \A y \in T : offs[y] <= offs[x]
    <3>1. ASSUME NEW i \in T PROVE offs[i] \in Nat /\ offs[i] <= d
      <4>1. PICK a \in Nat, o \in Nat : a = Sz(as, i) /\ o = offs[i] /\ a > 0 /\ o + a <= d
        BY <2>0, <2>2, PieceNumbers
      <4>2. a > 0 /\ o + a <= d
        BY <4>1
      <4>3. o <= d
        BY <4>2
      <4>4. QED
        BY <4>1, <4>3
    <3>2. QED
      BY <2>3, <3>1, LastOf
  <2>5. PICK a \in Nat, o \in Nat : a = Sz(as, x) /\ o = offs[x] /\ a > 0 /\ o + a <= d
    BY <2>0, <2>2, <2>4, PieceNumbers
  <2>6. PICK W \in SUBSET S : W = T \ {x}
    OBVIOUS
  <2>7. Cardinality(W) = n - 1 /\ n \in Nat /\ n - 1 \in Nat
    BY <1>1, <2>2, <2>4, <2>6, OneLess DEF Bad
  <2>8. EndBy(as, offs, W, o)
    <3> SUFFICES ASSUME NEW y \in W PROVE offs[y] + Sz(as, y) <= o
      BY DEF EndBy
    <3>1. PICK s \in Nat, p \in Nat : s = Sz(as, y) /\ p = offs[y] /\ s > 0 /\ p + s <= d
      BY <2>0, <2>2, <2>6, PieceNumbers
    <3>2. y # x /\ p <= o
      BY <2>4, <2>5, <2>6, <3>1
    <3>3. p + s <= o \/ o + a <= p
      BY <2>5, <2>6, <3>1, <3>2 DEF PiecesApart
    <3>4. p + s <= o
      <4>1. a > 0 /\ p <= o
        BY <2>5, <3>2
      <4>2. QED
        BY <3>3, <4>1
    <3>5. QED
      BY <3>1, <3>4
  <2>9. SumOf(as, W) <= o
    <3>1. n - 1 \notin Bad
      BY <2>1, <2>7
    <3>2. QED
      BY <2>5, <2>7, <2>8, <3>1 DEF Bad
  <2>10. PICK b \in Nat, t \in Nat : b = SumOf(as, W) /\ t = SumOf(as, T)
    BY <1>2
  <2>11. t = a + b /\ b <= o /\ o + a <= d
    BY <1>2, <2>4, <2>5, <2>6, <2>9, <2>10
  <2>12. t <= d
    BY <2>11
  <2>13. QED
    BY <2>2, <2>10, <2>12
<1>4. QED
  BY <1>1, <1>3

-----------------------------------------------------------------------------
(* The free list. *)

\* Best fit finds one: a smallest range, the first of that size.
LEMMA BestExists ==
  ASSUME NEW F, F \subseteq Ranges, F # {}
  PROVE  \E r \in F : \A q \in F : r.size < q.size \/ (r.size = q.size /\ r.off <= q.off)
<1> DEFINE S == {r.size : r \in F}
<1>1. PICK s \in S : \A t \in S : s <= t
  <2>1. S \subseteq Nat /\ S # {}
    BY DEF Ranges
  <2>2. QED
    BY <2>1, LeastOf
<1> DEFINE O == {r.off : r \in {q \in F : q.size = s}}
<1>2. PICK o \in O : \A t \in O : o <= t
  <2>1. O \subseteq Nat /\ O # {}
    BY DEF Ranges
  <2> HIDE DEF O
  <2>2. QED
    BY <2>1, LeastOf
<1>3. PICK r \in F : r.size = s /\ r.off = o
  OBVIOUS
<1>4. ASSUME NEW q \in F PROVE r.size < q.size \/ (r.size = q.size /\ r.off <= q.off)
  <2>1. q.size \in S /\ s <= q.size /\ s \in Nat /\ q.size \in Nat
    BY <1>1, <1>3 DEF Ranges
  <2>2. q.size = s => o <= q.off
    BY <1>2
  <2>3. QED
    BY <2>1, <2>2, <1>3
<1>5. QED
  BY <1>4

\* free_list_insert: ranges that were apart from each other and from the new
\* one stay so, and what was apart from all of them is apart from the result.
LEMMA InsertedApart ==
  ASSUME NEW F, AllApart(F), NEW u, NEW off \in Nat, NEW size \in Nat \ {0},
         \A r \in F : Apart(r, Span(off, size))
  PROVE  LET G == Inserted(F, u, off, size).list IN
         /\ AllApart(G)
         /\ \A x \in Ranges : (\A r \in F : Apart(x, r)) /\ Apart(x, Span(off, size))
              => \A r \in G : Apart(x, r)
         /\ \A c \in Nat : Below(F, c) /\ off + size <= c => Below(G, c)
<1> DEFINE prev == {r \in F : r.off + r.size = off}
           succ == {r \in F : off + size = r.off}
           p == IF prev # {} THEN CHOOSE r \in prev : TRUE ELSE Span(off, 0)
           q == IF succ # {} THEN CHOOSE r \in succ : TRUE ELSE Span(off + size, 0)
           merged == Span(p.off, p.size + size + q.size)
           G == Inserted(F, u, off, size).list
           new == Span(off, size)
<1>1. /\ p.off \in Nat /\ p.size \in Nat /\ p.off + p.size = off
      /\ p \in F \/ (p.off = off /\ p.size = 0)
  BY DEF AllApart, Ranges, Span
<1>2. /\ q.off \in Nat /\ q.size \in Nat /\ q.off = off + size
      /\ q \in F \/ (q.off = off + size /\ q.size = 0)
  BY DEF AllApart, Ranges, Span
<1>3. new \in Ranges /\ new.off = off /\ new.size = size
  BY DEF Ranges, Span
<1>4. /\ merged \in Ranges /\ merged.off = p.off /\ merged.size = p.size + size + q.size
  BY <1>1, <1>2 DEF Ranges, Span
<1>5. G \subseteq (F \ (prev \cup succ)) \cup {merged} \/ G = F
      \/ (G = F \cup {merged} /\ prev \cup succ = {})
  BY DEF Inserted
<1>6. G \subseteq (F \ (prev \cup succ)) \cup {merged} \/ G = F
  BY <1>5
<1> HIDE DEF prev, succ, p, q, merged, G, new
<1>7. ASSUME NEW x \in Ranges, Apart(x, new), p \in F => Apart(x, p), q \in F => Apart(x, q)
      PROVE  Apart(x, merged)
  <2>1. x.off \in Nat /\ x.size \in Nat /\ x.size > 0
    BY DEF Ranges
  <2>2. CASE x.off + x.size <= off
    <3>1. p \in F => x.off + x.size <= p.off
      BY <1>1, <1>7, <2>1, <2>2 DEF Apart
    <3>2. QED
      BY <1>1, <1>4, <2>1, <2>2, <3>1 DEF Apart
  <2>3. CASE off + size <= x.off
    <3>1. q \in F => q.off + q.size <= x.off
      BY <1>2, <1>7, <2>1, <2>3 DEF Apart
    <3>2. QED
      BY <1>1, <1>2, <1>4, <2>1, <2>3, <3>1 DEF Apart
  <2>4. QED
    BY <1>3, <1>7, <2>2, <2>3 DEF Apart
<1>8. \A x \in Ranges : (\A r \in F : Apart(x, r)) /\ Apart(x, new) => \A r \in G : Apart(x, r)
  BY <1>6, <1>7
<1>9. AllApart(G)
  <2>1. F \subseteq Ranges /\ \A r, s \in F : r # s => Apart(r, s)
    BY DEF AllApart
  <2>2. ASSUME NEW r \in F \ (prev \cup succ) PROVE Apart(r, merged) /\ Apart(merged, r)
    <3>1. p \in F => p \in prev
      BY <1>1 DEF prev
    <3>2. q \in F => q \in succ
      BY <1>2 DEF succ
    <3>3. Apart(r, new) /\ (p \in F => Apart(r, p)) /\ (q \in F => Apart(r, q))
      BY <2>1, <3>1, <3>2 DEF new
    <3>4. Apart(r, merged)
      BY <1>7, <2>1, <3>3
    <3>5. QED
      BY <3>4 DEF Apart
  <2>3. G \subseteq Ranges
    BY <1>4, <1>6, <2>1
  <2>4. ASSUME NEW r \in G, NEW s \in G, r # s PROVE Apart(r, s)
    <3>1. CASE G = F
      BY <2>1, <2>4, <3>1
    <3>2. CASE G \subseteq (F \ (prev \cup succ)) \cup {merged}
      BY <2>1, <2>2, <2>4, <3>2
    <3>3. QED
      BY <1>6, <3>1, <3>2
  <2>5. QED
    BY <2>3, <2>4 DEF AllApart
<1>10. ASSUME NEW c \in Nat, Below(F, c), off + size <= c PROVE Below(G, c)
  <2>1. merged.off + merged.size <= c
    <3>1. q.off + q.size <= c
      BY <1>2, <1>10 DEF Below
    <3>2. QED
      BY <1>1, <1>2, <1>4, <3>1
  <2>2. QED
    BY <1>6, <1>10, <2>1 DEF Below
<1>11. QED
  BY <1>8, <1>9, <1>10 DEF G, new

-----------------------------------------------------------------------------
(* The steps. *)

\* What is placed lies where the layout says, in terms of ranges.
LEMMA Places ==
  ASSUME PlannerType
  PROVE  \A i \in Placed : /\ i \in Idx /\ allocs[i] \in Allocations
                           /\ offsets[i] \in Nat /\ allocs[i].size \in Nat \ {0}
                           /\ Place(i) \in Ranges
                           /\ Place(i).off = offsets[i] /\ Place(i).size = allocs[i].size
                           /\ End(i) \in Nat
<1> SUFFICES ASSUME NEW i \in Placed
             PROVE  /\ i \in Idx /\ allocs[i] \in Allocations
                    /\ offsets[i] \in Nat /\ allocs[i].size \in Nat \ {0}
                    /\ Place(i) \in Ranges
                    /\ Place(i).off = offsets[i] /\ Place(i).size = allocs[i].size
                    /\ End(i) \in Nat
  OBVIOUS
<1>1. i \in Idx /\ allocs[i] \in Allocations
  BY DEF PlannerType, Idx
<1>2. offsets[i] \in Nat /\ allocs[i].size \in Nat \ {0}
  BY <1>1 DEF PlannerType, Allocations
<1>3. QED
  BY <1>1, <1>2 DEF Place, Span, Ranges, End

\* The requests are what the planner takes.
LEMMA RequestTypes ==
  ASSUME PlannerType, NEW i \in Idx
  PROVE  /\ allocs[i] \in Allocations
         /\ allocs[i].size \in Nat \ {0} /\ allocs[i].align \in Nat \ {0}
         /\ allocs[i].start \in Nat /\ allocs[i].end \in Nat
         /\ allocs[i].pinned \in BOOLEAN
         /\ allocs[i].start < allocs[i].end
<1>1. allocs[i] \in Allocations
  BY DEF PlannerType, Idx
<1>2. QED
  BY <1>1 DEF Allocations

\* Nothing is placed before the first build.
LEMMA InitPlan == Init => PlanInv
<1> SUFFICES ASSUME Init PROVE PlanInv
  OBVIOUS
<1>1. Placed = {} /\ offsets \in [Placed -> Nat] /\ allocs \in Seq(Allocations)
  BY DEF Init, Placed
<1>2. PlannerType
  BY <1>1 DEF Init, PlannerType
<1>3. QED
  BY <1>1, <1>2 DEF Init, PlanInv, SpaceApart, SweepOrder, LayoutSound, AllApart, Below

\* Steps that neither place nor release: registering a request happens before
\* anything is placed, giving the plan up empties everything.
LEMMA EmptyPlan == PlannerType /\ Placed = {} /\ live = {} /\ free = {} => PlanInv
BY DEF PlanInv, SpaceApart, SweepOrder, LayoutSound, AllApart, Below

\* Registering a request.
LEMMA AddStep ==
  ASSUME PlanInv, NEW r \in Allocations, planner_add_common(r)
  PROVE  PlanInv'
<1>1. Placed = {} /\ live = {} /\ free = {} /\ phase = "adding"
  BY DEF planner_add_common, PlanInv, PlannerType
<1>2. Placed' = {} /\ live' = {} /\ free' = {} /\ phase' = "adding"
  BY <1>1 DEF planner_add_common, Placed
<1>3. allocs' \in Seq(Allocations)
  BY AppendProperties DEF planner_add_common, PlanInv, PlannerType
<1>4. PlannerType'
  BY <1>1, <1>2, <1>3 DEF planner_add_common, PlanInv, PlannerType, Placed
<1>5. (PlannerType /\ Placed = {} /\ live = {} /\ free = {} => PlanInv)'
  BY EmptyPlan, PTL
<1>6. QED
  BY <1>2, <1>4, <1>5

\* The sort puts unpinned allocations first, by their start.
LEMMA SortOrder ==
  ASSUME PlannerType, NEW i, Upcoming(i), NEW k \in Idx \ Placed
  PROVE  /\ i \in Idx /\ i \notin Placed /\ phase = "sweep"
         /\ allocs[i].pinned => allocs[k].pinned
         /\ allocs[k].pinned \/ allocs[i].start <= allocs[k].start
<1>1. i \in Idx /\ i \notin Placed /\ phase = "sweep" /\ ~Before(allocs[k], allocs[i])
  BY DEF Upcoming
<1>2. QED
  BY <1>1, RequestTypes DEF Before

\* A placement that is apart from what is live, from what is free afterwards,
\* and, when pinned, from everything, keeps the invariant.
LEMMA PlaceStep ==
  ASSUME PlanInv, NEW i, Upcoming(i), NEW off \in Nat, PlacedAt(i, off),
         live' = live \cup {i}, UNCHANGED <<allocs, arena_align, phase>>,
         cursor' \in Nat, cursor <= cursor', off + allocs[i].size <= cursor',
         off % allocs[i].align = 0,
         AllApart(free'), Below(free', cursor'),
         \A r \in free' : Apart(Span(off, allocs[i].size), r),
         \A j \in live, r \in free' : Apart(Place(j), r),
         \A j \in Placed : j \in live \/ allocs[i].pinned =>
            Apart(Place(j), Span(off, allocs[i].size))
  PROVE  PlanInv'
<1>1. i \in Idx /\ i \notin Placed /\ phase = "sweep"
  BY DEF Upcoming
<1>2. /\ Placed' = Placed \cup {i} /\ offsets'[i] = off
      /\ \A j \in Placed : offsets'[j] = offsets[j]
      /\ offsets' = [k \in Placed \cup {i} |-> IF k = i THEN off ELSE offsets[k]]
  BY <1>1 DEF PlacedAt, Placed
<1>3. PlannerType /\ SpaceApart /\ SweepOrder /\ LayoutSound /\ Idx' = Idx
  BY DEF PlanInv, Idx
<1>4. PlannerType'
  <2>1. offsets' \in [Placed' -> Nat]
    BY <1>2, <1>3 DEF PlannerType
  <2>2. QED
    BY <1>1, <1>2, <1>3, <2>1 DEF PlannerType
<1>5. /\ Place(i)' = Span(off, allocs[i].size)
      /\ \A j \in Placed : Place(j)' = Place(j)
  BY <1>1, <1>2 DEF Place
<1>6. /\ End(i)' = off + allocs[i].size
      /\ \A j \in Placed : End(j)' = End(j) /\ End(j) \in Nat /\ End(j) <= cursor
  BY <1>1, <1>2, <1>3, Places DEF End, SpaceApart
<1>7. live \subseteq Placed
  BY <1>3 DEF PlannerType
<1>8. \A r, q : Apart(r, q) => Apart(q, r)
  BY DEF Apart
<1>9. SpaceApart'
  <2>1. \A j \in Placed' : End(j)' <= cursor'
    BY <1>2, <1>3, <1>6 DEF PlannerType
  <2>2. \A j, k \in live' : j # k => Apart(Place(j)', Place(k)')
    BY <1>3, <1>5, <1>7, <1>8 DEF SpaceApart
  <2>3. \A j \in live', r \in free' : Apart(Place(j)', r)
    BY <1>5, <1>7
  <2>4. QED
    BY <2>1, <2>2, <2>3 DEF SpaceApart
<1>10. SweepOrder'
  <2>1. ASSUME NEW j \in Placed', allocs'[j].pinned
        PROVE  j \in live' /\ \A k \in Idx' \ Placed' : allocs'[k].pinned
    <3>1. CASE j = i
      BY <1>2, <1>3, <2>1, <3>1, SortOrder
    <3>2. CASE j \in Placed
      BY <1>2, <1>3, <2>1, <3>2 DEF SweepOrder
    <3>3. QED
      BY <1>2, <3>1, <3>2
  <2>2. ASSUME NEW j \in Placed' \ live', NEW k \in Idx' \ Placed'
        PROVE  allocs'[k].pinned \/ allocs'[j].end <= allocs'[k].start
    BY <1>2, <1>3 DEF SweepOrder
  <2>3. QED
    BY <2>1, <2>2 DEF SweepOrder
<1>11. LayoutSound'
  <2>1. \A j \in Placed' : offsets'[j] % allocs'[j].align = 0
    BY <1>2, <1>3 DEF LayoutSound
  <2>2. ASSUME NEW j \in Placed,
               \/ allocs[i].pinned \/ allocs[j].pinned
               \/ allocs[i].start < allocs[j].end
        PROVE  Apart(Place(j), Span(off, allocs[i].size))
    <3>1. CASE allocs[i].pinned \/ j \in live
      BY <3>1
    <3>2. CASE ~allocs[i].pinned /\ j \notin live
      <4>1. ~allocs[j].pinned /\ allocs[j].end <= allocs[i].start
        BY <1>1, <1>3, <3>2 DEF SweepOrder
      <4>2. allocs[j].end \in Nat /\ allocs[i].start \in Nat
        BY <1>1, <1>3, RequestTypes, Places
      <4>3. QED
        BY <2>2, <3>2, <4>1, <4>2
    <3>3. QED
      BY <3>1, <3>2
  <2>3. ASSUME NEW j \in Placed', NEW k \in Placed', j # k,
               \/ allocs'[j].pinned
               \/ allocs'[j].start < allocs'[k].end /\ allocs'[k].start < allocs'[j].end
        PROVE  Apart(Place(j)', Place(k)')
    <3>1. CASE j = i
      BY <1>2, <1>5, <1>8, <2>2, <2>3, <3>1
    <3>2. CASE k = i
      BY <1>2, <1>5, <1>8, <2>2, <2>3, <3>2
    <3>3. CASE j # i /\ k # i
      BY <1>2, <1>3, <1>5, <2>3, <3>3 DEF LayoutSound
    <3>4. QED
      BY <3>1, <3>2, <3>3
  <2>4. QED
    BY <2>1, <2>3 DEF LayoutSound
<1>12. QED
  BY <1>4, <1>9, <1>10, <1>11 DEF PlanInv

\* Something at or behind the cursor is apart from all that is below it.
LEMMA ExtendStep ==
  ASSUME PlanInv, NEW i, Upcoming(i), Extend(i)
  PROVE  PlanInv'
<1> DEFINE a == allocs[i]
           off == pai_mem_align_up(cursor, a.align)
<1>1. PlannerType /\ SpaceApart /\ i \in Idx
  BY DEF PlanInv, Upcoming
<1>2. cursor \in Nat /\ a.size \in Nat \ {0} /\ a.align \in Nat \ {0}
  BY <1>1, RequestTypes DEF PlannerType
<1>3. off \in Nat /\ cursor <= off /\ off % a.align = 0
  BY <1>2, AlignUp
<1>4. /\ PlacedAt(i, off) /\ cursor' = off + a.size /\ live' = live \cup {i}
      /\ free' = free /\ UNCHANGED <<allocs, arena_align, phase>>
  BY DEF Extend
<1> HIDE DEF off
<1>5. Span(off, a.size).off = off /\ Span(off, a.size).size = a.size
  BY DEF Span
<1>6. AllApart(free') /\ \A r \in free' : r.off \in Nat /\ r.size \in Nat /\ r.off + r.size <= cursor
  BY <1>1, <1>4 DEF SpaceApart, AllApart, Below, Ranges
<1>7. \A r \in free' : Apart(Span(off, a.size), r)
  BY <1>2, <1>3, <1>5, <1>6 DEF Apart
<1>8. Below(free', cursor')
  BY <1>2, <1>3, <1>4, <1>6 DEF Below
<1>9. \A j \in Placed : Apart(Place(j), Span(off, a.size))
  <2> TAKE j \in Placed
  <2>1. offsets[j] + allocs[j].size <= cursor /\ offsets[j] \in Nat /\ allocs[j].size \in Nat
        /\ Place(j).off = offsets[j] /\ Place(j).size = allocs[j].size
    BY <1>1, Places DEF SpaceApart, End
  <2>2. QED
    BY <1>2, <1>3, <1>5, <2>1 DEF Apart
<1>10. \A j \in live, r \in free' : Apart(Place(j), r)
  BY <1>1, <1>4 DEF SpaceApart
<1>11. cursor' \in Nat /\ cursor <= cursor' /\ off + a.size <= cursor'
  BY <1>2, <1>3, <1>4
<1>12. QED
  BY <1>3, <1>4, <1>6, <1>7, <1>8, <1>9, <1>10, <1>11, PlaceStep

\* Releasing an expired allocation gives its place to the free list.
LEMMA ReleaseStep ==
  ASSUME PlanInv, NEW i \in Idx, NEW j \in live, release(i, j)
  PROVE  PlanInv'
<1> DEFINE G == Inserted(free, pool_used, offsets[j], allocs[j].size).list
<1>1. PlannerType /\ SpaceApart /\ SweepOrder /\ LayoutSound /\ j \in Placed
  BY DEF PlanInv, PlannerType
<1>2. /\ Upcoming(i) /\ ~allocs[i].pinned /\ allocs[j].end <= allocs[i].start
      /\ live' = live \ {j} /\ free' = G
      /\ UNCHANGED <<allocs, arena_align, phase, offsets, cursor>>
  BY DEF release, Expired
<1>3. /\ Placed' = Placed /\ Idx' = Idx
      /\ \A k : Place(k)' = Place(k) /\ End(k)' = End(k)
  BY <1>2 DEF Placed, Idx, Place, End
<1>4. /\ Place(j) = Span(offsets[j], allocs[j].size)
      /\ offsets[j] \in Nat /\ allocs[j].size \in Nat \ {0} /\ cursor \in Nat
      /\ offsets[j] + allocs[j].size <= cursor
  BY <1>1, Places DEF Place, PlannerType, SpaceApart, End
<1>5. \A r \in free : Apart(r, Span(offsets[j], allocs[j].size))
  BY <1>1, <1>4 DEF SpaceApart, Apart
<1>6. /\ AllApart(G)
      /\ \A x \in Ranges : (\A r \in free : Apart(x, r)) /\ Apart(x, Place(j))
           => \A r \in G : Apart(x, r)
      /\ Below(G, cursor)
  <2>1. AllApart(free) /\ Below(free, cursor)
    BY <1>1 DEF SpaceApart
  <2>2. QED
    BY <1>4, <1>5, <2>1, InsertedApart
<1> HIDE DEF G
<1>7. PlannerType'
  BY <1>1, <1>2, <1>3 DEF PlannerType, Upcoming
<1>8. SpaceApart'
  <2>1. \A k \in live', r \in free' : Apart(Place(k), r)
    <3> SUFFICES ASSUME NEW k \in live' PROVE \A r \in G : Apart(Place(k), r)
      BY <1>2
    <3>1. k \in live /\ k # j /\ k \in Placed
      BY <1>1, <1>2 DEF PlannerType
    <3>2. Place(k) \in Ranges /\ Apart(Place(k), Place(j)) /\ \A r \in free : Apart(Place(k), r)
      BY <1>1, <3>1, Places DEF SpaceApart
    <3>3. QED
      BY <1>6, <3>2
  <2>2. QED
    BY <1>1, <1>2, <1>3, <1>6, <2>1 DEF SpaceApart
<1>9. SweepOrder'
  <2>1. i \in Idx \ Placed /\ ~allocs[j].pinned
    BY <1>1, <1>2 DEF Upcoming, SweepOrder
  <2>2. ASSUME NEW k \in Idx \ Placed
        PROVE  allocs[k].pinned \/ allocs[j].end <= allocs[k].start
    <3>1. allocs[k].pinned \/ allocs[i].start <= allocs[k].start
      BY <1>1, <1>2, SortOrder
    <3>2. allocs[j].end \in Nat /\ allocs[i].start \in Nat /\ allocs[k].start \in Nat
      BY <1>1, RequestTypes, Places
    <3>3. QED
      BY <1>2, <3>1, <3>2
  <2>3. QED
    BY <1>1, <1>2, <1>3, <2>1, <2>2 DEF SweepOrder
<1>10. LayoutSound'
  BY <1>1, <1>2, <1>3 DEF LayoutSound
<1>11. QED
  BY <1>7, <1>8, <1>9, <1>10 DEF PlanInv

\* The list after range b was cut for a new allocation: what is left of its
\* place and what is right of it go back.
Cut(F, b, u, off, size) ==
  LET left == off - b.off
      right == b.size - left - size
      f0 == [list |-> F \ {b}, used |-> u]
      f1 == IF left > 0 THEN Inserted(f0.list, f0.used, b.off, left) ELSE f0
  IN IF right > 0 THEN Inserted(f1.list, f1.used, off + size, right) ELSE f1

\* The new place is apart from all that is free afterwards, and what was
\* apart from the free ranges still is.
LEMMA ReuseCuts ==
  ASSUME NEW F, AllApart(F), NEW b \in F, NEW u, NEW off \in Nat, NEW size \in Nat \ {0},
         b.off <= off, off + size <= b.off + b.size
  PROVE  LET G == Cut(F, b, u, off, size).list IN
         /\ AllApart(G)
         /\ \A r \in G : Apart(Span(off, size), r)
         /\ \A x \in Ranges : (\A r \in F : Apart(x, r)) => \A r \in G : Apart(x, r)
         /\ \A c \in Nat : Below(F, c) => Below(G, c)
<1> DEFINE left == off - b.off
           right == b.size - left - size
           f0 == [list |-> F \ {b}, used |-> u]
           f1 == IF left > 0 THEN Inserted(f0.list, f0.used, b.off, left) ELSE f0
           f2 == IF right > 0 THEN Inserted(f1.list, f1.used, off + size, right) ELSE f1
           L == Span(b.off, left)
           M == Span(off, size)
           R == Span(off + size, right)
<1>1. /\ F \subseteq Ranges /\ b \in Ranges /\ b.off \in Nat /\ b.size \in Nat
      /\ \A r, q \in F : r # q => Apart(r, q)
  BY DEF AllApart, Ranges
<1>2. left \in Nat /\ right \in Nat /\ b.off + left = off /\ off + size + right = b.off + b.size
  BY <1>1
<1>3. /\ L.off = b.off /\ L.size = left /\ M.off = off /\ M.size = size
      /\ R.off = off + size /\ R.size = right
      /\ M \in Ranges /\ (left > 0 => L \in Ranges) /\ (right > 0 => R \in Ranges)
  BY <1>1, <1>2 DEF Span, Ranges
<1>4. f0.list = F \ {b}
  OBVIOUS
<1>5. AllApart(f0.list) /\ \A r \in f0.list : Apart(b, r) /\ r \in F
  BY <1>1, <1>4 DEF AllApart
<1> HIDE DEF left, right, L, M, R, f0
<1>6. ASSUME NEW x \in Ranges, Apart(x, b)
      PROVE  Apart(x, L) /\ Apart(x, M) /\ Apart(x, R)
  <2>1. x.off \in Nat /\ x.size \in Nat
    BY DEF Ranges
  <2>2. QED
    BY <1>1, <1>2, <1>3, <1>6, <2>1 DEF Apart
<1>7. Apart(M, L) /\ Apart(R, L) /\ Apart(M, R)
  BY <1>1, <1>2, <1>3 DEF Apart
<1>8. \A r \in f0.list : r \in Ranges /\ Apart(r, L) /\ Apart(r, M) /\ Apart(r, R)
  <2> TAKE r \in f0.list
  <2>1. r \in Ranges /\ Apart(r, b)
    BY <1>1, <1>5 DEF Apart
  <2>2. QED
    BY <1>6, <2>1
<1>9. \A r, q : Apart(r, q) => Apart(q, r)
  BY DEF Apart
<1>10. \A c \in Nat : Below(F, c) => /\ Below(f0.list, c) /\ b.off + left <= c
                                     /\ off + size + right <= c
  <2> TAKE c \in Nat
  <2> HAVE Below(F, c)
  <2>1. b.off + b.size <= c
    BY DEF Below
  <2>2. Below(f0.list, c)
    BY <1>4 DEF Below
  <2>3. QED
    BY <1>1, <1>2, <2>1, <2>2
<1>11. /\ AllApart(f1.list)
       /\ \A x \in Ranges : (\A r \in f0.list : Apart(x, r)) /\ Apart(x, L)
            => \A r \in f1.list : Apart(x, r)
       /\ \A c \in Nat : Below(F, c) => Below(f1.list, c)
  <2>1. CASE left > 0
    <3>1. /\ AllApart(Inserted(f0.list, f0.used, b.off, left).list)
          /\ \A x \in Ranges : (\A r \in f0.list : Apart(x, r)) /\ Apart(x, Span(b.off, left))
               => \A r \in Inserted(f0.list, f0.used, b.off, left).list : Apart(x, r)
          /\ \A c \in Nat : Below(f0.list, c) /\ b.off + left <= c
               => Below(Inserted(f0.list, f0.used, b.off, left).list, c)
      <4>1. \A r \in f0.list : Apart(r, Span(b.off, left))
        BY <1>8 DEF L
      <4>2. left \in Nat \ {0}
        BY <1>2, <2>1
      <4>3. QED
        BY <1>1, <1>5, <4>1, <4>2, InsertedApart
    <3>2. QED
      BY <1>10, <2>1, <3>1 DEF L
  <2>2. CASE ~(left > 0)
    BY <1>5, <1>10, <2>2
  <2>3. QED
    BY <2>1, <2>2
<1> HIDE DEF f1
<1>12. \A r \in f1.list : r \in Ranges /\ Apart(M, r) /\ (right > 0 => Apart(r, R))
  <2>1. \A r \in f0.list : Apart(M, r) /\ Apart(R, r)
    BY <1>8, <1>9
  <2>2. QED
    BY <1>3, <1>7, <1>9, <1>11, <2>1 DEF AllApart
<1>13. /\ AllApart(f2.list)
       /\ \A x \in Ranges : (\A r \in f1.list : Apart(x, r)) /\ Apart(x, R)
            => \A r \in f2.list : Apart(x, r)
       /\ \A c \in Nat : Below(F, c) => Below(f2.list, c)
  <2>1. CASE right > 0
    <3>1. /\ AllApart(Inserted(f1.list, f1.used, off + size, right).list)
          /\ \A x \in Ranges : (\A r \in f1.list : Apart(x, r)) /\ Apart(x, Span(off + size, right))
               => \A r \in Inserted(f1.list, f1.used, off + size, right).list : Apart(x, r)
          /\ \A c \in Nat : Below(f1.list, c) /\ off + size + right <= c
               => Below(Inserted(f1.list, f1.used, off + size, right).list, c)
      <4>1. \A r \in f1.list : Apart(r, Span(off + size, right))
        BY <1>12, <2>1 DEF R
      <4>2. right \in Nat \ {0} /\ off + size \in Nat
        BY <1>2, <2>1
      <4>3. QED
        BY <1>11, <4>1, <4>2, InsertedApart
    <3>2. QED
      BY <1>10, <1>11, <2>1, <3>1 DEF R
  <2>2. CASE ~(right > 0)
    BY <1>11, <2>2
  <2>3. QED
    BY <2>1, <2>2
<1> HIDE DEF f2
<1>14. \A r \in f2.list : Apart(M, r)
  BY <1>3, <1>7, <1>12, <1>13
<1>15. \A x \in Ranges : (\A r \in F : Apart(x, r)) => \A r \in f2.list : Apart(x, r)
  <2> TAKE x \in Ranges
  <2> HAVE \A r \in F : Apart(x, r)
  <2>1. Apart(x, L) /\ Apart(x, R) /\ \A r \in f0.list : Apart(x, r)
    BY <1>5, <1>6
  <2>2. QED
    BY <1>11, <1>13, <2>1
<1>16. QED
  BY <1>13, <1>14, <1>15 DEF f2, f1, f0, left, right, M, Cut

\* Best fit in the free list.
LEMMA ReuseStep ==
  ASSUME PlanInv, NEW i \in Idx, place_reuse(i)
  PROVE  PlanInv'
<1> DEFINE a == allocs[i]
           fitting == {r \in free : Fits(r, a)}
           best == CHOOSE r \in fitting :
                     \A q \in fitting : r.size < q.size
                       \/ (r.size = q.size /\ r.off <= q.off)
           off == pai_mem_align_up(best.off, a.align)
<1>1. /\ Upcoming(i) /\ ~a.pinned /\ fitting # {}
      /\ PlacedAt(i, off) /\ free' = Cut(free, best, pool_used, off, a.size).list /\ live' = live \cup {i}
      /\ UNCHANGED <<allocs, arena_align, phase, cursor>>
  BY DEF place_reuse, Cut
<1>2. PlannerType /\ SpaceApart /\ AllApart(free) /\ free \subseteq Ranges /\ cursor \in Nat
  BY DEF PlanInv, PlannerType, SpaceApart, AllApart
<1>3. best \in fitting
  <2>1. fitting \subseteq Ranges
    BY <1>2
  <2> HIDE DEF fitting
  <2>2. QED
    BY <1>1, <2>1, BestExists
<1>4. best \in free /\ Fits(best, a) /\ best.off \in Nat /\ best.size \in Nat
  BY <1>2, <1>3 DEF Ranges
<1> HIDE DEF best
<1>5. a.size \in Nat \ {0} /\ a.align \in Nat \ {0}
  BY <1>2, RequestTypes
<1>6. off \in Nat /\ best.off <= off /\ off % a.align = 0
  BY <1>4, <1>5, AlignUp
<1>7. off + a.size <= best.off + best.size
  BY <1>4, <1>5, <1>6 DEF Fits
<1>8. best.off + best.size <= cursor
  BY <1>2, <1>4 DEF SpaceApart, Below
<1> HIDE DEF off
<1>9. /\ AllApart(free')
      /\ \A r \in free' : Apart(Span(off, a.size), r)
      /\ \A x \in Ranges : (\A r \in free : Apart(x, r)) => \A r \in free' : Apart(x, r)
      /\ Below(free', cursor)
  <2>1. Below(free, cursor)
    BY <1>2 DEF SpaceApart
  <2>2. QED
    BY <1>1, <1>2, <1>4, <1>5, <1>6, <1>7, <2>1, ReuseCuts
<1>10. \A j \in live, r \in free' : Apart(Place(j), r)
  BY <1>2, <1>9, Places DEF SpaceApart, PlannerType
<1>11. \A j \in Placed : j \in live \/ a.pinned => Apart(Place(j), Span(off, a.size))
  <2> TAKE j \in Placed
  <2> HAVE j \in live \/ a.pinned
  <2>1. j \in live /\ Apart(Place(j), best)
    BY <1>1, <1>2, <1>4 DEF SpaceApart
  <2>2. Place(j).off \in Nat /\ Place(j).size \in Nat
    BY <1>2, Places DEF Ranges
  <2>3. Span(off, a.size).off = off /\ Span(off, a.size).size = a.size
    BY DEF Span
  <2>4. QED
    BY <1>4, <1>5, <1>6, <1>7, <2>1, <2>2, <2>3 DEF Apart
<1>12. cursor' \in Nat /\ cursor <= cursor' /\ off + a.size <= cursor' /\ Below(free', cursor')
  BY <1>1, <1>2, <1>4, <1>5, <1>6, <1>7, <1>8, <1>9
<1>13. QED
  BY <1>1, <1>6, <1>9, <1>10, <1>11, <1>12, PlaceStep

\* The sweep, step by step.
LEMMA NextPlan == PlanInv /\ [Next]_vars => PlanInv'
<1> SUFFICES ASSUME PlanInv, [Next]_vars PROVE PlanInv'
  OBVIOUS
<1>1. CASE UNCHANGED <<allocs, arena_align, offsets, live, free, cursor>>
           /\ (phase' = phase \/ (phase' \in {"sweep", "done"} /\ Placed \subseteq Idx))
  BY <1>1 DEF PlanInv, PlannerType, SpaceApart, SweepOrder, LayoutSound, Placed, Idx,
     End, Place, AllApart, Below
<1>2. CASE UNCHANGED vars
  BY <1>1, <1>2 DEF vars
<1>3. CASE \E r \in Requests : planner_add_common(r)
  BY <1>3, AddStep, PlannerAssumption
<1>4. CASE pai_mem_plan_build \/ Finish
  BY <1>1, <1>4 DEF pai_mem_plan_build, Finish, PlanInv, PlannerType
<1>5. CASE \E i \in Idx : \E j \in live : release(i, j)
  BY <1>5, ReleaseStep
<1>6. CASE \E i \in Idx : place_reuse(i)
  BY <1>6, ReuseStep
<1>7. CASE \E i \in Idx : place_extend(i) \/ place_pinned(i)
  BY <1>7, ExtendStep DEF place_extend, place_pinned
<1>8. CASE pai_mem_plan_free
  <2>1. Placed' = {} /\ live' = {} /\ free' = {}
    BY <1>8 DEF pai_mem_plan_free, Placed
  <2>2. allocs' \in Seq(Allocations) /\ offsets' \in [Placed' -> Nat]
    BY <1>8, <2>1 DEF pai_mem_plan_free
  <2>3. PlannerType'
    BY <1>8, <2>1, <2>2 DEF pai_mem_plan_free, PlanInv, PlannerType
  <2>4. (PlannerType /\ Placed = {} /\ live = {} /\ free = {} => PlanInv)'
    BY EmptyPlan, PTL
  <2>5. QED
    BY <2>1, <2>3, <2>4
<1>9. QED
  BY <1>2, <1>3, <1>4, <1>5, <1>6, <1>7, <1>8 DEF Next, Sweep

\* The region covers what was laid out.
LEMMA RegionCovers ==
  ASSUME PlannerType
  PROVE  /\ region_bytes \in Nat /\ cursor <= region_bytes
         /\ arena_align # 0 => region_bytes % arena_align = 0
<1> DEFINE w == IF arena_align = 0 THEN 1 ELSE arena_align
<1>1. w \in Nat \ {0} /\ cursor \in Nat
  BY PlannerAssumption DEF PlannerType
<1> HIDE DEF w
<1>2. pai_mem_align_up(cursor, w) \in Nat /\ cursor <= pai_mem_align_up(cursor, w)
      /\ pai_mem_align_up(cursor, w) % w = 0
  BY <1>1, AlignUp
<1>3. QED
  BY <1>2 DEF region_bytes, w

\* The layout is sound: allocations that are alive at one step share no byte,
\* a pinned one shares its space with nothing, and the finished plan has
\* everything at its alignment within the region that region_bytes gives.
THEOREM LayoutNeverOverlaps == Spec => []NoOverlap
<1>1. PlanInv => NoOverlap
  <2> SUFFICES ASSUME PlanInv PROVE NoOverlap
    OBVIOUS
  <2>1. PlannerType /\ SpaceApart /\ LayoutSound
    BY DEF PlanInv
  <2>2. ASSUME NEW i \in Placed, NEW j \in Placed, Apart(Place(i), Place(j))
        PROVE  Disjoint(i, j)
    BY <2>1, <2>2, Places DEF Disjoint, End, Apart
  <2>3. ASSUME NEW i \in Placed, NEW j \in Placed, NEW s \in Steps, Alive(i, s), Alive(j, s)
        PROVE  allocs[i].start < allocs[j].end /\ allocs[j].start < allocs[i].end
    <3>1. s \in Int
      BY DEF Steps
    <3>2. /\ allocs[i].start \in Nat /\ allocs[j].end \in Nat
          /\ allocs[j].start \in Nat /\ allocs[i].end \in Nat
      BY <2>1, RequestTypes, Places
    <3>3. QED
      BY <2>3, <3>1, <3>2 DEF Alive
  <2>4. \A i, j \in Placed :
          i # j /\ (allocs[i].pinned \/ \E s \in Steps : Alive(i, s) /\ Alive(j, s))
            => Disjoint(i, j)
    BY <2>1, <2>2, <2>3 DEF LayoutSound
  <2>6. /\ region_bytes \in Nat /\ cursor \in Nat /\ cursor <= region_bytes
        /\ arena_align # 0 => region_bytes % arena_align = 0
    BY <2>1, RegionCovers DEF PlannerType
  <2>7. \A i \in Placed : End(i) <= region_bytes /\ offsets[i] % allocs[i].align = 0
    BY <2>1, <2>6, Places DEF SpaceApart, LayoutSound
  <2>8. QED
    BY <2>4, <2>6, <2>7 DEF NoOverlap
<1>2. QED
  BY <1>1, InitPlan, NextPlan, PTL DEF Spec

-----------------------------------------------------------------------------
(* The peak.  What is live while allocation i is placed is what is alive at *)
(* its start: nothing alive was released and nothing live has ended.        *)

\* The sort goes by start; peak_live is the most that any step needs of what
\* has been placed, and it fits below the cursor.
PeakInv ==
  /\ peak_live \in Nat
  /\ \A j \in Placed, k \in Idx \ Placed :
       allocs[k].pinned \/ allocs[j].start <= allocs[k].start
  /\ \A s \in Int : Need(s) <= peak_live
  /\ peak_live = 0 \/ \E s \in Steps : Need(s) = peak_live
  /\ peak_live <= cursor

\* The allocations are finitely many and have sizes.
LEMMA FiniteAllocs ==
  ASSUME PlannerType
  PROVE  /\ IsFiniteSet(Idx) /\ \A i \in Idx : allocs[i].size \in Nat
         /\ \A S \in SUBSET Idx : BytesOf(S) \in Nat
         /\ \A S \in SUBSET Idx : \A T \in SUBSET S : BytesOf(T) <= BytesOf(S)
<1>1. Idx = 1..Len(allocs) /\ Len(allocs) \in Nat
  BY DEF PlannerType, Idx
<1>2. IsFiniteSet(Idx)
  BY <1>1, FS_Interval
<1>3. \A i \in Idx : allocs[i].size \in Nat
  BY RequestTypes
<1>4. \A S \in SUBSET Idx : BytesOf(S) \in Nat
  BY <1>2, <1>3, SumOrder DEF BytesOf
<1>5. \A S \in SUBSET Idx : \A T \in SUBSET S : BytesOf(T) <= BytesOf(S)
  BY <1>2, <1>3, SumMonotone DEF BytesOf
<1>6. QED
  BY <1>2, <1>3, <1>4, <1>5

\* What is live fits below the cursor.
LEMMA LiveFits == PlanInv => BytesOf(live) <= cursor
<1> SUFFICES ASSUME PlanInv PROVE BytesOf(live) <= cursor
  OBVIOUS
<1>1. PlannerType /\ SpaceApart /\ live \subseteq Placed /\ Placed \subseteq Idx /\ cursor \in Nat
  BY DEF PlanInv, PlannerType
<1>2. IsFiniteSet(live)
  BY <1>1, FiniteAllocs, FS_Subset
<1>3. PiecesApart(allocs, offsets, live)
  <2>1. \A i \in live : Sz(allocs, i) \in Nat \ {0} /\ offsets[i] \in Nat
    BY <1>1, Places DEF Sz
  <2>2. ASSUME NEW i \in live, NEW j \in live, i # j
        PROVE  \/ offsets[i] + Sz(allocs, i) <= offsets[j]
               \/ offsets[j] + Sz(allocs, j) <= offsets[i]
    BY <1>1, <2>2, Places DEF Sz, SpaceApart, Apart
  <2>3. QED
    BY <2>1, <2>2 DEF PiecesApart
<1>4. EndBy(allocs, offsets, live, cursor)
  BY <1>1 DEF EndBy, Sz, SpaceApart, End
<1>5. QED
  BY <1>1, <1>2, <1>3, <1>4, PackedSum DEF BytesOf

\* Before the sweep nothing is needed.
LEMMA EmptyPeak ==
  PlannerType /\ Placed = {} /\ peak_live = 0 => PeakInv
<1> SUFFICES ASSUME PlannerType, Placed = {}, peak_live = 0 PROVE PeakInv
  OBVIOUS
<1>1. \A s \in Int : Reusable(s) = {}
  BY DEF Reusable
<1>2. BytesOf({}) = 0
  <2>1. IsFiniteSet({})
    BY FS_EmptySet
  <2>2. QED
    BY <2>1, SumOrder DEF BytesOf
<1>3. \A s \in Int : Need(s) <= peak_live
  BY <1>1, <1>2 DEF Need
<1>4. cursor \in Nat
  BY DEF PlannerType
<1>5. QED
  BY <1>3, <1>4 DEF PeakInv

\* A new allocation of the sweep: the worst step is either an old one, or the
\* start of the new allocation.
LEMMA PeakPlace ==
  ASSUME PlanInv, PlanInv', PeakInv, NEW i \in Idx, Upcoming(i), ~allocs[i].pinned,
         \A j \in live : ~Expired(j, i), live' = live \cup {i},
         NEW off, PlacedAt(i, off), UNCHANGED allocs, cursor <= cursor',
         peak_live' = PeakWith(i)
  PROVE  PeakInv'
<1>1. /\ PlannerType /\ SweepOrder /\ live \subseteq Placed /\ Placed \subseteq Idx
      /\ i \notin Placed /\ cursor \in Nat /\ cursor' \in Nat /\ PlannerType'
  BY DEF PlanInv, PlannerType, Upcoming
<1>2. Placed' = Placed \cup {i} /\ Idx' = Idx /\ Steps' = Steps
  BY DEF PlacedAt, Placed, Idx, Steps
<1>3. \A j \in Idx : /\ allocs[j].start \in Nat /\ allocs[j].end \in Nat
                      /\ allocs[j].start < allocs[j].end /\ allocs[j].pinned \in BOOLEAN
  BY <1>1, RequestTypes
<1>4. \A j \in Placed : ~allocs[j].pinned
  BY <1>1 DEF SweepOrder
<1>6. PICK B \in SUBSET Idx, s0 \in Nat : B = live \cup {i} /\ s0 = allocs[i].start
  BY <1>1, <1>3
<1>5. ASSUME NEW j \in Placed
      PROVE  \E x \in Nat, y \in Nat : /\ x = allocs[j].start /\ y = allocs[j].end /\ x <= s0
                                       /\ j \in live => s0 < y
                                       /\ j \notin live => y <= s0
  <2>1. PICK x \in Nat, y \in Nat : x = allocs[j].start /\ y = allocs[j].end
    BY <1>1, <1>3
  <2>2. i \in Idx \ Placed
    BY <1>1
  <2>3. allocs[j].start <= allocs[i].start
    BY <2>2 DEF PeakInv
  <2>4. j \notin live => allocs[j].end <= allocs[i].start
    BY <1>1, <2>2 DEF SweepOrder
  <2>5. j \in live => ~(allocs[j].end <= allocs[i].start)
    BY DEF Expired
  <2>6. x <= s0 /\ (j \notin live => y <= s0) /\ (j \in live => ~(y <= s0))
    BY <1>6, <2>1, <2>3, <2>4, <2>5
  <2>7. j \in live => s0 < y
    BY <2>6
  <2>8. QED
    BY <2>1, <2>6, <2>7
<1>7. Reusable(s0)' = B
  <2>1. Reusable(s0)' = {j \in Placed \cup {i} : ~allocs[j].pinned /\ Alive(j, s0)}
    BY <1>2 DEF Reusable, Alive
  <2>2. Alive(i, s0)
    BY <1>3, <1>6 DEF Alive
  <2>3. \A j \in Placed : Alive(j, s0) <=> j \in live
    <3> TAKE j \in Placed
    <3>1. PICK x \in Nat, y \in Nat : /\ x = allocs[j].start /\ y = allocs[j].end /\ x <= s0
                                      /\ j \in live => s0 < y
                                      /\ j \notin live => y <= s0
      BY <1>5
    <3>2. x <= s0 /\ (j \in live => s0 < y) /\ (j \notin live => y <= s0)
      BY <3>1
    <3>3. j \in live <=> x <= s0 /\ s0 < y
      BY <3>2
    <3>4. QED
      BY <3>1, <3>3 DEF Alive
  <2>4. QED
    BY <1>1, <1>4, <1>6, <2>1, <2>2, <2>3
<1>8. ASSUME NEW s \in Int PROVE Reusable(s)' = Reusable(s) \/ Reusable(s)' \subseteq B
  <2>1. Reusable(s)' = Reusable(s) \cup (IF Alive(i, s) THEN {i} ELSE {})
    BY <1>1, <1>2 DEF Reusable, Alive
  <2>2. CASE ~Alive(i, s)
    BY <2>1, <2>2
  <2>3. CASE Alive(i, s)
    <3>1. ASSUME NEW j \in Reusable(s) PROVE j \in live
      <4>1. j \in Placed /\ s < allocs[j].end /\ s0 <= s
        BY <1>6, <2>3 DEF Reusable, Alive
      <4>2. PICK y \in Nat : y = allocs[j].end /\ (j \notin live => y <= s0)
        BY <1>5, <4>1
      <4>3. s < y /\ s0 <= s /\ (j \notin live => y <= s0)
        BY <4>1, <4>2
      <4>4. QED
        BY <4>3
    <3>2. QED
      BY <1>6, <2>1, <3>1
  <2>4. QED
    BY <2>2, <2>3
<1>9. \A S : BytesOf(S)' = BytesOf(S)
  BY DEF BytesOf
<1>10. PICK b \in Nat, p \in Nat, q \in Nat : b = BytesOf(B) /\ p = peak_live /\ q = peak_live'
  BY <1>1, <1>6, FiniteAllocs DEF PeakWith, PeakInv
<1>11. p <= q /\ b <= q /\ (q = p \/ q = b)
  <2>1. q = IF b > p THEN b ELSE p
    BY <1>6, <1>10 DEF PeakWith
  <2>2. QED
    BY <2>1
<1>12. ASSUME NEW s \in Int PROVE Need(s)' <= peak_live'
  <2>1. PICK n : n = Need(s)'
    OBVIOUS
  <2>2. CASE Reusable(s)' = Reusable(s)
    <3>1. n = Need(s) /\ n <= p
      BY <1>9, <1>10, <2>1, <2>2 DEF Need, PeakInv
    <3>2. n \in Nat
      BY <1>1, <3>1, FiniteAllocs DEF Need, Reusable
    <3>3. n <= q
      BY <1>11, <3>1, <3>2
    <3>4. QED
      BY <1>10, <2>1, <3>3
  <2>3. CASE Reusable(s)' \subseteq B
    <3>1. PICK R \in SUBSET B : R = Reusable(s)'
      BY <2>3
    <3>2. n = BytesOf(R)
      BY <1>9, <2>1, <3>1 DEF Need
    <3>3. n \in Nat /\ n <= b
      BY <1>1, <1>6, <1>10, <3>2, FiniteAllocs
    <3>4. n <= q
      BY <1>11, <3>3
    <3>5. QED
      BY <1>10, <2>1, <3>4
  <2>4. QED
    BY <1>8, <2>2, <2>3
<1>13. s0 \in Steps
  <2>1. s0 \in allocs[i].start..(allocs[i].end - 1)
    BY <1>3, <1>6
  <2>2. QED
    BY <2>1 DEF Steps
<1>14. Steps \subseteq Int
  BY DEF Steps
<1>15. \E s \in Steps' : Need(s)' = peak_live' \/ peak_live' = 0
  <2>1. CASE q = b
    <3>1. Need(s0)' = b
      BY <1>7, <1>9, <1>10 DEF Need
    <3>2. Need(s0)' = peak_live'
      BY <1>10, <2>1, <3>1
    <3>3. QED
      BY <1>2, <1>13, <3>2
  <2>2. CASE q = p /\ q # b
    <3>1. CASE p = 0
      BY <1>2, <1>10, <1>13, <2>2, <3>1
    <3>2. CASE p # 0
      <4>1. PICK s \in Steps : Need(s) = p
        BY <1>10, <3>2 DEF PeakInv
      <4>2. PICK n \in Nat, m \in Nat : n = Need(s) /\ m = Need(s)'
        <5>1. Reusable(s) \in SUBSET Idx /\ Reusable(s)' \in SUBSET Idx
          BY <1>1, <1>2 DEF Reusable
        <5>2. QED
          BY <1>1, <1>9, <5>1, FiniteAllocs DEF Need
      <4>3. n <= m
        <5>1. PICK R \in SUBSET Idx, T \in SUBSET Idx :
                R = Reusable(s)' /\ T = Reusable(s) /\ T \in SUBSET R
          <6>1. Reusable(s) \subseteq Reusable(s)'
            BY <1>2 DEF Reusable, Alive
          <6>2. Reusable(s)' \subseteq Idx
            BY <1>1, <1>2 DEF Reusable
          <6>3. QED
            BY <6>1, <6>2
        <5>2. BytesOf(T) <= BytesOf(R)
          BY <1>1, <5>1, FiniteAllocs
        <5>3. n = BytesOf(T) /\ m = BytesOf(R)
          BY <1>9, <4>2, <5>1 DEF Need
        <5>4. QED
          BY <5>2, <5>3
      <4>4. m <= q
        BY <1>10, <1>12, <1>14, <4>2
      <4>5. m = q
        <5>1. n = q
          BY <2>2, <4>1, <4>2
        <5>2. QED
          BY <4>3, <4>4, <5>1
      <4>6. QED
        BY <1>2, <1>10, <4>2, <4>5
    <3>3. QED
      BY <3>1, <3>2
  <2>3. QED
    BY <1>11, <2>1, <2>2
<1>16. peak_live' <= cursor'
  <2>0. (PlanInv => BytesOf(live) <= cursor)'
    BY LiveFits, PTL
  <2>1. BytesOf(live)' <= cursor'
    BY <2>0
  <2>2. BytesOf(live)' = b
    BY <1>6, <1>10 DEF BytesOf
  <2>3. PICK c \in Nat, d \in Nat : c = cursor /\ d = cursor'
    BY <1>1
  <2>4. p <= c /\ c <= d /\ b <= d
    BY <1>10, <2>1, <2>2, <2>3 DEF PeakInv
  <2>5. q <= d
    BY <1>11, <2>4
  <2>6. QED
    BY <1>10, <2>3, <2>5
<1>17. ASSUME NEW j \in Placed', NEW k \in Idx' \ Placed'
       PROVE  allocs'[k].pinned \/ allocs'[j].start <= allocs'[k].start
  <2>1. CASE j = i
    BY <1>1, <1>2, <2>1, SortOrder
  <2>2. CASE j \in Placed
    BY <1>2, <2>2 DEF PeakInv
  <2>3. QED
    BY <1>2, <2>1, <2>2
<1>18. QED
  BY <1>10, <1>12, <1>15, <1>16, <1>17 DEF PeakInv

\* A pinned allocation is not counted.
LEMMA PeakPinned ==
  ASSUME PlanInv, PeakInv, NEW i \in Idx, Upcoming(i), allocs[i].pinned,
         NEW off, PlacedAt(i, off), UNCHANGED <<allocs, peak_live>>,
         cursor' \in Nat, cursor <= cursor'
  PROVE  PeakInv'
<1>1. PlannerType /\ cursor \in Nat /\ i \notin Placed
  BY DEF PlanInv, PlannerType, Upcoming
<1>2. Placed' = Placed \cup {i} /\ Idx' = Idx /\ Steps' = Steps
  BY DEF PlacedAt, Placed, Idx, Steps
<1>3. \A s : Need(s)' = Need(s)
  <2> SUFFICES ASSUME NEW s PROVE Need(s)' = Need(s)
    OBVIOUS
  <2>1. Reusable(s)' = Reusable(s)
    BY <1>2 DEF Reusable, Alive
  <2>2. QED
    BY <2>1 DEF Need, BytesOf
<1>4. peak_live <= cursor'
  BY <1>1 DEF PeakInv
<1>5. ASSUME NEW k \in Idx' \ Placed' PROVE allocs'[k].pinned
  BY <1>1, <1>2, SortOrder
<1>6. QED
  BY <1>2, <1>3, <1>4, <1>5 DEF PeakInv

\* The peak, step by step.
LEMMA NextPeak == PlanInv /\ PlanInv' /\ PeakInv /\ [Next]_vars => PeakInv'
<1> SUFFICES ASSUME PlanInv, PlanInv', PeakInv, [Next]_vars PROVE PeakInv'
  OBVIOUS
<1>1. PlannerType /\ PlannerType' /\ cursor \in Nat
  BY DEF PlanInv, PlannerType
<1>2. CASE UNCHANGED <<allocs, offsets, cursor, peak_live>>
  BY <1>2 DEF PeakInv, Placed, Idx, Steps, Need, Reusable, Alive, BytesOf
<1>3. CASE UNCHANGED vars \/ pai_mem_plan_build \/ Finish
           \/ \E i \in Idx : \E j \in live : release(i, j)
  BY <1>2, <1>3 DEF vars, pai_mem_plan_build, Finish, release
<1>4. (PlannerType /\ Placed = {} /\ peak_live = 0 => PeakInv)'
  BY EmptyPeak, PTL
<1>5. CASE \E r \in Requests : planner_add_common(r)
  <2>1. Placed = {} /\ Placed' = {} /\ peak_live' = peak_live
    BY <1>1, <1>5 DEF planner_add_common, PlannerType, Placed
  <2>2. peak_live = 0
    <3>1. \A s : Need(s) = 0
      <4>1. \A s : Reusable(s) = {}
        BY <2>1 DEF Reusable
      <4>2. BytesOf({}) = 0
        BY FS_EmptySet, SumOrder DEF BytesOf
      <4>3. QED
        BY <4>1, <4>2 DEF Need
    <3>2. QED
      BY <3>1 DEF PeakInv
  <2>3. QED
    BY <1>1, <1>4, <2>1, <2>2
<1>6. CASE pai_mem_plan_free
  BY <1>1, <1>4, <1>6 DEF pai_mem_plan_free, Placed
<1>7. ASSUME NEW i \in Idx, place_reuse(i) PROVE PeakInv'
  <2>1. PICK off : PlacedAt(i, off)
    BY <1>7 DEF place_reuse
  <2>2. cursor <= cursor'
    <3>1. cursor' = cursor
      BY <1>7 DEF place_reuse
    <3>2. QED
      BY <1>1, <3>1
  <2>3. QED
    BY <1>7, <2>1, <2>2, PeakPlace DEF place_reuse
<1>8. ASSUME NEW i \in Idx, place_extend(i) \/ place_pinned(i) PROVE PeakInv'
  <2>1. PICK off : off = pai_mem_align_up(cursor, allocs[i].align)
    OBVIOUS
  <2>2. /\ PlacedAt(i, off) /\ cursor' = off + allocs[i].size /\ live' = live \cup {i}
        /\ UNCHANGED allocs
    BY <1>8, <2>1 DEF place_extend, place_pinned, Extend
  <2>3. cursor <= cursor' /\ cursor' \in Nat
    <3>1. PICK a \in Nat : a = allocs[i].size
      BY <1>1, RequestTypes
    <3>2. off \in Nat /\ cursor <= off
      BY <1>1, <2>1, AlignUp, RequestTypes
    <3>3. QED
      BY <1>1, <2>2, <3>1, <3>2
  <2>4. QED
    BY <1>8, <2>2, <2>3, PeakPlace, PeakPinned DEF place_extend, place_pinned
<1>9. QED
  BY <1>3, <1>5, <1>6, <1>7, <1>8 DEF Next, Sweep

\* The peak the plan reports is exact: it is what the allocations that share
\* storage need at their worst step, and the region has room for it.
THEOREM PeakIsExact == Spec => []PeakExact
<1>1. Init => PeakInv
  <2> SUFFICES ASSUME Init PROVE PeakInv
    OBVIOUS
  <2>1. PlannerType /\ Placed = {} /\ peak_live = 0
    BY InitPlan DEF Init, PlanInv, Placed
  <2>2. QED
    BY <2>1, EmptyPeak
<1>2. PlanInv /\ PeakInv => PeakExact
  <2> SUFFICES ASSUME PlanInv, PeakInv PROVE PeakExact
    OBVIOUS
  <2>1. Steps \subseteq Int
    BY DEF Steps
  <2>2. cursor \in Nat /\ region_bytes \in Nat /\ cursor <= region_bytes
    BY RegionCovers DEF PlanInv, PlannerType
  <2>3. peak_live <= region_bytes
    BY <2>2 DEF PeakInv
  <2>4. QED
    BY <2>1, <2>3 DEF PeakInv, PeakExact
<1>3. QED
  BY <1>1, <1>2, InitPlan, NextPlan, NextPeak, PTL DEF Spec

-----------------------------------------------------------------------------
(* Graphs: types, and who produces what. *)

ValueSet == [size: Nat \ {0}, f32: BOOLEAN, producer: Nat, is_output: BOOLEAN]
OpSet == [kind: STRING, ins: InputLists, out: DOMAIN Sizes]

\* The graph is well formed: a value knows the op that produces it, and no op
\* consumes what it produces.
GraphOk ==
  /\ values \in Seq(ValueSet) /\ Len(values) <= Len(Sizes)
  /\ ops \in Seq(OpSet) /\ (ops # <<>> => Len(values) = Len(Sizes))
  /\ persistent \in BOOLEAN
  /\ stage \in {"build", "seed", "sort", "plan", "refused", "planned", "ready", "running"}
  /\ stage # "build" => Len(values) = Len(Sizes)
  /\ \A v \in ValueIds : Producer(v) \in 0..Len(ops)
  /\ \A v \in ValueIds, o \in OpIds : Producer(v) = o <=> ops[o].out = v
  /\ \A o \in OpIds : \A j \in DOMAIN ops[o].ins : ops[o].ins[j] # ops[o].out

\* An op of the graph and its inputs.
LEMMA OpTypes ==
  ASSUME GraphOk
  PROVE  /\ OpIds = 1..Len(ops) /\ Len(ops) \in Nat
         /\ ValueIds = 1..Len(values) /\ Len(values) \in Nat
         /\ \A o \in OpIds : /\ ops[o].out \in ValueIds /\ ops[o].ins \in Seq(ValueIds)
                             /\ \A j \in DOMAIN ops[o].ins : ops[o].ins[j] \in ValueIds
                             /\ Producer(ops[o].out) = o
         /\ \A v \in ValueIds : Producer(v) \in OpIds \/ Producer(v) = 0
         /\ IsFiniteSet(OpIds) /\ IsFiniteSet(ValueIds)
<1>1. OpIds = 1..Len(ops) /\ Len(ops) \in Nat
  BY DEF GraphOk, OpIds
<1>2. ValueIds = 1..Len(values) /\ Len(values) \in Nat
  BY DEF GraphOk, ValueIds
<1>3. ASSUME NEW o \in OpIds
      PROVE  /\ ops[o].out \in ValueIds /\ ops[o].ins \in Seq(ValueIds)
             /\ \A j \in DOMAIN ops[o].ins : ops[o].ins[j] \in ValueIds
             /\ Producer(ops[o].out) = o
  <2>1. ops[o] \in OpSet /\ Len(values) = Len(Sizes)
    BY <1>1 DEF GraphOk, OpIds
  <2>2. DOMAIN Sizes = ValueIds
    BY <1>2, <2>1, GraphAssumption
  <2>3. ops[o].out \in ValueIds /\ ops[o].ins \in Seq(ValueIds)
    BY <2>1, <2>2, GraphAssumption DEF OpSet
  <2>4. QED
    BY <2>3 DEF GraphOk
<1>4. \A v \in ValueIds : Producer(v) \in OpIds \/ Producer(v) = 0
  BY <1>1 DEF GraphOk
<1>5. IsFiniteSet(OpIds) /\ IsFiniteSet(ValueIds)
  BY <1>1, <1>2, FS_Interval
<1>6. QED
  BY <1>1, <1>2, <1>3, <1>4, <1>5

\* The first states.
LEMMA InitGraph == GInit => GraphOk
<1> SUFFICES ASSUME GInit PROVE GraphOk
  OBVIOUS
<1>1. values = <<>> /\ ops = <<>> /\ persistent = FALSE /\ stage = "build"
  BY DEF GInit
<1>2. /\ values \in Seq(ValueSet) /\ ops \in Seq(OpSet) /\ Len(values) = 0
      /\ ValueIds = {} /\ OpIds = {} /\ Len(Sizes) \in Nat
  BY <1>1, GraphAssumption DEF ValueIds, OpIds
<1>3. Len(values) <= Len(Sizes)
  BY <1>2
<1>4. QED
  BY <1>1, <1>2, <1>3, Zenon DEF GraphOk

\* Replacing one value.
LEMMA ReplaceValue ==
  ASSUME NEW s \in Seq(ValueSet), NEW w \in DOMAIN s, NEW r \in ValueSet,
         NEW t, t = [s EXCEPT ![w] = r]
  PROVE  /\ t \in Seq(ValueSet) /\ Len(t) = Len(s) /\ DOMAIN t = DOMAIN s
         /\ t[w] = r /\ \A v \in DOMAIN s \ {w} : t[v] = s[v]
<1>1. s \in [1..Len(s) -> ValueSet] /\ Len(s) \in Nat /\ DOMAIN s = 1..Len(s)
  OBVIOUS
<1>2. t \in [1..Len(s) -> ValueSet]
  BY <1>1
<1>3. t \in Seq(ValueSet)
  BY <1>1, <1>2
<1>4. QED
  BY <1>1, <1>2, <1>3

\* Adding a value that nobody produces.
LEMMA AddValueOk == GraphOk /\ pai_graph_add_value => GraphOk'
<1> SUFFICES ASSUME GraphOk, pai_graph_add_value PROVE GraphOk'
  OBVIOUS
<1>1. PICK f32 \in Dtypes[Len(values) + 1] :
        values' = Append(values, [size |-> Sizes[Len(values) + 1], f32 |-> f32,
                                  producer |-> 0, is_output |-> FALSE])
  BY DEF pai_graph_add_value
<1>2. /\ stage = "build" /\ ops = <<>> /\ Len(values) < Len(Sizes)
      /\ UNCHANGED <<ops, stage, persistent>>
  BY DEF pai_graph_add_value
<1> DEFINE x == [size |-> Sizes[Len(values) + 1], f32 |-> f32, producer |-> 0,
                 is_output |-> FALSE]
<1>3. x \in ValueSet /\ x.producer = 0
  <2>1. Len(values) + 1 \in DOMAIN Sizes
    BY <1>2, GraphAssumption DEF GraphOk
  <2>2. QED
    BY <2>1, GraphAssumption DEF ValueSet
<1> HIDE DEF x
<1>4. /\ values' \in Seq(ValueSet) /\ Len(values') = Len(values) + 1
      /\ \A v \in 1..Len(values') : values'[v] = IF v <= Len(values) THEN values[v] ELSE x
  BY <1>1, <1>3 DEF GraphOk, x
<1>5. \A v \in ValueIds' : Producer(v)' = 0
  <2>1. \A v \in ValueIds : Producer(v) = 0
    BY <1>2 DEF GraphOk
  <2>2. ASSUME NEW v \in ValueIds' PROVE Producer(v)' = 0
    <3>1. v \in 1..Len(values') /\ ValueIds = 1..Len(values) /\ Len(values) \in Nat
      BY <1>4 DEF GraphOk, ValueIds
    <3>2. QED
      BY <1>3, <1>4, <2>1, <3>1 DEF Producer
  <2>3. QED
    BY <2>2
<1>6. OpIds' = {}
  BY <1>2 DEF OpIds
<1>7. Len(values') <= Len(Sizes)
  BY <1>2, <1>4, GraphAssumption DEF GraphOk
<1>8. QED
  BY <1>2, <1>4, <1>5, <1>6, <1>7 DEF GraphOk

\* Marking the output.
LEMMA SetOutputOk ==
  ASSUME GraphOk, NEW w \in ValueIds, pai_graph_set_output(w)
  PROVE  GraphOk'
<1>1. /\ values' = [values EXCEPT ![w].is_output = TRUE]
      /\ UNCHANGED <<ops, stage, persistent>>
  BY DEF pai_graph_set_output
<1> DEFINE r == [values[w] EXCEPT !.is_output = TRUE]
<1>a. values \in Seq(ValueSet) /\ w \in DOMAIN values /\ values[w] \in ValueSet
  BY DEF GraphOk, ValueIds
<1>b. r \in ValueSet /\ r.producer = values[w].producer
  BY <1>a DEF ValueSet
<1>c. values' = [values EXCEPT ![w] = r]
  BY <1>1
<1> HIDE DEF r
<1>2. /\ values' \in Seq(ValueSet) /\ Len(values') = Len(values) /\ ValueIds' = ValueIds
      /\ values'[w] = r /\ \A v \in ValueIds \ {w} : values'[v] = values[v]
  BY <1>a, <1>b, <1>c, ReplaceValue DEF ValueIds
<1>3. \A v \in ValueIds : Producer(v)' = Producer(v)
  BY <1>2, <1>b DEF Producer
<1>4. OpIds' = OpIds
  BY <1>1 DEF OpIds
<1>5. QED
  BY <1>1, <1>2, <1>3, <1>4 DEF GraphOk

\* Adding an op: it becomes the producer of a value that had none.
LEMMA AddOpOk ==
  ASSUME GraphOk, NEW kind \in STRING, NEW ins \in InputLists, NEW out \in ValueIds,
         Len(values) = Len(Sizes), pai_graph_add_op(kind, ins, out)
  PROVE  GraphOk'
<1> DEFINE x == [kind |-> kind, ins |-> ins, out |-> out]
           n == Len(ops) + 1
<1>1. /\ Producer(out) = 0 /\ out \notin ToSet(ins) /\ ops' = Append(ops, x)
      /\ values' = [values EXCEPT ![out].producer = n]
      /\ UNCHANGED <<stage, persistent>>
  BY DEF pai_graph_add_op, Producer
<1>2. Len(ops) \in Nat /\ n \in Nat /\ ValueIds = DOMAIN Sizes
  BY GraphAssumption DEF GraphOk, ValueIds
<1>3. x \in OpSet /\ x.ins = ins /\ x.out = out
  BY <1>2 DEF OpSet
<1>4. /\ values' \in Seq(ValueSet) /\ Len(values') = Len(values) /\ ValueIds' = ValueIds
      /\ Producer(out)' = n
      /\ \A v \in ValueIds \ {out} : Producer(v)' = Producer(v)
  <2> DEFINE r == [values[out] EXCEPT !.producer = n]
  <2>1. values \in Seq(ValueSet) /\ out \in DOMAIN values /\ values[out] \in ValueSet
    BY DEF GraphOk, ValueIds
  <2>2. r \in ValueSet /\ r.producer = n
    BY <1>2, <2>1 DEF ValueSet
  <2>3. values' = [values EXCEPT ![out] = r]
    BY <1>1
  <2> HIDE DEF r
  <2>4. /\ values' \in Seq(ValueSet) /\ Len(values') = Len(values) /\ ValueIds' = ValueIds
        /\ values'[out] = r /\ \A v \in ValueIds \ {out} : values'[v] = values[v]
    BY <2>1, <2>2, <2>3, ReplaceValue DEF ValueIds
  <2>5. QED
    BY <2>2, <2>4 DEF Producer
<1> HIDE DEF x
<1>5. /\ ops' \in Seq(OpSet) /\ Len(ops') = n /\ OpIds' = OpIds \cup {n} /\ n \notin OpIds
      /\ ops'[n] = x /\ \A o \in OpIds : ops'[o] = ops[o]
  <2>1. /\ Append(ops, x) \in Seq(OpSet) /\ Len(Append(ops, x)) = n
        /\ Append(ops, x)[n] = x
        /\ \A i \in 1..Len(ops) : Append(ops, x)[i] = ops[i]
    BY <1>3, AppendProperties DEF GraphOk
  <2>2. OpIds' = 1..n /\ OpIds = 1..Len(ops)
    BY <1>1, <2>1 DEF OpIds, GraphOk
  <2>3. QED
    BY <1>1, <1>2, <2>1, <2>2
<1> HIDE DEF n
<1>6. \A v \in ValueIds' : Producer(v)' \in 0..Len(ops')
  <2>1. \A v \in ValueIds : Producer(v) \in 0..n
    BY <1>2 DEF GraphOk, n
  <2>2. QED
    BY <1>2, <1>4, <1>5, <2>1
<1>7. ASSUME NEW v \in ValueIds', NEW o \in OpIds' PROVE Producer(v)' = o <=> ops'[o].out = v
  <2>1. v \in ValueIds
    BY <1>4
  <2>2. CASE o = n
    <3>1. Producer(v) # n
      BY <1>2, <2>1 DEF GraphOk, n
    <3>2. QED
      BY <1>3, <1>4, <1>5, <2>1, <2>2, <3>1
  <2>3. CASE o \in OpIds
    <3>1. o # 0
      BY <2>3 DEF GraphOk, OpIds
    <3>2. ops[o].out # out
      BY <1>1, <2>3, <3>1 DEF GraphOk
    <3>3. CASE v = out
      BY <1>4, <1>5, <2>3, <3>2, <3>3
    <3>4. CASE v # out
      BY <1>4, <1>5, <2>1, <2>3, <3>4 DEF GraphOk
    <3>5. QED
      BY <3>3, <3>4
  <2>4. QED
    BY <1>5, <2>2, <2>3
<1>8. ASSUME NEW o \in OpIds', NEW j \in DOMAIN ops'[o].ins PROVE ops'[o].ins[j] # ops'[o].out
  <2>1. CASE o = n
    BY <1>1, <1>3, <1>5, <2>1 DEF ToSet
  <2>2. CASE o \in OpIds
    BY <1>5, <2>2 DEF GraphOk
  <2>3. QED
    BY <1>5, <2>1, <2>2
<1>9. QED
  BY <1>1, <1>4, <1>5, <1>6, <1>7, <1>8 DEF GraphOk

\* Only the construction changes the graph.
LEMMA GraphFixed ==
  ASSUME GraphOk, [GNext]_<<planner, gvars>>
  PROVE  \/ stage = "build" /\ stage' = "build" /\ UNCHANGED sort
         \/ UNCHANGED <<values, ops>>
BY DEF GNext, planner, gvars, pai_graph_add_value, pai_graph_set_output, pai_graph_add_op,
   SortGraph, SortSeed, SortScan, SortEnds, AddToPlanner, PlannerRuns, pai_graph_memory_plan,
   sched_build_impl, StartRun, ExecuteStep, ExecuteEnds, sort

\* The graph stays well formed.
LEMMA NextGraph == GraphOk /\ [GNext]_<<planner, gvars>> => GraphOk'
<1> SUFFICES ASSUME GraphOk, [GNext]_<<planner, gvars>> PROVE GraphOk'
  OBVIOUS
<1>1. CASE /\ UNCHANGED <<values, ops>> /\ persistent' \in BOOLEAN
           /\ stage' \in {"build", "seed", "sort", "plan", "refused", "planned", "ready", "running"}
           /\ stage' # "build" => Len(values) = Len(Sizes)
  BY <1>1 DEF GraphOk, ValueIds, OpIds, Producer
<1>2. CASE UNCHANGED <<planner, gvars>>
  BY <1>1, <1>2 DEF gvars, GraphOk
<1>3. CASE \E v \in ValueIds : pai_graph_set_output(v)
  BY <1>3, SetOutputOk
<1>4. CASE /\ Len(ops) < Len(Kinds) /\ Len(values) = Len(Sizes)
           /\ \E kind \in Kinds[Len(ops) + 1], ins \in InputLists, out \in ValueIds :
                pai_graph_add_op(kind, ins, out)
  <2>1. Len(ops) + 1 \in DOMAIN Kinds
    BY <1>4, GraphAssumption DEF GraphOk
  <2>2. Kinds[Len(ops) + 1] \subseteq STRING
    BY <2>1, GraphAssumption
  <2>3. QED
    BY <1>4, <2>2, AddOpOk
<1>5. CASE SortGraph \/ SortSeed \/ SortScan \/ \E p \in BOOLEAN : SortEnds(p)
  BY <1>1, <1>5 DEF SortGraph, SortSeed, SortScan, SortEnds, GraphOk
<1>6. CASE AddToPlanner
  BY <1>1, <1>6 DEF AddToPlanner, GraphOk
<1>7. CASE PlannerRuns \/ pai_graph_memory_plan \/ sched_build_impl
  BY <1>1, <1>7 DEF PlannerRuns, pai_graph_memory_plan, sched_build_impl, GraphOk, gvars
<1>8. CASE (\E gate \in BOOLEAN : StartRun(gate)) \/ ExecuteStep \/ ExecuteEnds
  BY <1>1, <1>8 DEF StartRun, ExecuteStep, ExecuteEnds, GraphOk
<1>9. QED
  BY <1>2, <1>3, <1>4, <1>5, <1>6, <1>7, <1>8, AddValueOk DEF GNext

-----------------------------------------------------------------------------
(* The sort. *)

\* The ops whose output op c has been told of, and the inputs it waits for.
Told(c) ==
  {queue[i] : i \in 1..(head - 1)} \cup (IF head \in DOMAIN queue /\ c < scan
                                      THEN {queue[head]} ELSE {})
AwaitedFrom(c, T) == {j \in DOMAIN ops[c].ins : Producer(ops[c].ins[j]) \notin {0} \cup T}
Awaited(c) == AwaitedFrom(c, Told(c))

\* No op is queued twice.
Once(q) == \A i, j \in DOMAIN q : q[i] = q[j] => i = j

\* Every op comes after the ops it consumes from.
Ordered(q) ==
  \A i \in DOMAIN q : \A j \in DOMAIN ops[q[i]].ins :
    LET p == Producer(ops[q[i]].ins[j]) IN p = 0 \/ \E k \in 1..(i - 1) : q[k] = p

\* indegree counts what an op still waits for, the queue holds each op that
\* waits for nothing once, after the ops it consumes from.
SortInv ==
  stage \in {"seed", "sort"} =>
    /\ indegree = [c \in OpIds |-> Cardinality(Awaited(c))]
    /\ queue \in Seq(OpIds)
    /\ scan \in 1..(Len(ops) + 1)
    /\ Once(queue)
    /\ stage = "seed" => /\ head = 0
                         /\ \A c \in OpIds : c \in ToSet(queue) <=> indegree[c] = 0 /\ c < scan
    /\ stage = "sort" => /\ head \in 1..(Len(queue) + 1)
                         /\ \A c \in OpIds : c \in ToSet(queue) <=> indegree[c] = 0
    /\ Ordered(queue)

\* Inputs are counted by finite sets.
LEMMA AwaitedFinite ==
  ASSUME GraphOk, NEW c \in OpIds, NEW T
  PROVE  /\ IsFiniteSet(DOMAIN ops[c].ins) /\ IsFiniteSet(AwaitedFrom(c, T))
         /\ Cardinality(AwaitedFrom(c, T)) \in Nat
         /\ Cardinality(AwaitedFrom(c, T)) = 0 <=> AwaitedFrom(c, T) = {}
<1>1. PICK n \in Nat : DOMAIN ops[c].ins = 1..n
  BY OpTypes
<1>2. IsFiniteSet(DOMAIN ops[c].ins)
  BY <1>1, FS_Interval
<1>3. AwaitedFrom(c, T) \in SUBSET DOMAIN ops[c].ins
  BY DEF AwaitedFrom
<1>4. IsFiniteSet(AwaitedFrom(c, T))
  BY <1>2, <1>3, FS_Subset
<1>5. QED
  BY <1>2, <1>4, FS_CardinalityType, FS_EmptySet

\* Counting down the uses of o's output is what op c waits for less once it
\* has been told of o.
LEMMA CountDown ==
  ASSUME GraphOk, NEW c \in OpIds, NEW o \in OpIds, NEW T, o \notin T
  PROVE  /\ Consumes(c, o) \in Nat
         /\ Consumes(c, o) <= Cardinality(AwaitedFrom(c, T))
         /\ Cardinality(AwaitedFrom(c, T \cup {o}))
              = Cardinality(AwaitedFrom(c, T)) - Consumes(c, o)
<1> DEFINE A == AwaitedFrom(c, T)
           U == {j \in DOMAIN ops[c].ins : ops[c].ins[j] = ops[o].out}
<1>1. \A j \in DOMAIN ops[c].ins : ops[c].ins[j] = ops[o].out <=> Producer(ops[c].ins[j]) = o
  BY OpTypes DEF GraphOk
<1>2. o # 0
  BY OpTypes
<1>3. U \subseteq A /\ A \cap U = U /\ AwaitedFrom(c, T \cup {o}) = A \ U
  BY <1>1, <1>2 DEF AwaitedFrom
<1>4. IsFiniteSet(A) /\ Cardinality(A) \in Nat
  BY AwaitedFinite
<1>5. /\ IsFiniteSet(U) /\ Cardinality(U) \in Nat /\ Cardinality(U) <= Cardinality(A)
      /\ Cardinality(A \ U) = Cardinality(A) - Cardinality(U)
  <2> HIDE DEF A, U
  <2>1. Cardinality(A \ U) = Cardinality(A) - Cardinality(U)
    BY <1>3, <1>4, FS_Difference
  <2>2. IsFiniteSet(U) /\ Cardinality(U) <= Cardinality(A)
    BY <1>3, <1>4, FS_Subset
  <2>3. QED
    BY <2>1, <2>2, FS_CardinalityType
<1>6. Consumes(c, o) = Cardinality(U)
  <2>1. CASE c = o
    <3>1. U = {}
      BY <2>1 DEF GraphOk
    <3>2. QED
      BY <2>1, <3>1, FS_EmptySet DEF Consumes
  <2>2. CASE c # o
    BY <2>2 DEF Consumes, Uses
  <2>3. QED
    BY <2>1, <2>2
<1>7. QED
  BY <1>3, <1>5, <1>6

\* A step of the sort leaves the graph alone.
LEMMA SameGraph ==
  ASSUME UNCHANGED <<values, ops>>
  PROVE  /\ OpIds' = OpIds /\ ValueIds' = ValueIds
         /\ \A v : Producer(v)' = Producer(v)
         /\ \A c, T : AwaitedFrom(c, T)' = AwaitedFrom(c, T)
         /\ Orders' = Orders /\ \A q : Ordered(q)' = Ordered(q)
BY DEF OpIds, ValueIds, Producer, AwaitedFrom, Orders, Ordered

\* The sort begins with every op waiting for all that is produced.
LEMMA SortGraphStep == GraphOk /\ SortGraph => SortInv'
<1> SUFFICES ASSUME GraphOk, SortGraph PROVE SortInv'
  OBVIOUS
<1>1. /\ indegree' = [o \in OpIds |-> Cardinality({j \in DOMAIN ops[o].ins :
                                                   Producer(ops[o].ins[j]) \notin {0, o}})]
      /\ queue' = <<>> /\ head' = 0 /\ scan' = 1 /\ stage' = "seed"
      /\ UNCHANGED <<values, ops>>
  BY DEF SortGraph
<1>2. \A c : Told(c)' = {}
  BY <1>1 DEF Told
<1>3. \A c \in OpIds : Awaited(c)' = AwaitedFrom(c, {})
  BY <1>1, <1>2 DEF Awaited, AwaitedFrom, Producer
<1>4. ASSUME NEW c \in OpIds
      PROVE  AwaitedFrom(c, {}) = {j \in DOMAIN ops[c].ins : Producer(ops[c].ins[j]) \notin {0, c}}
  <2>1. \A j \in DOMAIN ops[c].ins : Producer(ops[c].ins[j]) # c
    BY OpTypes DEF GraphOk
  <2>2. QED
    BY <2>1 DEF AwaitedFrom
<1>5. OpIds' = OpIds /\ Len(ops') \in Nat
  BY <1>1, OpTypes DEF OpIds
<1>6. indegree' = [c \in OpIds |-> Cardinality(Awaited(c)')]
  BY <1>1, <1>3, <1>4
<1>7. queue' \in Seq(OpIds) /\ DOMAIN queue' = {} /\ ToSet(queue') = {}
  BY <1>1 DEF ToSet
<1>8. \A c \in OpIds : ~(c < 1)
  BY OpTypes
<1>9. scan' \in 1..(Len(ops') + 1)
  BY <1>1, <1>5
<1>10. QED
  BY <1>1, <1>5, <1>6, <1>7, <1>8, <1>9 DEF SortInv, Ordered, Once

\* Appending to the queue.
LEMMA Enqueue ==
  ASSUME NEW q \in Seq(OpIds), NEW c \in OpIds, c \notin ToSet(q),
         Once(q),
         NEW r, r = Append(q, c)
  PROVE  /\ r \in Seq(OpIds) /\ Len(r) = Len(q) + 1 /\ Len(q) \in Nat
         /\ DOMAIN q = 1..Len(q) /\ DOMAIN r = 1..(Len(q) + 1)
         /\ r[Len(q) + 1] = c /\ \A i \in DOMAIN q : r[i] = q[i]
         /\ ToSet(r) = ToSet(q) \cup {c}
         /\ Once(r)
<1>1. /\ r \in Seq(OpIds) /\ Len(r) = Len(q) + 1 /\ Len(q) \in Nat
      /\ DOMAIN q = 1..Len(q) /\ DOMAIN r = 1..(Len(q) + 1)
      /\ r[Len(q) + 1] = c /\ \A i \in DOMAIN q : r[i] = q[i]
  BY AppendProperties
<1>2. \A i \in DOMAIN r : i \in DOMAIN q \/ i = Len(q) + 1
  BY <1>1
<1>3. \A i \in DOMAIN q : q[i] \in ToSet(q)
  BY DEF ToSet
<1>4. \A i \in DOMAIN q : i \in DOMAIN r
  BY <1>1
<1>5. ToSet(r) = ToSet(q) \cup {c}
  BY <1>1, <1>2, <1>4 DEF ToSet
<1>6. ASSUME NEW i \in DOMAIN r, NEW j \in DOMAIN r, r[i] = r[j] PROVE i = j
  BY <1>1, <1>2, <1>3, <1>6 DEF Once
<1>7. QED
  BY <1>1, <1>5, <1>6 DEF Once

\* An op that waits for nothing, told only of queued ops, may be appended.
LEMMA EnqueueOrdered ==
  ASSUME NEW q \in Seq(OpIds), NEW c \in OpIds, c \notin ToSet(q),
         Once(q),
         Ordered(q), NEW T, T \subseteq ToSet(q), AwaitedFrom(c, T) = {}
  PROVE  Ordered(Append(q, c))
<1>1. PICK r : r = Append(q, c)
  OBVIOUS
<1>2. /\ Len(q) \in Nat /\ DOMAIN q = 1..Len(q) /\ DOMAIN r = 1..(Len(q) + 1)
      /\ r[Len(q) + 1] = c /\ \A i \in DOMAIN q : r[i] = q[i]
  BY <1>1, Enqueue
<1>3. ASSUME NEW i \in DOMAIN r, NEW j \in DOMAIN ops[r[i]].ins,
             NEW p, p = Producer(ops[r[i]].ins[j]), p # 0
      PROVE  \E k \in 1..(i - 1) : r[k] = p
  <2>1. CASE i \in DOMAIN q
    <3>1. r[i] = q[i]
      BY <1>2, <2>1
    <3>2. PICK k \in 1..(i - 1) : q[k] = p
      BY <1>3, <2>1, <3>1 DEF Ordered
    <3>3. k \in DOMAIN q
      BY <1>2, <2>1
    <3>4. QED
      BY <1>2, <3>2, <3>3
  <2>2. CASE i = Len(q) + 1
    <3>1. p \in ToSet(q)
      BY <1>2, <1>3, <2>2 DEF AwaitedFrom
    <3>2. PICK k \in DOMAIN q : q[k] = p
      BY <3>1 DEF ToSet
    <3>3. k \in 1..(i - 1)
      BY <1>2, <2>2
    <3>4. QED
      BY <1>2, <3>2, <3>3
  <2>3. QED
    BY <1>2, <2>1, <2>2
<1>4. Ordered(r)
  <2> SUFFICES ASSUME NEW i \in DOMAIN r, NEW j \in DOMAIN ops[r[i]].ins,
                      Producer(ops[r[i]].ins[j]) # 0
               PROVE  \E k \in 1..(i - 1) : r[k] = Producer(ops[r[i]].ins[j])
    BY DEF Ordered
  <2>1. QED
    BY <1>3
<1>5. QED
  BY <1>1, <1>4

\* Seeding the queue.
LEMMA SortSeedStep == GraphOk /\ SortInv /\ SortSeed => SortInv'
<1> SUFFICES ASSUME GraphOk, SortInv, SortSeed PROVE SortInv'
  OBVIOUS
<1>1. /\ stage = "seed" /\ head = 0 /\ queue \in Seq(OpIds) /\ scan \in 1..(Len(ops) + 1)
      /\ indegree = [c \in OpIds |-> Cardinality(Awaited(c))]
      /\ Once(queue)
      /\ \A c \in OpIds : c \in ToSet(queue) <=> indegree[c] = 0 /\ c < scan
      /\ Ordered(queue) /\ UNCHANGED <<values, ops, indegree>>
  BY DEF SortSeed, SortInv
<1>2. /\ OpIds' = OpIds /\ \A c, T : AwaitedFrom(c, T)' = AwaitedFrom(c, T)
      /\ \A q : Ordered(q)' = Ordered(q)
  BY <1>1, SameGraph
<1>3. OpIds = 1..Len(ops) /\ Len(ops) \in Nat /\ Len(ops') = Len(ops)
  BY <1>1, OpTypes
<1>4. \A q \in Seq(OpIds) : 0 \notin DOMAIN q
  OBVIOUS
<1>5. \A c : Told(c) = {}
  BY <1>1, <1>4 DEF Told
<1>6. CASE scan <= Len(ops)
  <2>1. /\ queue' = IF indegree[scan] = 0 THEN Append(queue, scan) ELSE queue
        /\ scan' = scan + 1 /\ UNCHANGED <<head, stage>>
    BY <1>6 DEF SortSeed
  <2>2. scan \in OpIds /\ scan \notin ToSet(queue)
    BY <1>1, <1>3, <1>6
  <2>3. /\ queue' \in Seq(OpIds) /\ Once(queue')
        /\ ToSet(queue') = IF indegree[scan] = 0 THEN ToSet(queue) \cup {scan} ELSE ToSet(queue)
    <3>1. CASE indegree[scan] = 0
      <4>1. queue' = Append(queue, scan)
        BY <2>1, <3>1
      <4>2. /\ queue \in Seq(OpIds) /\ scan \in OpIds /\ scan \notin ToSet(queue)
            /\ Once(queue)
        BY <1>1, <2>2
      <4>3. /\ queue' \in Seq(OpIds) /\ ToSet(queue') = ToSet(queue) \cup {scan}
            /\ Once(queue')
        <5>1. PICK r : r = queue'
          OBVIOUS
        <5>2. r = Append(queue, scan)
          BY <4>1, <5>1
        <5>3. r \in Seq(OpIds) /\ ToSet(r) = ToSet(queue) \cup {scan}
              /\ Once(r)
          BY <4>2, <5>2, Enqueue
        <5>4. QED
          BY <5>1, <5>3
      <4>4. QED
        BY <3>1, <4>3
    <3>2. CASE indegree[scan] # 0
      BY <1>1, <2>1, <3>2
    <3>3. QED
      BY <3>1, <3>2
  <2>4. \A c : Told(c)' = {}
    BY <1>1, <1>4, <2>1, <2>3 DEF Told
  <2>5. indegree' = [c \in OpIds |-> Cardinality(Awaited(c)')]
    BY <1>1, <1>2, <1>5, <2>4 DEF Awaited
  <2>6. \A c \in OpIds : c \in ToSet(queue') <=> indegree'[c] = 0 /\ c < scan'
    <3>1. \A c \in OpIds : c < scan' <=> c < scan \/ c = scan
      BY <1>1, <1>3, <2>1
    <3>2. QED
      BY <1>1, <2>2, <2>3, <3>1
  <2>7. Ordered(queue')
    <3>1. CASE indegree[scan] = 0
      <4>1. AwaitedFrom(scan, {}) = {}
        BY <1>1, <1>5, <2>2, <3>1, AwaitedFinite DEF Awaited
      <4>2. QED
        BY <1>1, <2>1, <2>2, <3>1, <4>1, EnqueueOrdered
    <3>2. CASE indegree[scan] # 0
      BY <1>1, <2>1, <3>2
    <3>3. QED
      BY <3>1, <3>2
  <2>8. Ordered(queue)'
    BY <1>1, <2>7 DEF Ordered, Producer
  <2>9. scan' \in 1..(Len(ops') + 1)
    BY <1>1, <1>3, <1>6, <2>1
  <2>10. QED
    BY <1>1, <1>2, <2>1, <2>3, <2>5, <2>6, <2>8, <2>9 DEF SortInv
<1>7. CASE ~(scan <= Len(ops))
  <2>1. head' = 1 /\ scan' = 1 /\ stage' = "sort" /\ UNCHANGED queue
    BY <1>7 DEF SortSeed
  <2>2. \A c \in OpIds : ~(c < 1) /\ c < scan
    BY <1>1, <1>3, <1>7
  <2>3. \A c \in OpIds : Told(c)' = {}
    BY <2>1, <2>2 DEF Told
  <2>4. indegree' = [c \in OpIds |-> Cardinality(Awaited(c)')]
    BY <1>1, <1>2, <1>5, <2>3 DEF Awaited
  <2>5. scan' \in 1..(Len(ops') + 1) /\ head' \in 1..(Len(queue') + 1)
    BY <1>1, <1>3, <2>1
  <2>6. Ordered(queue)'
    BY <1>1, <2>1 DEF Ordered, Producer
  <2>7. QED
    BY <1>1, <1>2, <2>1, <2>2, <2>4, <2>5, <2>6 DEF SortInv
<1>8. QED
  BY <1>6, <1>7

\* One consumer of the op at the head is told of it.
LEMMA SortScanStep == GraphOk /\ SortInv /\ SortScan => SortInv'
<1> SUFFICES ASSUME GraphOk, SortInv, SortScan PROVE SortInv'
  OBVIOUS
<1>1. /\ stage = "sort" /\ head \in 1..(Len(queue) + 1) /\ queue \in Seq(OpIds)
      /\ head <= Len(queue) /\ scan \in 1..(Len(ops) + 1)
      /\ indegree = [c \in OpIds |-> Cardinality(Awaited(c))]
      /\ Once(queue)
      /\ \A c \in OpIds : c \in ToSet(queue) <=> indegree[c] = 0
      /\ Ordered(queue) /\ UNCHANGED <<values, ops, stage>>
  BY DEF SortScan, SortInv
<1>2. /\ OpIds' = OpIds /\ \A c, T : AwaitedFrom(c, T)' = AwaitedFrom(c, T)
      /\ \A q : Ordered(q)' = Ordered(q)
  BY <1>1, SameGraph
<1>3. OpIds = 1..Len(ops) /\ Len(ops) \in Nat /\ Len(ops') = Len(ops)
  BY <1>1, OpTypes
<1>4. head \in DOMAIN queue /\ DOMAIN queue = 1..Len(queue) /\ Len(queue) \in Nat /\ head \in Nat
  BY <1>1
<1> DEFINE o == queue[head]
           Before0 == {queue[i] : i \in 1..(head - 1)}
<1>5. o \in OpIds /\ o \notin Before0 /\ Before0 \cup {o} \subseteq ToSet(queue)
  BY <1>1, <1>4 DEF ToSet, Once
<1>6. \A c : Told(c) = IF c < scan THEN Before0 \cup {o} ELSE Before0
  BY <1>4 DEF Told
<1>7. CASE ~(scan <= Len(ops))
  <2>1. head' = head + 1 /\ scan' = 1 /\ UNCHANGED <<indegree, queue>>
    BY <1>7 DEF SortScan
  <2>2. \A c \in OpIds : ~(c < 1) /\ c < scan
    BY <1>1, <1>3, <1>7
  <2>3. \A c \in OpIds : Told(c)' = Told(c)
    <3>1. {queue[i] : i \in 1..head} = Before0 \cup {o}
      <4>1. \A i \in 1..head : i \in 1..(head - 1) \/ i = head
        BY <1>4
      <4>2. \A i \in 1..(head - 1) : i \in 1..head
        BY <1>4
      <4>3. head \in 1..head
        BY <1>4
      <4>4. QED
        BY <4>1, <4>2, <4>3
    <3>2. (head + 1) - 1 = head
      BY <1>4
    <3>3. \A c \in OpIds : Told(c)' = {queue[i] : i \in 1..head}
      BY <2>1, <2>2, <3>2 DEF Told
    <3>4. QED
      BY <1>6, <2>2, <3>1, <3>3
  <2>4. indegree' = [c \in OpIds |-> Cardinality(Awaited(c)')]
    BY <1>1, <1>2, <2>1, <2>3 DEF Awaited
  <2>5. scan' \in 1..(Len(ops') + 1) /\ head' \in 1..(Len(queue') + 1)
    BY <1>1, <1>3, <1>4, <2>1
  <2>6. Ordered(queue)'
    BY <1>1, <2>1 DEF Ordered, Producer
  <2>7. QED
    BY <1>1, <1>2, <2>1, <2>4, <2>5, <2>6 DEF SortInv
<1>8. CASE scan <= Len(ops)
  <2>1. /\ indegree' = [indegree EXCEPT ![scan] = @ - Consumes(scan, o)]
        /\ queue' = IF QueuedBy(scan, o) THEN Append(queue, scan) ELSE queue
        /\ scan' = scan + 1 /\ UNCHANGED head
    BY <1>8 DEF SortScan
  <2>2. scan \in OpIds /\ ~(scan < scan)
    BY <1>1, <1>3, <1>8
  <2>3. PICK n \in Nat, k \in Nat : /\ n = indegree[scan] /\ k = Consumes(scan, o) /\ k <= n
                                    /\ n = Cardinality(AwaitedFrom(scan, Before0))
                                    /\ n - k = Cardinality(AwaitedFrom(scan, Before0 \cup {o}))
    <3> HIDE DEF o, Before0
    <3>1. indegree[scan] = Cardinality(AwaitedFrom(scan, Before0))
      BY <1>1, <1>6, <2>2 DEF Awaited
    <3>2. /\ Consumes(scan, o) \in Nat
          /\ Consumes(scan, o) <= Cardinality(AwaitedFrom(scan, Before0))
          /\ Cardinality(AwaitedFrom(scan, Before0 \cup {o}))
               = Cardinality(AwaitedFrom(scan, Before0)) - Consumes(scan, o)
      BY <1>5, <2>2, CountDown
    <3>3. Cardinality(AwaitedFrom(scan, Before0)) \in Nat
      BY <2>2, AwaitedFinite
    <3>4. QED
      BY <3>1, <3>2, <3>3
  <2>4. QueuedBy(scan, o) <=> n > 0 /\ n - k = 0
    <3>1. QueuedBy(scan, o) <=> n \in 1..k
      BY <2>3 DEF QueuedBy
    <3>2. n \in 1..k <=> n > 0 /\ n - k = 0
      <4>1. k <= n
        BY <2>3
      <4>2. QED
        BY <4>1
    <3>3. QED
      BY <3>1, <3>2
  <2>5. /\ indegree'[scan] = n - k
        /\ \A c \in OpIds \ {scan} : indegree'[c] = indegree[c]
        /\ DOMAIN indegree' = OpIds /\ DOMAIN indegree = OpIds
    BY <1>1, <2>1, <2>2, <2>3
  <2>6. QueuedBy(scan, o) => scan \notin ToSet(queue)
    <3>1. QueuedBy(scan, o) => n # 0
      BY <2>4
    <3>2. scan \in ToSet(queue) => indegree[scan] = 0
      BY <1>1, <2>2
    <3>3. QED
      BY <2>3, <3>1, <3>2
  <2>7. /\ queue' \in Seq(OpIds) /\ Once(queue')
        /\ ToSet(queue') = IF QueuedBy(scan, o) THEN ToSet(queue) \cup {scan} ELSE ToSet(queue)
        /\ \A i \in DOMAIN queue : i \in DOMAIN queue' /\ queue'[i] = queue[i]
        /\ Len(queue') \in Nat /\ Len(queue) <= Len(queue')
    <3> HIDE DEF o
    <3>1. CASE QueuedBy(scan, o)
      <4>1. /\ queue' \in Seq(OpIds) /\ Len(queue') = Len(queue) + 1
            /\ DOMAIN queue' = 1..(Len(queue) + 1) /\ \A i \in DOMAIN queue : queue'[i] = queue[i]
            /\ ToSet(queue') = ToSet(queue) \cup {scan}
            /\ Once(queue')
        <5>1. queue' = Append(queue, scan)
          BY <2>1, <3>1
        <5>2. /\ queue \in Seq(OpIds) /\ scan \in OpIds /\ scan \notin ToSet(queue)
              /\ Once(queue)
          BY <1>1, <2>2, <2>6, <3>1
        <5>3. PICK r : r = queue'
          OBVIOUS
        <5>4. r = Append(queue, scan)
          BY <5>1, <5>3
        <5>5. r \in Seq(OpIds) /\ ToSet(r) = ToSet(queue) \cup {scan} /\ Once(r)
          BY <5>2, <5>4, Enqueue
        <5>6. /\ Len(r) = Len(queue) + 1 /\ DOMAIN r = 1..(Len(queue) + 1)
              /\ \A i \in DOMAIN queue : r[i] = queue[i]
          BY <5>2, <5>4, AppendProperties
        <5>7. QED
          BY <5>3, <5>5, <5>6
      <4>2. QED
        BY <1>4, <3>1, <4>1
    <3>2. CASE ~QueuedBy(scan, o)
      BY <1>1, <1>4, <2>1, <3>2
    <3>3. QED
      BY <3>1, <3>2
  <2>8. \A c : Told(c)' = IF c < scan' THEN Before0 \cup {o} ELSE Before0
    <3>1. queue'[head] = o /\ head \in DOMAIN queue' /\ \A i \in 1..(head - 1) : queue'[i] = queue[i]
      <4>1. \A i \in 1..(head - 1) : i \in DOMAIN queue
        BY <1>4
      <4>2. QED
        BY <1>4, <2>7, <4>1
    <3>2. {queue'[i] : i \in 1..(head - 1)} = Before0
      BY <3>1
    <3>3. QED
      BY <2>1, <3>1, <3>2 DEF Told
  <2>9. ASSUME NEW c \in OpIds PROVE indegree'[c] = Cardinality(Awaited(c)')
    <3>1. CASE c = scan
      <4>1. c < scan'
        BY <1>1, <2>1, <3>1
      <4>2. Awaited(c)' = AwaitedFrom(c, Before0 \cup {o})
        BY <1>2, <2>8, <4>1 DEF Awaited
      <4>3. QED
        BY <2>3, <2>5, <3>1, <4>2
    <3>2. CASE c # scan
      <4>1. c < scan' <=> c < scan
        BY <1>1, <1>3, <2>1, <3>2
      <4>2. Told(c)' = Told(c)
        BY <1>6, <2>8, <4>1
      <4>3. Awaited(c)' = Awaited(c)
        BY <1>2, <4>2 DEF Awaited
      <4>4. QED
        BY <1>1, <2>5, <3>2, <4>3
    <3>3. QED
      BY <3>1, <3>2
  <2>10. indegree' = [c \in OpIds |-> Cardinality(Awaited(c)')]
    <3>1. indegree' = [c \in OpIds |-> indegree'[c]]
      BY <1>1, <2>1
    <3>2. QED
      BY <2>9, <3>1
  <2>11. ASSUME NEW c \in OpIds PROVE c \in ToSet(queue') <=> indegree'[c] = 0
    <3>1. CASE c # scan
      BY <1>1, <2>5, <2>7, <3>1
    <3>2. CASE c = scan
      <4>1. c \in ToSet(queue) <=> n = 0
        BY <1>1, <2>3, <3>2
      <4>2. c \in ToSet(queue') <=> c \in ToSet(queue) \/ QueuedBy(scan, o)
        BY <2>7, <3>2
      <4>3. c \in ToSet(queue') <=> n = 0 \/ (n > 0 /\ n - k = 0)
        BY <2>4, <4>1, <4>2
      <4>4. k <= n
        BY <2>3
      <4>5. c \in ToSet(queue') <=> n - k = 0
        BY <4>3, <4>4
      <4>6. QED
        BY <2>5, <3>2, <4>5
    <3>3. QED
      BY <3>1, <3>2
  <2>12. Ordered(queue')
    <3>1. CASE QueuedBy(scan, o)
      <4>1. AwaitedFrom(scan, Before0 \cup {o}) = {}
        BY <2>2, <2>3, <2>4, <3>1, AwaitedFinite
      <4> HIDE DEF o, Before0
      <4>2. QED
        BY <1>1, <1>5, <2>1, <2>2, <2>6, <3>1, <4>1, EnqueueOrdered
    <3>2. CASE ~QueuedBy(scan, o)
      BY <1>1, <2>1, <3>2
    <3>3. QED
      BY <3>1, <3>2
  <2>13. Ordered(queue)'
    BY <1>1, <2>12 DEF Ordered, Producer
  <2>14. scan' \in 1..(Len(ops') + 1) /\ head' \in 1..(Len(queue') + 1)
    BY <1>1, <1>3, <1>4, <1>8, <2>1, <2>7
  <2>15. QED
    BY <1>1, <1>2, <2>7, <2>10, <2>11, <2>13, <2>14 DEF SortInv
<1>9. QED
  BY <1>7, <1>8

\* As many ops queued as there are: every op is.
LEMMA AllQueued ==
  ASSUME GraphOk, NEW q \in Seq(OpIds), Once(q)
  PROVE  Len(q) = Len(ops) <=> OpIds \subseteq ToSet(q)
<1>1. OpIds = 1..Len(ops) /\ Len(ops) \in Nat /\ IsFiniteSet(OpIds)
  BY OpTypes
<1>2. Len(q) \in Nat /\ DOMAIN q = 1..Len(q) /\ q \in [1..Len(q) -> OpIds]
  OBVIOUS
<1>3. q \in Injection(1..Len(q), OpIds)
  BY <1>2 DEF Injection, IsInjective, Once
<1>4. Cardinality(1..Len(q)) = Cardinality(OpIds) <=> q \in Surjection(1..Len(q), OpIds)
  BY <1>1, <1>3, FS_Injection
<1>5. Cardinality(1..Len(q)) = Len(q) /\ Cardinality(OpIds) = Len(ops)
  <2>1. \A n \in Nat : Cardinality(1..n) = n
    <3> TAKE n \in Nat
    <3>1. Cardinality(1..n) = IF 1 > n THEN 0 ELSE n - 1 + 1
      BY FS_Interval
    <3>2. QED
      BY <3>1
  <2>2. QED
    BY <1>1, <1>2, <2>1
<1>6. q \in Surjection(1..Len(q), OpIds) <=> OpIds \subseteq ToSet(q)
  BY <1>2 DEF Surjection, ToSet
<1>7. QED
  BY <1>4, <1>5, <1>6

\* The queue gives every op its epoch, after the ops it consumes from.
LEMMA SortSucceeds ==
  ASSUME GraphOk, NEW q \in Seq(OpIds), Once(q), Ordered(q), Len(q) = Len(ops)
  PROVE  Epochs(q) \in Orders
<1>1. OpIds \subseteq ToSet(q) /\ DOMAIN q = OpIds
  BY AllQueued, OpTypes
<1>2. PICK f : f = Epochs(q)
  OBVIOUS
<1>3. \A o \in OpIds : f[o] \in DOMAIN q /\ q[f[o]] = o
  BY <1>1, <1>2 DEF Epochs, ToSet
<1>4. f \in [OpIds -> OpIds]
  BY <1>1, <1>2, <1>3 DEF Epochs
<1>5. \A o, p \in OpIds : f[o] = f[p] => o = p
  BY <1>3
<1>6. ASSUME NEW o \in OpIds, NEW v \in ToSet(ops[o].ins), Producer(v) # 0
      PROVE  f[Producer(v)] < f[o]
  <2>1. PICK j \in DOMAIN ops[o].ins : v = ops[o].ins[j]
    BY DEF ToSet
  <2>2. PICK i \in DOMAIN q : i = f[o] /\ q[i] = o
    BY <1>3
  <2>3. PICK k \in 1..(i - 1) : q[k] = Producer(v)
    BY <1>6, <2>1, <2>2 DEF Ordered
  <2>4. i \in Nat /\ k \in Nat /\ k < i /\ k \in DOMAIN q
    <3>1. PICK n \in Nat : DOMAIN q = 1..n
      BY <1>1, OpTypes
    <3>2. i \in 1..n
      BY <2>2, <3>1
    <3>3. i \in Nat /\ k \in Nat /\ k < i /\ k \in 1..n
      BY <3>2
    <3>4. QED
      BY <3>1, <3>3
  <2>5. Producer(v) \in OpIds
    BY <2>3, <2>4
  <2>6. f[Producer(v)] = k
    BY <1>3, <2>3, <2>4, <2>5 DEF Once
  <2>7. QED
    BY <2>2, <2>4, <2>6
<1>7. QED
  BY <1>2, <1>4, <1>5, <1>6 DEF Orders

\* If some op was never queued there is no order: the first of them in any
\* order would wait for one that comes before it.
LEMMA SortFails ==
  ASSUME GraphOk, SortInv, stage = "sort", head = Len(queue) + 1, Len(queue) # Len(ops)
  PROVE  Orders = {}
<1> SUFFICES ASSUME NEW f \in Orders PROVE FALSE
  OBVIOUS
<1>1. /\ queue \in Seq(OpIds) /\ Once(queue)
      /\ indegree = [c \in OpIds |-> Cardinality(Awaited(c))]
      /\ \A c \in OpIds : c \in ToSet(queue) <=> indegree[c] = 0
  BY DEF SortInv
<1>2. ~(OpIds \subseteq ToSet(queue))
  BY <1>1, AllQueued
<1>3. /\ f \in [OpIds -> OpIds] /\ OpIds = 1..Len(ops)
      /\ \A o \in OpIds : \A v \in ToSet(ops[o].ins) : Producer(v) # 0 => f[Producer(v)] < f[o]
  BY OpTypes DEF Orders
<1> DEFINE U == OpIds \ ToSet(queue)
           F == {f[o] : o \in U}
<1>4. F # {} /\ F \in SUBSET Nat
  BY <1>2, <1>3
<1>5. PICK m \in F : \A x \in F : m <= x
  <2> HIDE DEF F
  <2>1. QED
    BY <1>4, LeastOf
<1>6. PICK o \in U : f[o] = m
  OBVIOUS
<1>7. o \in OpIds /\ Awaited(o) # {}
  <2>1. o \in OpIds /\ Cardinality(Awaited(o)) # 0
    BY <1>1
  <2>2. QED
    BY <2>1, FS_EmptySet
<1>8. Told(o) = ToSet(queue)
  <2>1. Len(queue) \in Nat /\ DOMAIN queue = 1..Len(queue)
    BY <1>1
  <2>2. head \notin DOMAIN queue /\ 1..(head - 1) = DOMAIN queue
    BY <2>1
  <2>3. QED
    BY <2>2 DEF Told, ToSet
<1>9. PICK j \in DOMAIN ops[o].ins : Producer(ops[o].ins[j]) \notin {0} \cup ToSet(queue)
  BY <1>7, <1>8 DEF Awaited, AwaitedFrom
<1>10. PICK p \in OpIds : p = Producer(ops[o].ins[j])
  BY <1>7, <1>9, OpTypes
<1>11. ops[o].ins[j] \in ToSet(ops[o].ins) /\ p # 0
  BY <1>9, <1>10 DEF ToSet
<1>12. f[p] < f[o]
  BY <1>3, <1>7, <1>10, <1>11
<1>13. f[p] \in F
  BY <1>9, <1>10
<1>14. f[p] \in Nat /\ f[o] \in Nat /\ f[o] <= f[p]
  BY <1>3, <1>5, <1>6, <1>7, <1>13
<1>15. QED
  BY <1>12, <1>14

\* The sort, step by step.
SortOk == GraphOk /\ SortInv /\ SortExact

\* The graph and the sort stay right at every step.
LEMMA NextSort == SortOk /\ [GNext]_<<planner, gvars>> => SortOk'
<1> SUFFICES ASSUME GraphOk, SortInv, SortExact, [GNext]_<<planner, gvars>> PROVE SortOk'
  BY DEF SortOk
<1>1. GraphOk'
  BY NextGraph
<1>2. CASE /\ stage' \notin {"seed", "sort"} /\ UNCHANGED <<values, ops, epoch>>
           /\ stage' \notin {"build", "refused"} => stage \notin {"build", "seed", "sort", "refused"}
           /\ stage' = "refused" => status' # "mismatch"
  <2>1. SortInv'
    BY <1>2 DEF SortInv
  <2>2. Orders' = Orders
    BY <1>2, SameGraph
  <2>3. SortExact'
    BY <1>2, <2>2 DEF SortExact
  <2>4. QED
    BY <1>1, <2>1, <2>3 DEF SortOk
<1>3. CASE stage = "build" /\ stage' = "build"
  BY <1>1, <1>3 DEF SortOk, SortInv, SortExact
<1>4. CASE UNCHANGED <<planner, gvars>>
  BY <1>1, <1>4 DEF SortOk, SortInv, SortExact, gvars, sort, Orders, OpIds, Producer, Awaited,
     AwaitedFrom, Told, Ordered
<1>5. CASE stage' \in {"seed", "sort"} /\ SortInv'
  BY <1>1, <1>5 DEF SortOk, SortExact
<1>6. CASE SortGraph
  BY <1>5, <1>6, SortGraphStep DEF SortGraph
<1>7. CASE SortSeed
  BY <1>5, <1>7, SortSeedStep DEF SortSeed
<1>8. CASE SortScan
  BY <1>5, <1>8, SortScanStep DEF SortScan
<1>9. CASE \E p \in BOOLEAN : SortEnds(p)
  <2>1. /\ stage = "sort" /\ head = Len(queue) + 1 /\ UNCHANGED <<values, ops>>
        /\ \/ Len(queue) = Len(ops) /\ epoch' = Epochs(queue) /\ stage' = "plan"
           \/ Len(queue) # Len(ops) /\ stage' = "refused"
    BY <1>9 DEF SortEnds
  <2>2. queue \in Seq(OpIds) /\ Once(queue) /\ Ordered(queue)
    BY <2>1 DEF SortInv
  <2>3. SortInv'
    BY <2>1 DEF SortInv
  <2>4. Orders' = Orders
    BY <2>1, SameGraph
  <2>5. SortExact'
    BY <2>1, <2>2, <2>4, SortSucceeds, SortFails DEF SortExact
  <2>6. QED
    BY <1>1, <2>3, <2>5 DEF SortOk
<1>10. CASE pai_graph_add_value \/ (\E v \in ValueIds : pai_graph_set_output(v))
            \/ \E kind \in Kinds[Len(ops) + 1], ins \in InputLists, out \in ValueIds :
                 pai_graph_add_op(kind, ins, out)
  BY <1>3, <1>10 DEF pai_graph_add_value, pai_graph_set_output, pai_graph_add_op
<1>11. CASE AddToPlanner
  BY <1>2, <1>11 DEF AddToPlanner
<1>12. CASE PlannerRuns \/ pai_graph_memory_plan \/ sched_build_impl
  BY <1>2, <1>12 DEF PlannerRuns, pai_graph_memory_plan, sched_build_impl, gvars
<1>13. CASE (\E gate \in BOOLEAN : StartRun(gate)) \/ ExecuteStep \/ ExecuteEnds
  BY <1>2, <1>13 DEF StartRun, ExecuteStep, ExecuteEnds
<1>14. QED
  BY <1>4, <1>6, <1>7, <1>8, <1>9, <1>10, <1>11, <1>12, <1>13 DEF GNext

\* The first states.
LEMMA InitSort == GInit => SortOk
BY InitGraph DEF GInit, SortOk, SortInv, SortExact

\* pai_graph_topo_sort is exact, for every graph: it refuses a graph only when
\* no order of its ops respects who consumes from whom, and otherwise gives
\* every op an epoch of its own, after those of its producers.
THEOREM SortIsExact == GSpec => []SortExact
<1>1. SortOk => SortExact
  BY DEF SortOk
<1>2. QED
  BY <1>1, InitSort, NextSort, PTL DEF GSpec

-----------------------------------------------------------------------------
(* The layout of the values. *)

AllocationOf(v) ==
  [size |-> values[v].size, align |-> 1, start |-> Start(v), end |-> EndOf(v),
   pinned |-> FALSE]

\* Values that can be read after a run.
Keep(v) == values[v].is_output \/ (persistent /\ v \in Sources)

\* Values whose lifetimes meet share no cell.
CellsApart ==
  /\ mem_plan.region \in Nat /\ mem_plan.offsets \in [ValueIds -> Nat]
  /\ \A v \in ValueIds : /\ Cells(v) \subseteq 0..(mem_plan.region - 1)
                          /\ Start(v) < EndOf(v)
  /\ \A v, w \in ValueIds : v # w /\ Start(v) < EndOf(w) /\ Start(w) < EndOf(v)
                               => Cells(v) \cap Cells(w) = {}

\* The planner has the values in their order, with their lifetimes, and its
\* layout is copied when it is done.
LayoutInv ==
  /\ stage = "plan" =>
       /\ Len(allocs) <= Len(values)
       /\ \A v \in Idx : allocs[v] = AllocationOf(v)
       /\ phase # "adding" => Len(allocs) = Len(values)
       /\ phase = "done" => Placed = Idx
  /\ stage \notin {"plan", "refused"} => phase = "adding" /\ allocs = <<>>
  /\ stage \in {"planned", "ready", "running"} => CellsApart

\* The largest of a bounded set of numbers.
LEMMA MaxOf ==
  ASSUME NEW S \in SUBSET Nat, S # {}, NEW b \in Nat, \A x \in S : x <= b
  PROVE  Max(S) \in S /\ \A x \in S : x <= Max(S)
<1>1. PICK f : f = [x \in S |-> x]
  OBVIOUS
<1>2. \A x \in S : f[x] = x /\ f[x] \in Nat /\ f[x] <= b
  BY <1>1
<1>3. PICK m \in S : \A y \in S : f[y] <= f[m]
  BY <1>2, LastOf
<1>4. \A y \in S : m >= y
  BY <1>2, <1>3
<1>5. Max(S) \in S /\ \A y \in S : Max(S) >= y
  BY <1>4, Zenon DEF Max
<1>6. QED
  BY <1>5

\* Lifetimes: a value starts with its producer, ends after every use, and
\* what is kept ends with the last step.
LEMMA Lifetimes ==
  ASSUME GraphOk, epoch \in Orders, NEW v \in ValueIds
  PROVE  /\ Start(v) \in Nat /\ EndOf(v) \in Nat
         /\ Producer(v) = 0 => Start(v) = 0
         /\ Producer(v) # 0 => epoch[Producer(v)] \in OpIds /\ Start(v) = epoch[Producer(v)] - 1
         /\ Keep(v) => EndOf(v) = Len(ops)
         /\ \A o \in OpIds : (\E j \in DOMAIN ops[o].ins : ops[o].ins[j] = v)
                               => epoch[o] <= EndOf(v)
<1>1. epoch \in [OpIds -> OpIds] /\ OpIds = 1..Len(ops) /\ Len(ops) \in Nat
  BY OpTypes DEF Orders
<1>2. \A o \in OpIds : epoch[o] \in Nat /\ epoch[o] >= 1 /\ epoch[o] <= Len(ops)
  BY <1>1
<1>3. /\ Start(v) \in Nat
      /\ Producer(v) = 0 => Start(v) = 0
      /\ Producer(v) # 0 => epoch[Producer(v)] \in OpIds /\ Start(v) = epoch[Producer(v)] - 1
  <2>1. CASE Producer(v) = 0
    BY <2>1 DEF Start
  <2>2. CASE Producer(v) # 0
    <3>1. Producer(v) \in OpIds
      BY <2>2, OpTypes
    <3>2. PICK e \in Nat : e = epoch[Producer(v)] /\ e >= 1
      BY <1>2, <3>1
    <3>3. Start(v) = e - 1 /\ e - 1 \in Nat
      BY <2>2, <3>2 DEF Start
    <3>4. QED
      BY <1>1, <2>2, <3>1, <3>2, <3>3
  <2>3. QED
    BY <2>1, <2>2
<1> DEFINE Users == {o \in OpIds : Uses(o, v) > 0}
           S == {epoch[o] - 1 : o \in Users}
<1>4. ASSUME NEW o \in OpIds
      PROVE  (\E j \in DOMAIN ops[o].ins : ops[o].ins[j] = v) <=> Uses(o, v) > 0
  <2> DEFINE J == {j \in DOMAIN ops[o].ins : ops[o].ins[j] = v}
  <2>1. IsFiniteSet(J)
    <3>1. IsFiniteSet(DOMAIN ops[o].ins) /\ J \in SUBSET DOMAIN ops[o].ins
      BY AwaitedFinite
    <3> HIDE DEF J
    <3>2. QED
      BY <3>1, FS_Subset
  <2>2. Cardinality(J) \in Nat /\ (Cardinality(J) = 0 <=> J = {})
    <3> HIDE DEF J
    <3>1. QED
      BY <2>1, FS_CardinalityType, FS_EmptySet
  <2>3. Uses(o, v) = Cardinality(J)
    BY DEF Uses
  <2>4. (\E j \in DOMAIN ops[o].ins : ops[o].ins[j] = v) <=> J # {}
    OBVIOUS
  <2> HIDE DEF J
  <2>5. QED
    BY <2>2, <2>3, <2>4
<1>5. ASSUME Users # {}
      PROVE  LastUse(v) \in Nat /\ \A o \in Users : epoch[o] - 1 <= LastUse(v)
  <2>1. S \in SUBSET Nat /\ S # {} /\ \A x \in S : x <= Len(ops)
    BY <1>1, <1>2, <1>5
  <2>2. LastUse(v) = Max(S)
    BY DEF LastUse
  <2>3. \A o \in Users : epoch[o] - 1 \in S
    OBVIOUS
  <2> HIDE DEF S
  <2>4. Max(S) \in S /\ \A x \in S : x <= Max(S)
    BY <1>1, <2>1, MaxOf
  <2>5. QED
    BY <2>1, <2>2, <2>3, <2>4
<1>6. /\ pai_graph_value_lifetimes(v) \in Nat
      /\ values[v].is_output => pai_graph_value_lifetimes(v) = Len(ops)
      /\ \A o \in Users : epoch[o] <= pai_graph_value_lifetimes(v)
  <2>1. CASE values[v].is_output
    BY <1>1, <1>2, <2>1 DEF pai_graph_value_lifetimes
  <2>2. CASE ~values[v].is_output /\ Users # {}
    <3>1. PICK n \in Nat : n = LastUse(v) /\ \A o \in Users : epoch[o] - 1 <= n
      BY <1>5, <2>2
    <3>2. pai_graph_value_lifetimes(v) = n + 1
      BY <2>2, <3>1 DEF pai_graph_value_lifetimes
    <3>3. \A o \in Users : epoch[o] <= n + 1
      BY <1>2, <3>1
    <3>4. QED
      BY <2>2, <3>2, <3>3
  <2>3. CASE ~values[v].is_output /\ Users = {}
    BY <1>3, <2>3 DEF pai_graph_value_lifetimes
  <2>4. QED
    BY <2>1, <2>2, <2>3
<1>7. EndOf(v) = IF persistent /\ Producer(v) = 0 THEN Len(ops) ELSE pai_graph_value_lifetimes(v)
  BY DEF EndOf
<1>8. EndOf(v) \in Nat /\ \A o \in Users : epoch[o] <= EndOf(v)
  BY <1>1, <1>2, <1>6, <1>7
<1>9. Keep(v) => EndOf(v) = Len(ops)
  BY <1>6, <1>7 DEF Keep, Sources
<1>10. QED
  BY <1>3, <1>4, <1>8, <1>9

\* Lifetimes are fixed once the graph is sorted.
LEMMA SameLifetimes ==
  ASSUME UNCHANGED <<values, ops, epoch, persistent>>
  PROVE  /\ \A v : Start(v)' = Start(v) /\ EndOf(v)' = EndOf(v)
         /\ \A v : AllocationOf(v)' = AllocationOf(v)
         /\ \A v : Keep(v)' = Keep(v)
         /\ Sources' = Sources /\ Rewritten' = Rewritten
<1>1. OpIds' = OpIds /\ \A v : Producer(v)' = Producer(v)
  BY SameGraph
<1>2. \A o, v : Uses(o, v)' = Uses(o, v)
  BY DEF Uses
<1>3. \A v : Start(v)' = Start(v)
  BY <1>1 DEF Start
<1>4. \A v : LastUse(v)' = LastUse(v)
  BY <1>1, <1>2 DEF LastUse
<1>5. \A v : pai_graph_value_lifetimes(v)' = pai_graph_value_lifetimes(v)
  BY <1>1, <1>2, <1>3, <1>4 DEF pai_graph_value_lifetimes
<1>6. \A v : EndOf(v)' = EndOf(v)
  BY <1>1, <1>5 DEF EndOf
<1>7. Sources' = Sources
  BY <1>1 DEF Sources, ValueIds
<1>8. QED
  BY <1>3, <1>6, <1>7 DEF AllocationOf, Keep, Rewritten

\* What graph_memory_plan_impl hands to the planner is what the planner takes.
LEMMA AllocationOk ==
  ASSUME GraphOk, epoch \in Orders, NEW v \in ValueIds, ~(EndOf(v) <= Start(v))
  PROVE  AllocationOf(v) \in Allocations
<1>0. values[v] \in ValueSet
  BY DEF GraphOk, ValueIds
<1>1. values[v].size \in Nat \ {0}
  BY <1>0 DEF ValueSet
<1>2. PICK a, b, c : a = values[v].size /\ b = Start(v) /\ c = EndOf(v)
  OBVIOUS
<1>3. a \in Nat \ {0} /\ b \in Nat /\ c \in Nat /\ ~(c <= b)
  BY <1>1, <1>2, Lifetimes
<1>4. b < c
  BY <1>3
<1>5. [size |-> a, align |-> 1, start |-> b, end |-> c, pinned |-> FALSE] \in Allocations
  BY <1>3, <1>4 DEF Allocations
<1>6. QED
  BY <1>2, <1>5 DEF AllocationOf

\* One value more for the planner.
LEMMA AddToPlannerStep ==
  ASSUME GraphOk, SortExact, PlanInv, LayoutInv, AddToPlanner
  PROVE  PlanInv' /\ LayoutInv'
<1> DEFINE v == Len(allocs) + 1
<1>1. /\ stage = "plan" /\ phase = "adding" /\ v \in ValueIds
      /\ UNCHANGED <<values, ops, epoch, persistent, mem_plan>>
  BY DEF AddToPlanner
<1>2. CASE EndOf(v) <= Start(v)
  <2>1. stage' = "refused" /\ UNCHANGED planner
    BY <1>2 DEF AddToPlanner
  <2>2. UNCHANGED vars
    BY <2>1 DEF planner, vars
  <2>3. PlanInv'
    BY <2>2, NextPlan
  <2>4. LayoutInv'
    BY <2>1 DEF LayoutInv
  <2>5. QED
    BY <2>3, <2>4
<1>3. CASE ~(EndOf(v) <= Start(v))
  <2>1. planner_add_common(AllocationOf(v)) /\ UNCHANGED stage
    BY <1>3 DEF AddToPlanner, AllocationOf
  <2>2. epoch \in Orders
    BY <1>1 DEF SortExact
  <2>3. AllocationOf(v) \in Allocations
    BY <1>1, <1>3, <2>2, AllocationOk
  <2>4. PICK r \in Allocations : r = AllocationOf(v)
    BY <2>3
  <2>5. PlanInv'
    BY <2>1, <2>4, AddStep
  <2>6. allocs' = Append(allocs, r) /\ UNCHANGED phase
    BY <2>1, <2>4 DEF planner_add_common
  <2>7. allocs \in Seq(Allocations) /\ Len(values) \in Nat /\ ValueIds = 1..Len(values)
    BY OpTypes DEF PlanInv, PlannerType
  <2>8. /\ Len(allocs') = v /\ Idx' = 1..v /\ Idx = 1..Len(allocs) /\ Len(allocs) \in Nat
        /\ allocs'[v] = r /\ \A i \in Idx : allocs'[i] = allocs[i]
    BY <2>6, <2>7, AppendProperties DEF Idx
  <2>9. \A i \in Idx' : i \in Idx \/ i = v
    BY <2>8
  <2>10. \A w : AllocationOf(w)' = AllocationOf(w)
    BY <1>1, SameLifetimes
  <2>11. ASSUME NEW i \in Idx' PROVE allocs'[i] = AllocationOf(i)'
    <3>1. CASE i = v
      <4>1. r = AllocationOf(i)
        BY <2>4, <3>1
      <4>2. QED
        BY <2>8, <2>10, <3>1, <4>1
    <3>2. CASE i \in Idx
      BY <1>1, <2>8, <2>10, <3>2 DEF LayoutInv
    <3>3. QED
      BY <2>9, <3>1, <3>2
  <2>12. Len(allocs') <= Len(values')
    BY <1>1, <2>7, <2>8
  <2>13. QED
    BY <1>1, <2>1, <2>5, <2>6, <2>11, <2>12 DEF LayoutInv
<1>4. QED
  BY <1>2, <1>3

\* The planner's own steps.
LEMMA PlannerRunsStep ==
  ASSUME GraphOk, PlanInv, LayoutInv, PlannerRuns
  PROVE  PlanInv' /\ LayoutInv'
<1>1. stage = "plan" /\ UNCHANGED gvars
  BY DEF PlannerRuns
<1>2. UNCHANGED <<values, ops, epoch, persistent, mem_plan, stage>>
  BY <1>1 DEF gvars
<1>3. Next
  BY DEF PlannerRuns, Next
<1>4. PlanInv'
  BY <1>3, NextPlan
<1>5. \A w : AllocationOf(w)' = AllocationOf(w)
  BY <1>2, SameLifetimes
<1>6. UNCHANGED allocs
  BY DEF PlannerRuns, pai_mem_plan_build, Sweep, release, place_reuse, place_extend,
     place_pinned, Extend, Finish
<1>7. Idx' = Idx
  BY <1>6 DEF Idx
<1>8. CASE Len(allocs) = Len(values) /\ pai_mem_plan_build
  <2>1. phase' = "sweep"
    BY <1>8 DEF pai_mem_plan_build
  <2>2. QED
    BY <1>1, <1>2, <1>4, <1>5, <1>6, <1>7, <1>8, <2>1 DEF LayoutInv
<1>9. CASE Sweep
  <2>1. phase = "sweep" /\ (phase' = "sweep" \/ (phase' = "done" /\ Placed = Idx /\ UNCHANGED offsets))
    <3>1. CASE Finish
      BY <3>1 DEF Finish
    <3>2. CASE \E i \in Idx : \/ \E j \in live : release(i, j)
                              \/ place_reuse(i) \/ place_extend(i) \/ place_pinned(i)
      BY <3>2 DEF release, place_reuse, place_extend, place_pinned, Extend, Upcoming
    <3>3. QED
      BY <1>9, <3>1, <3>2 DEF Sweep
  <2>2. phase' = "done" => Placed' = Idx'
    BY <1>7, <2>1 DEF Placed
  <2>3. QED
    BY <1>1, <1>2, <1>4, <1>5, <1>6, <1>7, <2>1, <2>2 DEF LayoutInv
<1>10. QED
  BY <1>8, <1>9 DEF PlannerRuns

\* Ranges that are apart share no cell.
LEMMA ApartCells ==
  ASSUME NEW r \in Ranges, NEW q \in Ranges, Apart(r, q)
  PROVE  (r.off..(r.off + r.size - 1)) \cap (q.off..(q.off + q.size - 1)) = {}
<1>1. r.off \in Nat /\ r.size \in Nat /\ q.off \in Nat /\ q.size \in Nat
  BY DEF Ranges
<1>2. QED
  BY <1>1 DEF Apart

\* The offsets are copied: the layout of the planner is the layout of the
\* values.
LEMMA MemoryPlanStep ==
  ASSUME GraphOk, SortExact, PlanInv, LayoutInv, pai_graph_memory_plan
  PROVE  PlanInv' /\ LayoutInv'
<1>1. /\ stage = "plan" /\ phase = "done" /\ stage' = "planned"
      /\ UNCHANGED <<values, ops, epoch, persistent>>
      /\ mem_plan' = [offsets |-> offsets, region |-> region_bytes, peak |-> peak_live]
      /\ pai_mem_plan_free
  BY DEF pai_graph_memory_plan
<1>2. PlanInv'
  BY <1>1, NextPlan DEF Next
<1>3. /\ Placed = Idx /\ Len(allocs) = Len(values) /\ \A v \in Idx : allocs[v] = AllocationOf(v)
      /\ PlannerType /\ SpaceApart /\ LayoutSound
  BY <1>1 DEF LayoutInv, PlanInv
<1>4. Idx = ValueIds
  BY <1>3, OpTypes DEF PlannerType, Idx
<1>5. mem_plan'.offsets = offsets /\ mem_plan'.region = region_bytes
  BY <1>1
<1>6. /\ region_bytes \in Nat /\ cursor \in Nat /\ cursor <= region_bytes
      /\ offsets \in [ValueIds -> Nat]
  BY <1>3, <1>4, RegionCovers DEF PlannerType
<1>7. \A v \in ValueIds : /\ values[v].size = allocs[v].size
                          /\ Start(v) = allocs[v].start /\ EndOf(v) = allocs[v].end
                          /\ ~allocs[v].pinned
  <2> SUFFICES ASSUME NEW v \in ValueIds
      PROVE  /\ values[v].size = allocs[v].size
             /\ Start(v) = allocs[v].start /\ EndOf(v) = allocs[v].end
             /\ ~allocs[v].pinned
    OBVIOUS
  <2>1. allocs[v] = AllocationOf(v)
    BY <1>3, <1>4
  <2>2. PICK a, b, c : a = values[v].size /\ b = Start(v) /\ c = EndOf(v)
    OBVIOUS
  <2>3. allocs[v] = [size |-> a, align |-> 1, start |-> b, end |-> c, pinned |-> FALSE]
    BY <2>1, <2>2 DEF AllocationOf
  <2>4. QED
    BY <2>2, <2>3
<1>8. \A v \in ValueIds : /\ Place(v) \in Ranges /\ Place(v).off = offsets[v]
                          /\ Place(v).size = allocs[v].size
                          /\ offsets[v] + allocs[v].size <= cursor
                          /\ offsets[v] \in Nat /\ allocs[v].size \in Nat \ {0}
  BY <1>3, <1>4, Places DEF SpaceApart, End
<1>9. \A v \in ValueIds : Cells(v)' = Place(v).off..(Place(v).off + Place(v).size - 1)
  BY <1>1, <1>5, <1>7, <1>8 DEF Cells
<1>10. \A v : Start(v)' = Start(v) /\ EndOf(v)' = EndOf(v)
  BY <1>1, SameLifetimes
<1>11. ValueIds' = ValueIds
  BY <1>1, SameGraph
<1>12. ASSUME NEW v \in ValueIds
       PROVE  Cells(v)' \subseteq 0..(mem_plan'.region - 1) /\ Start(v)' < EndOf(v)'
  <2>1. PICK x \in Nat, y \in Nat, c \in Nat, b \in Nat :
          x = Place(v).off /\ y = Place(v).size /\ c = cursor /\ b = region_bytes
    BY <1>6, <1>8 DEF Ranges
  <2>2. x + y <= c /\ c <= b
    BY <1>6, <1>8, <2>1
  <2>3. x..(x + y - 1) \subseteq 0..(b - 1)
    BY <2>2
  <2>4. Start(v) < EndOf(v)
    BY <1>3, <1>4, <1>7, RequestTypes
  <2>5. QED
    BY <1>5, <1>9, <1>10, <2>1, <2>3, <2>4
<1>13. ASSUME NEW v \in ValueIds, NEW w \in ValueIds, v # w, Start(v) < EndOf(w), Start(w) < EndOf(v)
       PROVE  Cells(v)' \cap Cells(w)' = {}
  <2>1. Apart(Place(v), Place(w))
    BY <1>3, <1>4, <1>7, <1>13 DEF LayoutSound
  <2>2. QED
    BY <1>8, <1>9, <2>1, ApartCells
<1>14. CellsApart'
  BY <1>5, <1>6, <1>10, <1>11, <1>12, <1>13 DEF CellsApart
<1>15. phase' = "adding" /\ allocs' = <<>>
  BY <1>1 DEF pai_mem_plan_free
<1>16. QED
  BY <1>1, <1>2, <1>14, <1>15 DEF LayoutInv

\* The layout, step by step.
LayoutOk == SortOk /\ PlanInv /\ LayoutInv

\* So does the layout.
LEMMA NextLayout == LayoutOk /\ [GNext]_<<planner, gvars>> => LayoutOk'
<1> SUFFICES ASSUME SortOk, PlanInv, LayoutInv, [GNext]_<<planner, gvars>> PROVE LayoutOk'
  BY DEF LayoutOk
<1>1. SortOk' /\ GraphOk /\ SortExact
  BY NextSort DEF SortOk
<1>2. CASE PlanInv' /\ LayoutInv'
  BY <1>1, <1>2 DEF LayoutOk
<1>3. CASE AddToPlanner \/ PlannerRuns \/ pai_graph_memory_plan
  BY <1>1, <1>2, <1>3, AddToPlannerStep, PlannerRunsStep, MemoryPlanStep
<1>4. CASE UNCHANGED planner /\ stage \notin {"plan", "refused"}
           /\ stage' \notin {"planned", "ready", "running"}
  <2>1. UNCHANGED vars
    BY <1>4 DEF planner, vars
  <2>2. PlanInv'
    BY <2>1, NextPlan
  <2>3. phase' = "adding" /\ allocs' = <<>>
    BY <1>4, <2>1 DEF LayoutInv, vars
  <2>4. LayoutInv'
    <3>1. Idx' = {} /\ Len(allocs') = 0
      BY <2>3 DEF Idx
    <3>2. stage' = "plan" => Len(values') \in Nat
      BY <1>1 DEF SortOk, GraphOk
    <3>3. QED
      BY <1>4, <2>3, <3>1, <3>2 DEF LayoutInv
  <2>5. QED
    BY <1>2, <2>2, <2>4
<1>5. CASE UNCHANGED <<planner, values, ops, epoch, persistent, mem_plan>>
           /\ stage \in {"planned", "ready", "running"} /\ stage' \in {"planned", "ready", "running"}
  <2>1. UNCHANGED vars
    BY <1>5 DEF planner, vars
  <2>2. PlanInv'
    BY <2>1, NextPlan
  <2>3. \A v : Start(v)' = Start(v) /\ EndOf(v)' = EndOf(v) /\ Cells(v)' = Cells(v)
    BY <1>5, SameLifetimes DEF Cells
  <2>4. CellsApart'
    BY <1>5, <2>3 DEF LayoutInv, CellsApart, ValueIds
  <2>5. LayoutInv'
    BY <1>5, <2>1, <2>4 DEF LayoutInv, vars
  <2>6. QED
    BY <1>2, <2>2, <2>5
<1>6. CASE UNCHANGED <<planner, gvars>>
  <2>1. CASE stage \in {"planned", "ready", "running"}
    BY <1>5, <1>6, <2>1 DEF gvars
  <2>2. CASE stage \notin {"planned", "ready", "running", "plan", "refused"}
    BY <1>4, <1>6, <2>2 DEF gvars
  <2>3. CASE stage \in {"plan", "refused"}
    <3>1. UNCHANGED vars /\ UNCHANGED <<values, ops, epoch, persistent, stage>>
      BY <1>6 DEF planner, vars, gvars
    <3>2. PlanInv'
      BY <3>1, NextPlan
    <3>3. \A v : AllocationOf(v)' = AllocationOf(v)
      BY <3>1, SameLifetimes
    <3>4. LayoutInv'
      BY <2>3, <3>1, <3>3 DEF LayoutInv, vars, Idx, Placed
    <3>5. QED
      BY <1>2, <3>2, <3>4
  <2>4. QED
    BY <2>1, <2>2, <2>3
<1>7. CASE pai_graph_add_value \/ (\E v \in ValueIds : pai_graph_set_output(v))
            \/ \E kind \in Kinds[Len(ops) + 1], ins \in InputLists, out \in ValueIds :
                 pai_graph_add_op(kind, ins, out)
  BY <1>4, <1>7 DEF pai_graph_add_value, pai_graph_set_output, pai_graph_add_op
<1>8. CASE SortGraph \/ SortSeed \/ SortScan \/ \E p \in BOOLEAN : SortEnds(p)
  BY <1>4, <1>8 DEF SortGraph, SortSeed, SortScan, SortEnds
<1>9. CASE sched_build_impl \/ (\E gate \in BOOLEAN : StartRun(gate)) \/ ExecuteStep \/ ExecuteEnds
  BY <1>5, <1>9 DEF sched_build_impl, StartRun, ExecuteStep, ExecuteEnds
<1>10. QED
  BY <1>3, <1>6, <1>7, <1>8, <1>9 DEF GNext

\* The first states.
LEMMA InitLayout == GInit => LayoutOk
BY InitSort, InitPlan DEF GInit, LayoutOk, LayoutInv, Init

-----------------------------------------------------------------------------
(* The runs. *)

\* v has been written before step s and is still needed.
Needed(v, s) ==
  /\ Producer(v) = 0 \/ epoch[Producer(v)] < s
  /\ Keep(v) \/ s <= EndOf(v)

\* Every step of the plan runs the op of its epoch; if every convert has an
\* output of its input's size, what was loaded once is always in place, and so
\* is, during a run, what is needed from here on.
Stepped ==
  /\ DOMAIN plan = OpIds /\ Len(plan) = Len(ops)
  /\ \A i \in OpIds : plan[i].op \in OpIds /\ epoch[plan[i].op] = i
Loaded ==
  /\ DOMAIN region = 0..(mem_plan.region - 1)
  /\ Sized => \A v \in Sources \ Rewritten : \A c \in Cells(v) : region[c] = Holds(v, 0)
RunInv ==
  /\ stage \in {"ready", "running"} => Stepped /\ Loaded
  /\ stage \notin {"ready", "running"} => run = 0 /\ gated = FALSE
  /\ stage = "running" => step \in 1..(Len(ops) + 1)
  /\ Sized /\ (stage = "running" \/ (stage = "ready" /\ run > 0 /\ step = Len(plan) + 1)) =>
       \A v \in ValueIds : Needed(v, step) => Intact(v)

\* The sizes of the converts, seen from a step that leaves the graph alone.
LEMMA SameSized ==
  ASSUME UNCHANGED <<values, ops>>
  PROVE  Sized' = Sized
BY DEF Sized, OpIds

\* A run that passed the kernel table has only steps with kernels, and one
\* that goes on has met no failure.
GateInv == stage = "running" => status = "ok" /\ (gated => pai_kernel_plan_check)

\* What a write leaves in a cell.
LEMMA WrittenCell ==
  ASSUME NEW V, NEW r, NEW old
  PROVE  /\ DOMAIN Written(V, r, old) = DOMAIN old
         /\ \A c \in DOMAIN old : (\A v \in V : c \notin Cells(v)) => Written(V, r, old)[c] = old[c]
         /\ \A c \in DOMAIN old, v \in V : c \in Cells(v) /\ (\A w \in V : c \in Cells(w) => w = v)
                                             => Written(V, r, old)[c] = Holds(v, r)
<1>1. \A c \in DOMAIN old :
        Written(V, r, old)[c] = IF \E v \in V : c \in Cells(v)
                                THEN Holds(CHOOSE v \in V : c \in Cells(v), r) ELSE old[c]
  BY DEF Written
<1>2. DOMAIN Written(V, r, old) = DOMAIN old
  BY DEF Written
<1>3. ASSUME NEW c \in DOMAIN old, NEW v \in V, c \in Cells(v), \A w \in V : c \in Cells(w) => w = v
      PROVE  Written(V, r, old)[c] = Holds(v, r)
  <2>1. (CHOOSE w \in V : c \in Cells(w)) \in V /\ c \in Cells(CHOOSE w \in V : c \in Cells(w))
    BY <1>3, Zenon
  <2>2. (CHOOSE w \in V : c \in Cells(w)) = v
    BY <1>3, <2>1
  <2>3. Written(V, r, old)[c] = Holds(CHOOSE w \in V : c \in Cells(w), r)
    BY <1>1, <1>3
  <2>4. QED
    BY <2>2, <2>3
<1>4. QED
  BY <1>1, <1>2, <1>3

\* Two sources share no cell: all of them live from the first step on.
LEMMA SourcesApart ==
  ASSUME GraphOk, epoch \in Orders, CellsApart, NEW v \in Sources, NEW w \in Sources, v # w
  PROVE  Cells(v) \cap Cells(w) = {}
<1>1. v \in ValueIds /\ w \in ValueIds /\ Producer(v) = 0 /\ Producer(w) = 0
  BY DEF Sources
<1>2. Start(v) = 0 /\ Start(w) = 0
  BY <1>1, Lifetimes
<1>3. Start(v) < EndOf(w) /\ Start(w) < EndOf(v)
  BY <1>1, <1>2 DEF CellsApart
<1>4. QED
  BY <1>1, <1>3 DEF CellsApart

OfSources(V) == V \subseteq Sources
OfRegion(old) == DOMAIN old = 0..(mem_plan.region - 1)

\* A write of sources, seen from another source and from one of them.
LEMMA SourceWrites ==
  ASSUME GraphOk, epoch \in Orders, CellsApart, NEW V, OfSources(V), NEW r, NEW old,
         OfRegion(old), NEW v \in Sources, NEW c \in Cells(v)
  PROVE  /\ v \in V => Written(V, r, old)[c] = Holds(v, r)
         /\ v \notin V => Written(V, r, old)[c] = old[c]
<1>1. v \in ValueIds
  BY DEF Sources
<1>2. c \in DOMAIN old
  BY <1>1 DEF CellsApart, OfRegion
<1>3. \A w \in V : c \in Cells(w) => w = v
  <2>1. SUFFICES ASSUME NEW w \in V, c \in Cells(w), w # v PROVE FALSE
    OBVIOUS
  <2>2. Cells(v) \cap Cells(w) = {}
    BY <2>1, SourcesApart DEF OfSources
  <2>3. QED
    BY <2>1, <2>2
<1>4. Written(V, r, old)[c] = IF \E w \in V : c \in Cells(w)
                               THEN Holds(CHOOSE w \in V : c \in Cells(w), r) ELSE old[c]
  BY <1>2 DEF Written
<1>5. CASE v \in V
  <2>1. PICK u : u = (CHOOSE w \in V : c \in Cells(w))
    OBVIOUS
  <2>2. u \in V /\ c \in Cells(u)
    BY <1>5, <2>1, Zenon
  <2>3. u = v
    BY <1>3, <2>2
  <2>4. QED
    BY <1>4, <1>5, <2>1, <2>3
<1>6. CASE v \notin V
  <2>1. ~ \E w \in V : c \in Cells(w)
    BY <1>3, <1>6
  <2>2. QED
    BY <1>4, <1>6, <2>1
<1>7. QED
  BY <1>5, <1>6

\* Nothing about the layout changes when a run does.
LEMMA SameRegion ==
  ASSUME UNCHANGED <<values, ops, epoch, persistent, mem_plan>>
  PROVE  /\ \A v : Cells(v)' = Cells(v)
         /\ ValueIds' = ValueIds /\ OpIds' = OpIds
         /\ Sources' = Sources /\ Rewritten' = Rewritten
         /\ \A v : Keep(v)' = Keep(v) /\ EndOf(v)' = EndOf(v) /\ Producer(v)' = Producer(v)
BY SameLifetimes, SameGraph DEF Cells

\* The epochs of a sorted graph are all its positions.
LEMMA EpochsOnto ==
  ASSUME GraphOk, epoch \in Orders, NEW i \in OpIds
  PROVE  \E o \in OpIds : epoch[o] = i
<1>1. epoch \in [OpIds -> OpIds] /\ \A o, q \in OpIds : epoch[o] = epoch[q] => o = q
  BY DEF Orders
<1>2. IsFiniteSet(OpIds)
  BY OpTypes
<1>3. epoch \in Injection(OpIds, OpIds)
  BY <1>1 DEF Injection, IsInjective
<1>4. epoch \in Surjection(OpIds, OpIds)
  BY <1>2, <1>3, FS_Injection
<1>5. QED
  BY <1>4 DEF Surjection

\* sched_build_impl: a step for every epoch, and the sources loaded.
LEMMA BuildStep ==
  ASSUME LayoutOk, RunInv, sched_build_impl
  PROVE  RunInv'
<1>1. /\ stage = "planned" /\ stage' = "ready"
      /\ UNCHANGED <<values, ops, epoch, persistent, mem_plan, run, step, gated>>
      /\ region' = Written(Sources, 0, [c \in 0..(mem_plan.region - 1) |-> Holds(0, 0)])
  BY DEF sched_build_impl
<1>2. GraphOk /\ epoch \in Orders /\ CellsApart
  BY <1>1 DEF LayoutOk, SortOk, SortExact, LayoutInv
<1>3. run' = 0 /\ gated' = FALSE
  BY <1>1 DEF RunInv
<1>4. Stepped'
  <2>1. PICK policy \in Policies :
          plan' = [i \in OpIds |-> StepOf(CHOOSE o \in OpIds : epoch[o] = i, policy, i - 1)]
    BY DEF sched_build_impl
  <2>2. ASSUME NEW i \in OpIds PROVE plan'[i].op \in OpIds /\ epoch[plan'[i].op] = i
    <3>1. PICK q : q = (CHOOSE o \in OpIds : epoch[o] = i)
      OBVIOUS
    <3>2. q \in OpIds /\ epoch[q] = i
      BY <1>2, <3>1, EpochsOnto, Zenon
    <3>3. plan'[i] = StepOf(q, policy, i - 1)
      BY <2>1, <3>1
    <3>4. plan'[i].op = q
      BY <3>3 DEF StepOf
    <3>5. QED
      BY <3>2, <3>4
  <2>3. OpIds = 1..Len(ops) /\ Len(ops) \in Nat
    BY <1>2, OpTypes
  <2>4. DOMAIN plan' = OpIds
    BY <2>1
  <2>5. Len(plan') = Len(ops)
    <3>1. PICK n \in Nat : n = Len(ops)
      BY <2>3
    <3>2. plan' \in [1..n -> {plan'[i] : i \in 1..n}]
      BY <2>1, <2>3, <3>1
    <3>3. plan' \in Seq({plan'[i] : i \in 1..n})
      BY <3>2
    <3>4. QED
      BY <2>3, <2>4, <3>1, <3>3
  <2>6. OpIds' = OpIds
    BY <1>1, SameRegion
  <2>7. QED
    BY <1>1, <2>2, <2>4, <2>5, <2>6 DEF Stepped
<1>5. Loaded'
  <2>1. PICK old : old = [c \in 0..(mem_plan.region - 1) |-> Holds(0, 0)]
    OBVIOUS
  <2>2. DOMAIN old = 0..(mem_plan.region - 1) /\ region' = Written(Sources, 0, old)
    BY <1>1, <2>1
  <2>3. DOMAIN region' = 0..(mem_plan.region - 1)
    BY <2>2, WrittenCell
  <2>4. \A v \in Sources : \A c \in Cells(v) : region'[c] = Holds(v, 0)
    BY <1>2, <2>2, SourceWrites DEF OfSources, OfRegion
  <2>5. QED
    BY <1>1, <2>3, <2>4, SameRegion DEF Loaded, Holds
<1>6. QED
  BY <1>1, <1>3, <1>4, <1>5 DEF RunInv

\* A run begins: the sources are in place, and nothing else is needed yet.
LEMMA StartStep ==
  ASSUME LayoutOk, RunInv, NEW gate \in BOOLEAN, StartRun(gate)
  PROVE  RunInv'
<1>1. /\ stage = "ready" /\ stage' \in {"ready", "running"} /\ step' = 1 /\ run' = run + 1
      /\ UNCHANGED <<values, ops, epoch, persistent, mem_plan, plan>>
      /\ region' = Written(Rewritten, run + 1, region)
      /\ stage' = "ready" => ~pai_kernel_plan_check
  BY DEF StartRun
<1>2. GraphOk /\ epoch \in Orders /\ CellsApart /\ Stepped /\ Loaded
  BY <1>1 DEF LayoutOk, SortOk, SortExact, LayoutInv, RunInv
<1>3. /\ \A v : Cells(v)' = Cells(v) /\ Producer(v)' = Producer(v)
      /\ ValueIds' = ValueIds /\ OpIds' = OpIds /\ Sources' = Sources /\ Rewritten' = Rewritten
  BY <1>1, SameRegion
<1>4. Rewritten \in SUBSET Sources /\ DOMAIN region = 0..(mem_plan.region - 1)
  BY <1>2 DEF Rewritten, Loaded
<1>5. ASSUME Sized, NEW v \in Sources, NEW c \in Cells(v)
      PROVE  region'[c] = IF v \in Rewritten THEN Holds(v, run + 1) ELSE Holds(v, 0)
  <2>1. region'[c] = IF v \in Rewritten THEN Holds(v, run + 1) ELSE region[c]
    <3>1. PICK r, old : r = run + 1 /\ old = region
      OBVIOUS
    <3>2. OfRegion(old) /\ region' = Written(Rewritten, r, old)
      BY <1>1, <1>4, <3>1 DEF OfRegion
    <3>3. PICK V : V = Rewritten /\ OfSources(V)
      BY <1>4 DEF OfSources
    <3>4. (v \in V => Written(V, r, old)[c] = Holds(v, r)) /\ (v \notin V => Written(V, r, old)[c] = old[c])
      BY <1>2, <3>2, <3>3, SourceWrites
    <3>5. QED
      BY <3>1, <3>2, <3>3, <3>4
  <2>2. v \notin Rewritten => region[c] = Holds(v, 0)
    BY <1>2, <1>5 DEF Loaded
  <2>3. QED
    BY <2>1, <2>2
<1>6. Stepped'
  BY <1>1, <1>2, <1>3 DEF Stepped
<1>7. Loaded'
  <2>1. DOMAIN region' = DOMAIN region
    BY <1>1, WrittenCell
  <2>2. Sized => \A v \in Sources \ Rewritten : \A c \in Cells(v) : region'[c] = Holds(v, 0)
    BY <1>5
  <2>3. QED
    BY <1>1, <1>3, <1>4, <2>1, <2>2, SameSized DEF Loaded, Holds
<1>8. OpIds = 1..Len(ops) /\ Len(ops) \in Nat /\ Len(plan) = Len(ops) /\ DOMAIN plan = OpIds
  BY <1>2, OpTypes DEF Stepped
<1>9. ASSUME stage' = "ready", step' = Len(plan') + 1 PROVE FALSE
  <2>1. DOMAIN plan # {}
    BY <1>1, <1>9 DEF pai_kernel_plan_check
  <2>2. Len(plan) >= 1
    BY <1>8, <2>1
  <2>3. QED
    BY <1>1, <1>8, <1>9, <2>2
<1>10. ASSUME Sized', NEW v \in ValueIds', Needed(v, step)' PROVE Intact(v)'
  <2>1. v \in ValueIds /\ (Producer(v) = 0 \/ epoch[Producer(v)] < 1)
    BY <1>1, <1>3, <1>10 DEF Needed
  <2>2. v \in Sources
    <3>1. SUFFICES ASSUME Producer(v) # 0 PROVE FALSE
      BY <2>1 DEF Sources
    <3>2. epoch[Producer(v)] \in OpIds
      BY <1>2, <2>1, <3>1, Lifetimes
    <3>3. QED
      BY <1>8, <2>1, <3>1, <3>2
  <2>3. RunOf(v)' = IF v \in Rewritten THEN run + 1 ELSE 0
    BY <1>1, <1>3, <2>2 DEF RunOf
  <2>4. \A c \in Cells(v) : region'[c] = Holds(v, RunOf(v)')
    BY <1>1, <1>5, <1>10, <2>2, <2>3, SameSized
  <2>5. QED
    BY <1>3, <2>4 DEF Intact, Holds
<1>11. step' \in 1..(Len(ops') + 1)
  BY <1>1, <1>8
<1>12. QED
  BY <1>1, <1>6, <1>7, <1>9, <1>10, <1>11 DEF RunInv

\* The op of a step: its place in the order and what it writes.
LEMMA StepOp ==
  ASSUME GraphOk, epoch \in Orders, CellsApart, Stepped, NEW s \in OpIds
  PROVE  /\ plan[s].op \in OpIds /\ epoch[plan[s].op] = s
         /\ ops[plan[s].op].out \in ValueIds
         /\ Producer(ops[plan[s].op].out) = plan[s].op
         /\ Producer(ops[plan[s].op].out) # 0
         /\ Start(ops[plan[s].op].out) = s - 1
<1>1. PICK o : o = plan[s].op
  OBVIOUS
<1>2. o \in OpIds /\ epoch[o] = s
  BY <1>1 DEF Stepped
<1>3. PICK w : w = ops[o].out
  OBVIOUS
<1>4. w \in ValueIds /\ Producer(w) = o /\ OpIds = 1..Len(ops) /\ Len(ops) \in Nat
  BY <1>2, <1>3, OpTypes
<1>5. o # 0
  BY <1>2, <1>4
<1>6. Start(w) = s - 1
  BY <1>2, <1>4, <1>5, Lifetimes
<1>7. QED
  BY <1>1, <1>2, <1>3, <1>4, <1>5, <1>6

\* What is needed at a step does not share cells with what the step writes,
\* and was there before it.
LEMMA NeededApart ==
  ASSUME GraphOk, epoch \in Orders, CellsApart, Stepped, NEW s \in OpIds,
         NEW v \in ValueIds, v # ops[plan[s].op].out,
         Producer(v) = 0 \/ epoch[Producer(v)] <= s, Keep(v) \/ s <= EndOf(v)
  PROVE  Needed(v, s) /\ Cells(v) \cap Cells(ops[plan[s].op].out) = {}
<1>1. PICK o : o = plan[s].op
  OBVIOUS
<1>2. PICK w : w = ops[o].out
  OBVIOUS
<1>3. /\ o \in OpIds /\ epoch[o] = s /\ w \in ValueIds /\ v # w
      /\ Producer(w) = o /\ Start(w) = s - 1
  BY <1>1, <1>2, StepOp
<1>4. OpIds = 1..Len(ops) /\ Len(ops) \in Nat /\ s \in Nat /\ s >= 1 /\ s <= Len(ops)
  BY OpTypes
<1>5. PICK a, b, e, f : a = Start(v) /\ b = EndOf(v) /\ e = Start(w) /\ f = EndOf(w)
  OBVIOUS
<1>6. a \in Nat /\ b \in Nat /\ e \in Nat /\ f \in Nat /\ e < f /\ e = s - 1
  BY <1>3, <1>5, Lifetimes DEF CellsApart
<1>7. s <= b
  <2>1. Keep(v) => b = Len(ops)
    BY <1>5, Lifetimes
  <2>2. QED
    BY <1>4, <1>5, <2>1
<1>8. (Producer(v) = 0 \/ epoch[Producer(v)] < s) /\ a <= e
  <2>1. CASE Producer(v) = 0
    <3>1. a = 0
      BY <1>5, <2>1, Lifetimes
    <3>2. QED
      BY <1>6, <2>1, <3>1
  <2>2. CASE Producer(v) # 0
    <3>1. PICK q : q = Producer(v)
      OBVIOUS
    <3>2. q \in OpIds /\ q # 0 /\ ops[q].out = v
      BY <2>2, <3>1, OpTypes DEF GraphOk
    <3>3. q # o
      BY <1>2, <1>3, <3>2
    <3>4. epoch[q] # s
      BY <1>3, <3>2, <3>3 DEF Orders
    <3>5. PICK n \in Nat : n = epoch[q] /\ n <= s /\ n # s /\ a = n - 1
      BY <1>4, <1>5, <2>2, <3>1, <3>2, <3>4, Lifetimes
    <3>6. n < s /\ a <= e
      BY <1>4, <1>6, <3>5
    <3>7. QED
      BY <3>1, <3>5, <3>6
  <2>3. QED
    BY <2>1, <2>2
<1>9. a < f /\ e < b
  BY <1>4, <1>6, <1>7, <1>8
<1>10. Cells(v) \cap Cells(w) = {}
  BY <1>3, <1>5, <1>9 DEF CellsApart
<1>11. Needed(v, s)
  BY <1>5, <1>7, <1>8 DEF Needed
<1>12. QED
  BY <1>1, <1>2, <1>10, <1>11

\* What a step writes is its output, when a convert has sizes that agree.
LEMMA OpCellsSized ==
  ASSUME Sized, NEW o \in OpIds, ~ManyInputs(ops[o])
  PROVE  OpCells(ops[o]) = Cells(ops[o].out)
<1>1. CASE ops[o].kind = "convert"
  <2>1. values[ops[o].ins[1]].size = values[ops[o].out].size
    BY <1>1 DEF Sized, ManyInputs
  <2>2. QED
    BY <1>1, <2>1 DEF OpCells, Cells
<1>2. CASE ops[o].kind # "convert"
  BY <1>2 DEF OpCells, Cells
<1>3. QED
  BY <1>1, <1>2

\* A write of one value, seen from that value and from one that shares no cell
\* with it.
LEMMA OneWrite ==
  ASSUME CellsApart, NEW w \in ValueIds, NEW r, NEW old, OfRegion(old),
         NEW v \in ValueIds, NEW c \in Cells(v)
  PROVE  /\ v = w => Put(Cells(w), w, r, old)[c] = Holds(w, r)
         /\ Cells(v) \cap Cells(w) = {} => Put(Cells(w), w, r, old)[c] = old[c]
<1>1. c \in DOMAIN old
  BY DEF CellsApart, OfRegion
<1>2. Put(Cells(w), w, r, old)[c] = IF c \in Cells(w) THEN Holds(w, r) ELSE old[c]
  BY <1>1 DEF Put
<1>3. QED
  BY <1>2

\* One step of a run: what it writes is fresh, and what is needed later stays.
LEMMA ExecuteOk ==
  ASSUME LayoutOk, RunInv, ExecuteStep
  PROVE  RunInv'
<1>1. /\ stage = "running" /\ step <= Len(plan)
      /\ UNCHANGED <<values, ops, epoch, persistent, mem_plan, plan, run, gated>>
      /\ \/ /\ region' = Put(OpCells(Op), Op.out, run, region) /\ ~ManyInputs(Op)
            /\ step' = step + 1 /\ UNCHANGED stage
         \/ stage' = "ready" /\ UNCHANGED <<region, step>>
  BY DEF ExecuteStep, run_op
<1>2. GraphOk /\ epoch \in Orders /\ CellsApart /\ Stepped /\ Loaded
  BY <1>1 DEF LayoutOk, SortOk, SortExact, LayoutInv, RunInv
<1>3. /\ \A v : Cells(v)' = Cells(v) /\ Producer(v)' = Producer(v)
      /\ \A v : Keep(v)' = Keep(v) /\ EndOf(v)' = EndOf(v)
      /\ ValueIds' = ValueIds /\ OpIds' = OpIds /\ Sources' = Sources /\ Rewritten' = Rewritten
  BY <1>1, SameRegion
<1>4. /\ OpIds = 1..Len(ops) /\ Len(ops) \in Nat /\ Len(plan) = Len(ops)
      /\ step \in 1..(Len(ops) + 1)
  BY <1>1, <1>2, OpTypes DEF Stepped, RunInv
<1>5. PICK s \in OpIds : s = step
  BY <1>1, <1>4
<1>6. Sized => \A v \in ValueIds : Needed(v, s) => Intact(v)
  BY <1>1, <1>5 DEF RunInv
<1>7. Stepped'
  BY <1>1, <1>2, <1>3 DEF Stepped
<1>8. \A v : RunOf(v)' = RunOf(v)
  BY <1>1, <1>3 DEF RunOf
<1>9. CASE stage' = "ready" /\ UNCHANGED <<region, step>>
  <2>1. Loaded'
    BY <1>1, <1>2, <1>3, <1>9, SameSized DEF Loaded, Holds
  <2>2. ~(step' = Len(plan') + 1)
    BY <1>1, <1>4, <1>9
  <2>3. QED
    BY <1>7, <1>9, <2>1, <2>2 DEF RunInv
<1>10. CASE /\ region' = Put(OpCells(Op), Op.out, run, region) /\ ~ManyInputs(Op)
            /\ step' = step + 1 /\ UNCHANGED stage
  <2>1. PICK w, old, r : w = ops[plan[s].op].out /\ old = region /\ r = run
    OBVIOUS
  <2>2. /\ w \in ValueIds /\ Producer(w) # 0 /\ OfRegion(old)
        /\ region' = Put(OpCells(Op), w, r, old)
        /\ Sized => region' = Put(Cells(w), w, r, old)
    <3>1. PICK o : o = plan[s].op /\ o \in OpIds /\ Op = ops[o]
      BY <1>2, <1>5, StepOp DEF Op
    <3>2. Sized => OpCells(Op) = Cells(w)
      BY <1>10, <2>1, <3>1, OpCellsSized
    <3>3. QED
      BY <1>2, <1>5, <1>10, <2>1, <3>1, <3>2, StepOp DEF OfRegion, Loaded
  <2>3. ASSUME Sized, NEW v \in ValueIds, Needed(v, s + 1)
        PROVE  \A c \in Cells(v) : region'[c] = Holds(v, RunOf(v))
    <3>1. CASE v = w
      <4>1. RunOf(v) = r
        BY <2>1, <2>2, <3>1 DEF RunOf, Sources
      <4>2. \A c \in Cells(v) : Put(Cells(w), w, r, old)[c] = Holds(w, r)
        BY <1>2, <2>2, <3>1, OneWrite
      <4>3. QED
        BY <2>2, <2>3, <3>1, <4>1, <4>2
    <3>2. CASE v # w
      <4>1. s \in Nat
        BY <1>4
      <4>2. Producer(v) = 0 \/ epoch[Producer(v)] <= s
        <5>1. SUFFICES ASSUME Producer(v) # 0 PROVE epoch[Producer(v)] <= s
          OBVIOUS
        <5>2. epoch[Producer(v)] \in OpIds /\ epoch[Producer(v)] < s + 1
          BY <1>2, <2>3, <5>1, Lifetimes DEF Needed
        <5>3. QED
          BY <1>4, <4>1, <5>2
      <4>3. Keep(v) \/ s <= EndOf(v)
        <5>1. EndOf(v) \in Nat
          BY <1>2, Lifetimes
        <5>2. QED
          BY <2>3, <4>1, <5>1 DEF Needed
      <4>4. Needed(v, s) /\ Cells(v) \cap Cells(w) = {}
        BY <1>2, <2>1, <3>2, <4>2, <4>3, NeededApart
      <4>5. \A c \in Cells(v) : old[c] = Holds(v, RunOf(v))
        BY <1>6, <2>1, <2>3, <4>4 DEF Intact
      <4>6. \A c \in Cells(v) : Put(Cells(w), w, r, old)[c] = old[c]
        BY <1>2, <2>2, <4>4, OneWrite
      <4>7. QED
        BY <2>2, <2>3, <4>5, <4>6
    <3>3. QED
      BY <3>1, <3>2
  <2>4. ASSUME Sized', NEW v \in ValueIds', Needed(v, step)' PROVE Intact(v)'
    <3>1. v \in ValueIds /\ Needed(v, s + 1)
      BY <1>1, <1>3, <1>5, <1>10, <2>4 DEF Needed
    <3>2. \A c \in Cells(v) : region'[c] = Holds(v, RunOf(v))
      BY <1>1, <2>3, <2>4, <3>1, SameSized
    <3>3. QED
      BY <1>3, <1>8, <3>2 DEF Intact, Holds
  <2>5. Loaded'
    <3>1. ASSUME Sized, NEW v \in Sources \ Rewritten
          PROVE  \A c \in Cells(v) : region'[c] = Holds(v, 0)
      <4>1. v \in ValueIds /\ Producer(v) = 0 /\ persistent /\ RunOf(v) = 0
        BY <3>1 DEF Sources, Rewritten, RunOf
      <4>2. Keep(v)
        BY <3>1, <4>1 DEF Keep
      <4>3. Needed(v, s + 1)
        BY <4>1, <4>2 DEF Needed
      <4>4. QED
        BY <2>3, <3>1, <4>1, <4>3
    <3>2. DOMAIN region' = 0..(mem_plan.region - 1)
      BY <2>2 DEF OfRegion, Put
    <3>3. QED
      BY <1>1, <1>3, <3>1, <3>2, SameSized DEF Loaded, Holds
  <2>6. step' \in 1..(Len(ops') + 1)
    BY <1>1, <1>4, <1>10
  <2>7. QED
    BY <1>1, <1>7, <1>10, <2>4, <2>5, <2>6 DEF RunInv
<1>11. QED
  BY <1>1, <1>9, <1>10

\* The run is over: everything stays as the last step left it.
LEMMA RunFrame ==
  ASSUME LayoutOk, RunInv,
         UNCHANGED <<values, ops, epoch, persistent, mem_plan, plan, region, run, step, gated>>,
         stage' = stage \/ (stage = "running" /\ stage' = "ready")
  PROVE  RunInv'
<1>1. /\ \A v : Cells(v)' = Cells(v) /\ Producer(v)' = Producer(v)
      /\ \A v : Keep(v)' = Keep(v) /\ EndOf(v)' = EndOf(v)
      /\ ValueIds' = ValueIds /\ OpIds' = OpIds /\ Sources' = Sources /\ Rewritten' = Rewritten
  BY SameRegion
<1>2. \A v : RunOf(v)' = RunOf(v)
  BY <1>1 DEF RunOf
<1>3. \A v : Intact(v)' = Intact(v)
  BY <1>1, <1>2 DEF Intact, Holds
<1>4. \A v : Needed(v, step)' = Needed(v, step)
  BY <1>1 DEF Needed
<1>5. Stepped' = Stepped
  BY <1>1 DEF Stepped
<1>6. Loaded' = Loaded /\ Sized' = Sized
  BY <1>1, SameSized DEF Loaded, Holds
<1>7. QED
  BY <1>1, <1>3, <1>4, <1>5, <1>6 DEF RunInv

\* The layout and the runs together, step by step.
RunOk == LayoutOk /\ RunInv

\* So do the runs.
LEMMA NextRun == RunOk /\ [GNext]_<<planner, gvars>> => RunOk'
<1> SUFFICES ASSUME LayoutOk, RunInv, [GNext]_<<planner, gvars>> PROVE RunOk'
  BY DEF RunOk
<1>1. LayoutOk'
  BY NextLayout
<1>2. CASE RunInv'
  BY <1>1, <1>2 DEF RunOk
<1>3. CASE sched_build_impl
  BY <1>2, <1>3, BuildStep
<1>4. CASE \E gate \in BOOLEAN : StartRun(gate)
  BY <1>2, <1>4, StartStep
<1>5. CASE ExecuteStep
  BY <1>2, <1>5, ExecuteOk
<1>6. CASE ExecuteEnds
  BY <1>2, <1>6, RunFrame DEF ExecuteEnds
<1>7. CASE UNCHANGED <<planner, gvars>>
  BY <1>2, <1>7, RunFrame DEF gvars
<1>8. CASE stage \notin {"ready", "running"} /\ stage' \notin {"ready", "running"}
           /\ UNCHANGED <<run, gated>>
  BY <1>2, <1>8 DEF RunInv
<1>9. CASE pai_graph_add_value \/ (\E v \in ValueIds : pai_graph_set_output(v))
            \/ \E kind \in Kinds[Len(ops) + 1], ins \in InputLists, out \in ValueIds :
                 pai_graph_add_op(kind, ins, out)
  BY <1>8, <1>9 DEF pai_graph_add_value, pai_graph_set_output, pai_graph_add_op
<1>10. CASE SortGraph \/ SortSeed \/ SortScan \/ \E p \in BOOLEAN : SortEnds(p)
  BY <1>8, <1>10 DEF SortGraph, SortSeed, SortScan, SortEnds
<1>11. CASE AddToPlanner \/ PlannerRuns \/ pai_graph_memory_plan
  BY <1>8, <1>11 DEF AddToPlanner, PlannerRuns, pai_graph_memory_plan, gvars
<1>12. QED
  BY <1>3, <1>4, <1>5, <1>6, <1>7, <1>9, <1>10, <1>11 DEF GNext

\* The first states.
LEMMA InitRun == GInit => RunOk
BY InitLayout DEF GInit, RunOk, RunInv

\* What a step reads is needed, so it is in place and not what it writes.
LEMMA RunReadsFresh == RunOk => ReadsFresh
<1> SUFFICES ASSUME LayoutOk, RunInv, Sized, stage = "running", step <= Len(plan),
                    NEW v \in ToSet(Op.ins)
             PROVE  Intact(v) /\ ("ok" \in run_op(Op) => Cells(v) \cap OpCells(Op) = {})
  BY DEF RunOk, ReadsFresh
<1>1. GraphOk /\ epoch \in Orders /\ CellsApart /\ Stepped
  BY DEF LayoutOk, SortOk, SortExact, LayoutInv, RunInv
<1>2. /\ OpIds = 1..Len(ops) /\ Len(ops) \in Nat /\ Len(plan) = Len(ops)
      /\ step \in 1..(Len(ops) + 1)
  BY <1>1, OpTypes DEF Stepped, RunInv
<1>3. PICK s \in OpIds : s = step
  BY <1>2
<1>4. PICK o : o = plan[s].op
  OBVIOUS
<1>5. o \in OpIds /\ epoch[o] = s /\ Op = ops[o]
  BY <1>1, <1>3, <1>4, StepOp DEF Op
<1>6. PICK j \in DOMAIN ops[o].ins : ops[o].ins[j] = v
  BY <1>5 DEF ToSet
<1>7. v \in ValueIds /\ v # ops[o].out
  BY <1>1, <1>5, <1>6, OpTypes DEF GraphOk
<1>8. s \in Nat /\ s <= EndOf(v)
  BY <1>1, <1>2, <1>5, <1>6, <1>7, Lifetimes
<1>9. Producer(v) = 0 \/ epoch[Producer(v)] <= s
  <2>1. SUFFICES ASSUME Producer(v) # 0 PROVE epoch[Producer(v)] <= s
    OBVIOUS
  <2>2. v \in ToSet(ops[o].ins)
    BY <1>5
  <2>3. epoch[Producer(v)] < epoch[o]
    BY <1>1, <1>5, <2>1, <2>2 DEF Orders
  <2>4. epoch[Producer(v)] \in OpIds
    BY <1>1, <1>7, <2>1, Lifetimes
  <2>5. QED
    BY <1>2, <1>5, <1>8, <2>3, <2>4
<1>10. Needed(v, s) /\ Cells(v) \cap Cells(ops[o].out) = {}
  BY <1>1, <1>4, <1>7, <1>8, <1>9, NeededApart
<1>11. Intact(v)
  BY <1>3, <1>7, <1>10 DEF RunInv
<1>12. "ok" \in run_op(Op) => OpCells(Op) = Cells(ops[o].out)
  BY <1>5, OpCellsSized DEF run_op
<1>13. QED
  BY <1>10, <1>11, <1>12

\* What is kept is needed after the last step.
LEMMA RunResultsKept == RunOk => ResultsKept
<1> SUFFICES ASSUME LayoutOk, RunInv, Sized, stage = "ready", run > 0, step = Len(plan) + 1,
                    NEW v \in ValueIds, Keep(v)
             PROVE  Intact(v)
  BY DEF RunOk, ResultsKept, Kept, Keep
<1>1. GraphOk /\ epoch \in Orders /\ Stepped
  BY DEF LayoutOk, SortOk, SortExact, RunInv
<1>2. OpIds = 1..Len(ops) /\ Len(ops) \in Nat /\ step = Len(ops) + 1
  BY <1>1, OpTypes DEF Stepped
<1>3. Producer(v) = 0 \/ epoch[Producer(v)] < step
  <2>1. SUFFICES ASSUME Producer(v) # 0 PROVE epoch[Producer(v)] < step
    OBVIOUS
  <2>2. epoch[Producer(v)] \in OpIds
    BY <1>1, <2>1, Lifetimes
  <2>3. QED
    BY <1>2, <2>2
<1>4. Needed(v, step)
  BY <1>3 DEF Needed
<1>5. QED
  BY <1>4 DEF RunInv

\* A step reads what its producers wrote in this run or what was loaded, and
\* does not overwrite it while it reads, in every graph whose converts have
\* outputs of their input's size, with every order, layout and number of
\* runs (pai_graph_topo_sort, pai_graph_memory_plan, pai_sched_execute).
THEOREM RunsReadFresh == GSpec => []ReadsFresh
<1>1. GInit => RunOk
  BY InitRun
<1>2. RunOk /\ [GNext]_<<planner, gvars>> => RunOk'
  BY NextRun
<1>3. RunOk => ReadsFresh
  BY RunReadsFresh
<1>4. QED
  BY <1>1, <1>2, <1>3, PTL DEF GSpec

\* After a complete run of a graph whose converts have outputs of their input's
\* size, the outputs can be read, and the parameters of a persistent plan are
\* as they were loaded (pai_graph_memory_plan_persistent,
\* pai_sched_execute).
THEOREM RunsKeepResults == GSpec => []ResultsKept
<1>1. GInit => RunOk
  BY InitRun
<1>2. RunOk /\ [GNext]_<<planner, gvars>> => RunOk'
  BY NextRun
<1>3. RunOk => ResultsKept
  BY RunResultsKept
<1>4. QED
  BY <1>1, <1>2, <1>3, PTL DEF GSpec

\* The kernel table and the failures of a run, step by step.
GateOk == RunOk /\ GateInv /\ GateSound

\* And the kernel table.
LEMMA NextGate == GateOk /\ [GNext]_<<planner, gvars>> => GateOk'
<1> SUFFICES ASSUME RunOk, GateInv, GateSound, [GNext]_<<planner, gvars>> PROVE GateOk'
  BY DEF GateOk
<1>1. RunOk' /\ RunInv /\ LayoutOk
  BY NextRun DEF RunOk
<1>2. CASE GateInv' /\ GateSound'
  BY <1>1, <1>2 DEF GateOk
<1>3. CASE stage' \notin {"ready", "running"}
  BY <1>2, <1>3 DEF GateInv, GateSound
<1>4. CASE sched_build_impl
  <2>1. stage' = "ready" /\ gated' = FALSE
    BY <1>1, <1>4 DEF sched_build_impl, RunInv
  <2>2. QED
    BY <1>2, <2>1 DEF GateInv, GateSound
<1>5. CASE \E gate \in BOOLEAN : StartRun(gate)
  <2>1. PICK gate \in BOOLEAN : StartRun(gate)
    BY <1>5
  <2>2. UNCHANGED <<plan, ops>> /\ step' = 1 /\ gated' = gate
    BY <2>1 DEF StartRun
  <2>3. pai_kernel_plan_check' = pai_kernel_plan_check
    BY <2>2 DEF pai_kernel_plan_check, pai_kernel_select
  <2>4. GateInv'
    BY <2>1, <2>2, <2>3 DEF StartRun, GateInv
  <2>5. GateSound'
    BY <2>2 DEF GateSound
  <2>6. QED
    BY <1>2, <2>4, <2>5
<1>6. CASE ExecuteStep
  <2>1. stage = "running" /\ step <= Len(plan) /\ UNCHANGED <<plan, ops, values, gated>>
    BY <1>6 DEF ExecuteStep
  <2>2. PICK st \in run_op(Op) :
          /\ status' = st
          /\ st = "ok" => UNCHANGED stage
          /\ st # "ok" => stage' = "ready"
    BY <1>6 DEF ExecuteStep
  <2>3. pai_kernel_plan_check' = pai_kernel_plan_check
    BY <2>1 DEF pai_kernel_plan_check, pai_kernel_select
  <2>4. GateInv'
    BY <2>1, <2>2, <2>3 DEF GateInv
  <2>5. ASSUME gated, st = "unsupported" PROVE NotF32(Op) \/ ManyInputs(Op)
    <3>1. GraphOk /\ epoch \in Orders /\ CellsApart /\ Stepped
      BY <1>1, <2>1 DEF LayoutOk, SortOk, SortExact, LayoutInv, RunInv
    <3>2. /\ OpIds = 1..Len(ops) /\ Len(ops) \in Nat /\ Len(plan) = Len(ops)
          /\ step \in 1..(Len(ops) + 1) /\ DOMAIN plan = OpIds
      BY <1>1, <2>1, <3>1, OpTypes DEF Stepped, RunInv
    <3>3. PICK s \in OpIds : s = step
      BY <2>1, <3>2
    <3>4. PICK o : o = plan[s].op
      OBVIOUS
    <3>5. o \in OpIds /\ Op = ops[o]
      BY <3>1, <3>3, <3>4, StepOp DEF Op
    <3>6. pai_kernel_select(o)
      BY <2>1, <2>5, <3>2, <3>4 DEF GateInv, pai_kernel_plan_check
    <3>7. ops[o].kind # "custom"
      BY <3>6 DEF pai_kernel_select, op_registry_name
    <3>8. QED
      BY <2>5, <3>5, <3>7 DEF run_op
  <2>6. GateSound'
    <3>1. st # "ok" => UNCHANGED step
      BY <1>6, <2>2 DEF ExecuteStep
    <3>2. SUFFICES ASSUME gated, st = "unsupported", stage' = "ready"
                   PROVE  NotF32(Op)' \/ ManyInputs(Op)'
      BY <2>1, <2>2 DEF GateSound
    <3>3. Op' = Op
      BY <2>1, <3>1, <3>2 DEF Op
    <3>4. NotF32(Op)' = NotF32(Op) /\ ManyInputs(Op)' = ManyInputs(Op)
      BY <2>1, <3>3 DEF NotF32, ManyInputs
    <3>5. QED
      BY <2>5, <3>2, <3>4
  <2>7. QED
    BY <1>2, <2>4, <2>6
<1>7. CASE ExecuteEnds
  <2>1. stage' = "ready" /\ status' = "ok"
    BY <1>7 DEF ExecuteEnds, GateInv
  <2>2. QED
    BY <1>2, <2>1 DEF GateInv, GateSound
<1>8. CASE UNCHANGED <<planner, gvars>>
  <2>1. UNCHANGED <<stage, gated, status, step, plan, ops, values>>
    BY <1>8 DEF gvars
  <2>2. pai_kernel_plan_check' = pai_kernel_plan_check
    BY <2>1 DEF pai_kernel_plan_check, pai_kernel_select
  <2>3. NotF32(Op)' = NotF32(Op) /\ ManyInputs(Op)' = ManyInputs(Op)
    BY <2>1 DEF NotF32, ManyInputs, Op
  <2>4. QED
    BY <1>2, <2>1, <2>2, <2>3 DEF GateInv, GateSound
<1>9. CASE pai_graph_add_value \/ (\E v \in ValueIds : pai_graph_set_output(v))
            \/ \E kind \in Kinds[Len(ops) + 1], ins \in InputLists, out \in ValueIds :
                 pai_graph_add_op(kind, ins, out)
  BY <1>3, <1>9 DEF pai_graph_add_value, pai_graph_set_output, pai_graph_add_op
<1>10. CASE SortGraph \/ SortSeed \/ SortScan \/ \E p \in BOOLEAN : SortEnds(p)
  BY <1>3, <1>10 DEF SortGraph, SortSeed, SortScan, SortEnds
<1>11. CASE AddToPlanner \/ PlannerRuns \/ pai_graph_memory_plan
  BY <1>3, <1>11 DEF AddToPlanner, PlannerRuns, pai_graph_memory_plan, gvars
<1>12. QED
  BY <1>4, <1>5, <1>6, <1>7, <1>8, <1>9, <1>10, <1>11 DEF GNext

\* A run that passed the kernel table is stopped half way only by an element
\* type or a convert of several inputs, never by an op without a kernel (pai_kernel_plan_check,
\* pai_sched_execute_vtable).
THEOREM KernelGateIsSound == GSpec => []GateSound
<1>1. GInit => GateOk
  BY InitRun DEF GInit, GateOk, GateInv, GateSound
<1>2. GateOk /\ [GNext]_<<planner, gvars>> => GateOk'
  BY NextGate
<1>3. GateOk => GateSound
  BY DEF GateOk
<1>4. QED
  BY <1>1, <1>2, <1>3, PTL DEF GSpec

=============================================================================
