--------------------------- MODULE KvCache_proofs ---------------------------
(***************************************************************************)
(* The storage of the KV cache, from the bottom up.                        *)
(*                                                                         *)
(* The buddy suballocator is exact for every region size, smallest block,  *)
(* header and set of requests: blocks tile the region, headers tell the    *)
(* truth, a request is refused only where no room is, and a release done   *)
(* twice is recognised.  The order of the argument: arithmetic of aligned  *)
(* spans; tilings of the region, and how exchanging some blocks for others *)
(* that cover the same bytes keeps one; then splitting and merging as such *)
(* exchanges.                                                              *)
(*                                                                         *)
(* The KV cache on it hands out sound storage and reports only real prefix *)
(* hits, for every set of reservations and of hashes.  It never releases a *)
(* block, it sets the suballocator up anew over the region as it is: of    *)
(* what holds for the suballocator it needs the tiling and the exact       *)
(* headers (BuddyCore), which survive stale headers.                       *)
(***************************************************************************)
EXTENDS KvCache, TLAPS, FiniteSetTheorems, WellFoundedInduction

-----------------------------------------------------------------------------
(* Arithmetic.                                                             *)

\* A nonempty set of natural numbers has a least element.
LEMMA LeastNat ==
  ASSUME NEW T \in SUBSET Nat, T # {}
  PROVE  \E x \in T : \A y \in T : x <= y
<1>1. PICK x \in T : \A y \in T : ~(<<y, x>> \in OpToRel(<, Nat))
  BY NatLessThanWellFounded, WFMin
<1>2. OpToRel(<, Nat) = {ss \in Nat \X Nat : ss[1] < ss[2]}
  BY Zenon DEF OpToRel
<1>3. ASSUME NEW a \in Nat, NEW y \in Nat, y < a
      PROVE  <<y, a>> \in {ss \in Nat \X Nat : ss[1] < ss[2]}
  BY <1>3
<1>4. \A y \in T : ~(y < x)
  BY <1>1, <1>2, <1>3
<1>5. QED
  BY <1>4

\* One below a bound has a greatest element.
LEMMA GreatestNat ==
  ASSUME NEW T \in SUBSET Nat, T # {}, NEW n \in Nat, \A x \in T : x <= n
  PROVE  \E x \in T : \A y \in T : y <= x
<1> DEFINE U == {n - x : x \in T}
<1>1. U \in SUBSET Nat /\ U # {}
  <2>1. \A x \in T : n - x \in Nat
    OBVIOUS
  <2>2. QED
    BY <2>1
<1>2. PICK u \in U : \A v \in U : u <= v
  BY <1>1, LeastNat
<1>3. PICK x \in T : u = n - x
  BY <1>2
<1>4. \A y \in T : n - x <= n - y
  BY <1>2, <1>3
<1>5. QED
  BY <1>4

\* The bytes of a block of order o.
Pow(o) == 2^o

\* x is a multiple of p.
Multiple(x, p) == \E q \in Nat : x = q * p

\* Block sizes are positive, double from order to order and divide each other.
LEMMA PowLaws ==
  ASSUME NEW i \in 0..MaxOrder, NEW j \in 0..MaxOrder
  PROVE  /\ Pow(i) \in Nat \ {0}
         /\ i <= j => \E m \in Nat \ {0} : Pow(j) = m * Pow(i)
         /\ i < j => Pow(i + 1) = 2 * Pow(i) /\ 2 * Pow(i) <= Pow(j)
<1>1. MaxOrder \in Nat
  BY OrdersAssumption
<1>2. \A k \in 0..MaxOrder : Pow(k) \in Nat \ {0}
  BY PowersAssumption DEF Pow
<1>3. ASSUME NEW k \in 0..MaxOrder, NEW l \in 0..MaxOrder, k <= l
      PROVE  Pow(l) = Pow(l - k) * Pow(k) /\ l - k \in 0..MaxOrder
  <2>1. l - k \in 0..MaxOrder /\ (l - k) + k = l /\ l <= MaxOrder
    BY <1>1, <1>3
  <2>2. 2^((l - k) + k) = 2^(l - k) * 2^k
    BY <2>1, PowersAssumption
  <2>3. QED
    BY <2>1, <2>2 DEF Pow
<1>4. ASSUME i < j PROVE Pow(i + 1) = 2 * Pow(i) /\ 2 * Pow(i) <= Pow(j)
  <2>1. i + 1 \in 0..MaxOrder /\ 1 \in 0..MaxOrder /\ i + 1 <= j
        /\ (i + 1) - i = 1 /\ i <= i + 1
    BY <1>1, <1>4
  <2>2. Pow(1) = 2
    BY DEF Pow
  <2>3. Pow(i + 1) = 2 * Pow(i)
    <3>1. Pow(i + 1) = Pow((i + 1) - i) * Pow(i)
      BY <1>3, <2>1
    <3>2. QED
      BY <2>1, <2>2, <3>1
  <2>4. PICK m \in Nat \ {0} : Pow(j) = m * Pow(i + 1)
    BY <1>2, <1>3, <2>1
  <2>5. Pow(i + 1) <= m * Pow(i + 1)
    BY <1>2, <2>1
  <2>6. QED
    BY <2>3, <2>4, <2>5
<1>5. i <= j => \E m \in Nat \ {0} : Pow(j) = m * Pow(i)
  BY <1>2, <1>3
<1>6. QED
  BY <1>2, <1>4, <1>5

\* Quotient and remainder.
LEMMA DivMod ==
  ASSUME NEW x \in Nat, NEW p \in Nat \ {0}
  PROVE  /\ x \div p \in Nat /\ x % p \in Nat /\ x % p < p
         /\ x = (x \div p) * p + (x % p)
OBVIOUS

\* A remainder is the only number below p that a multiple of p leaves.
LEMMA ModUnique ==
  ASSUME NEW p \in Nat \ {0}, NEW q \in Nat, NEW r \in Nat, r < p
  PROVE  (q * p + r) % p = r
OBVIOUS

\* The multiples of p are what p divides.
LEMMA MultipleMod ==
  ASSUME NEW x \in Nat, NEW p \in Nat \ {0}
  PROVE  Multiple(x, p) <=> x % p = 0
<1>1. ASSUME NEW q \in Nat, x = q * p PROVE x % p = 0
  BY <1>1
<1>2. ASSUME x % p = 0 PROVE \E q \in Nat : x = q * p
  BY <1>2, DivMod
<1>3. QED
  BY <1>1, <1>2 DEF Multiple

\* Two aligned spans, one's size dividing the other's, that share a byte are
\* one inside the other.
LEMMA SpansNest ==
  ASSUME NEW p \in Nat \ {0}, NEW m \in Nat \ {0}, NEW x \in Nat, NEW y \in Nat,
         NEW z \in Nat, Multiple(x, p), Multiple(y, m * p),
         x <= z, z < x + p, y <= z, z < y + m * p
  PROVE  y <= x /\ x + p <= y + m * p
<1>1. PICK q \in Nat : x = q * p
  BY DEF Multiple
<1>2. PICK r \in Nat : y = r * (m * p)
  BY DEF Multiple
<1> DEFINE n == r * m
<1>3. n \in Nat /\ y = n * p
  BY <1>2
<1> HIDE DEF n
<1>4. y + m * p = (n + m) * p /\ x + p = (q + 1) * p
  BY <1>1, <1>3
<1>5. n * p < (q + 1) * p /\ q * p < (n + m) * p
  BY <1>1, <1>3, <1>4
<1>6. n < q + 1 /\ q < n + m
  BY <1>3, <1>5
<1>7. n * p <= q * p /\ (q + 1) * p <= (n + m) * p
  BY <1>3, <1>6
<1>8. QED
  BY <1>1, <1>3, <1>4, <1>7

\* A multiple of a size is one of every size that divides it.
LEMMA MultipleDown ==
  ASSUME NEW p \in Nat \ {0}, NEW m \in Nat \ {0}, NEW x \in Nat, Multiple(x, m * p)
  PROVE  Multiple(x, p) /\ Multiple(x + p, p)
<1>1. PICK r \in Nat : x = r * (m * p)
  BY DEF Multiple
<1>2. x = (r * m) * p /\ x + p = (r * m + 1) * p /\ r * m \in Nat
  BY <1>1
<1>3. QED
  BY <1>2 DEF Multiple

\* x rounded down to a multiple of p.
Floor(x, p) == x - (x % p)

\* The spans of size p and 2 * p around x: the smaller is a half of the larger.
LEMMA HalvesArith ==
  ASSUME NEW x \in Nat, NEW p \in Nat \ {0}, NEW w \in Nat \ {0}, w = 2 * p
  PROVE  /\ Floor(x, p) \in Nat /\ Multiple(Floor(x, p), p)
         /\ Floor(x, p) <= x /\ x < Floor(x, p) + p
         /\ Floor(x, w) \in Nat /\ Multiple(Floor(x, w), w)
         /\ Multiple(Floor(x, w), p) /\ Multiple(Floor(x, w) + p, p)
         /\ \/ Floor(x, p) = Floor(x, w) /\ Floor(x, p) % w = 0
            \/ Floor(x, p) = Floor(x, w) + p /\ Floor(x, p) % w = p
<1> DEFINE E == Floor(x, p)
           F == Floor(x, w)
<1> HIDE DEF E, F
<1>1. PICK d \in Nat, u \in Nat : x = d * p + u /\ u < p /\ u = x % p
  BY DivMod
<1>2. 2 * p \in Nat \ {0}
  OBVIOUS
<1>3. PICK e \in Nat, v \in Nat : x = e * (2 * p) + v /\ v < 2 * p /\ v = x % (2 * p)
  BY <1>2, DivMod
<1>4. E = d * p /\ F = e * (2 * p)
  <2>1. d * p \in Nat /\ e * (2 * p) \in Nat
    OBVIOUS
  <2>2. E = d * p
    <3>1. PICK a \in Nat : a = d * p
      BY <2>1
    <3>2. x = a + u /\ E = x - u
      BY <1>1, <3>1 DEF Floor, E, F
    <3>3. QED
      BY <3>1, <3>2
  <2>3. F = e * (2 * p)
    <3>1. PICK a \in Nat : a = e * (2 * p)
      BY <2>1
    <3>2. x = a + v /\ F = x - v
      BY <1>3, <3>1 DEF Floor, E, F
    <3>3. QED
      BY <3>1, <3>2
  <2>4. QED
    BY <2>2, <2>3
<1>5. PICK f \in Nat : f = 2 * e
  OBVIOUS
<1>6. F = f * p /\ F \in Nat /\ E \in Nat /\ F + p = (f + 1) * p
  BY <1>4, <1>5
<1>7. d = f \/ d = f + 1
  <2>1. d * p < (f + 2) * p /\ f * p < (d + 1) * p
    <3>1. d * p + u = f * p + v
      BY <1>1, <1>3, <1>4, <1>6
    <3>2. (f + 2) * p = f * p + 2 * p /\ (d + 1) * p = d * p + p
          /\ d * p \in Nat /\ f * p \in Nat
      OBVIOUS
    <3>3. u < p /\ v < 2 * p
      BY <1>1, <1>3
    <3>4. PICK a \in Nat, b \in Nat : a = d * p /\ b = f * p
      BY <3>2
    <3>5. a < b + 2 * p /\ b < a + p
      BY <3>1, <3>3, <3>4
    <3>6. QED
      BY <3>2, <3>4, <3>5
  <2>2. d < f + 2 /\ f < d + 1
    BY <2>1
  <2>3. QED
    BY <2>2
<1>8. E = F \/ E = F + p
  BY <1>4, <1>6, <1>7
<1>9. E <= x /\ x < E + p
  BY <1>1, <1>4
<1>10. Multiple(E, p) /\ Multiple(F, 2 * p) /\ Multiple(F, p) /\ Multiple(F + p, p)
  <2>1. f + 1 \in Nat
    OBVIOUS
  <2>2. QED
    BY <1>4, <1>6, <2>1 DEF Multiple
<1>11. F % (2 * p) = 0
  BY <1>2, <1>6, <1>10, MultipleMod
<1>12. (F + p) % (2 * p) = p
  <2>1. PICK dbl \in Nat \ {0} : dbl = 2 * p /\ p < dbl
    BY <1>2
  <2>2. F + p = e * dbl + p
    BY <1>4, <2>1
  <2>3. (e * dbl + p) % dbl = p
    BY <2>1, ModUnique
  <2>4. QED
    BY <2>1, <2>2, <2>3
<1>13. QED
  BY <1>6, <1>8, <1>9, <1>10, <1>11, <1>12 DEF E, F

\* The enclosing block of order o, the one of order o + 1, and the buddy: the
\* two halves of the latter.
LEMMA BuddyHalves ==
  ASSUME NEW x \in Nat, NEW o \in 0..MaxOrder, o < MaxOrder
  PROVE  /\ Enclosing(x, o) \in Nat /\ Multiple(Enclosing(x, o), Pow(o))
         /\ Enclosing(x, o) <= x /\ x < Enclosing(x, o) + Pow(o)
         /\ Enclosing(x, o + 1) \in Nat /\ Multiple(Enclosing(x, o + 1), Pow(o + 1))
         /\ BuddyOff(x, o) \in Nat /\ Multiple(BuddyOff(x, o), Pow(o))
         /\ \/ /\ Enclosing(x, o) = Enclosing(x, o + 1)
               /\ BuddyOff(x, o) = Enclosing(x, o + 1) + Pow(o)
            \/ /\ Enclosing(x, o) = Enclosing(x, o + 1) + Pow(o)
               /\ BuddyOff(x, o) = Enclosing(x, o + 1)
<1>1. Pow(o) \in Nat \ {0} /\ Pow(o + 1) = 2 * Pow(o)
  <2>1. o + 1 \in 0..MaxOrder /\ o < o + 1
    BY OrdersAssumption
  <2>2. QED
    BY <2>1, PowLaws
<1>2. PICK p \in Nat \ {0}, w \in Nat \ {0} :
        p = Pow(o) /\ w = 2 * p /\ Pow(o + 1) = w
  BY <1>1
<1>3. PICK E \in Int, F \in Int : E = Floor(x, p) /\ F = Floor(x, w)
  <2>1. x % p \in Nat /\ x % w \in Nat
    BY DivMod
  <2>2. x - (x % p) \in Int /\ x - (x % w) \in Int
    BY <2>1
  <2>3. QED
    BY <2>2 DEF Floor
<1>4. Enclosing(x, o) = E /\ Enclosing(x, o + 1) = F
  <2>1. Enclosing(x, o) = Floor(x, Pow(o)) /\ Enclosing(x, o + 1) = Floor(x, Pow(o + 1))
    BY DEF Enclosing, Pow, Floor
  <2>2. QED
    BY <1>2, <1>3, <2>1
<1>5. BuddyOff(x, o) = IF E % w = 0 THEN E + p ELSE E - p
  <2>1. BuddyOff(x, o) = IF Enclosing(x, o) % Pow(o + 1) = 0 THEN Enclosing(x, o) + Pow(o)
                         ELSE Enclosing(x, o) - Pow(o)
    BY DEF BuddyOff, Pow
  <2>2. QED
    BY <1>2, <1>4, <2>1
<1>6. /\ E \in Nat /\ Multiple(E, p) /\ E <= x /\ x < E + p
      /\ F \in Nat /\ Multiple(F, w) /\ Multiple(F, p) /\ Multiple(F + p, p)
      /\ \/ E = F /\ E % w = 0
         \/ E = F + p /\ E % w = p
  <2>1. w = 2 * p /\ E = Floor(x, p) /\ F = Floor(x, w)
    BY <1>2, <1>3
  <2>2. QED
    BY <2>1, HalvesArith
<1>7. /\ BuddyOff(x, o) \in Nat /\ Multiple(BuddyOff(x, o), p)
      /\ \/ E = F /\ BuddyOff(x, o) = F + p
         \/ E = F + p /\ BuddyOff(x, o) = F
  <2>1. CASE E = F /\ E % w = 0
    BY <1>5, <1>6, <2>1
  <2>2. CASE E = F + p /\ E % w = p
    <3>1. BuddyOff(x, o) = F
      BY <1>5, <1>6, <2>2
    <3>2. QED
      BY <1>6, <2>2, <3>1
  <2>3. QED
    BY <1>6, <2>1, <2>2
<1>8. QED
  BY <1>2, <1>4, <1>6, <1>7

-----------------------------------------------------------------------------
(* Blocks and tilings.                                                     *)

\* The bytes of a block, and a block that lies at a multiple of its size.
Within(z, b) == b.off <= z /\ z < b.off + Pow(b.order)
Aligned(b) == b \in Block /\ Multiple(b.off, Pow(b.order))
Region == 0..(Pow(MaxOrder) - 1)

\* Aligned blocks that share no byte and leave none out.
Apart(S) == \A b, c \in S, z \in Nat : Within(z, b) /\ Within(z, c) => b = c
Tile(S) ==
  /\ \A b \in S : Aligned(b)
  /\ Apart(S)
  /\ \A z \in Region : \E b \in S : Within(z, b)

\* The orders of blocks are exponents the laws above speak of.
LEMMA OrderTypes ==
  /\ MinOrder \in 0..MaxOrder /\ MaxOrder \in 0..MaxOrder /\ MaxOrder \in Nat
  /\ Orders \subseteq 0..MaxOrder
  /\ \A o \in Orders : MinOrder <= o /\ o <= MaxOrder
BY OrdersAssumption DEF Orders

\* Where blocks may begin: at the multiples of the smallest block's size.
LEMMA BasesAre ==
  ASSUME NEW x
  PROVE  x \in Bases <=> x \in Nat /\ Multiple(x, Pow(MinOrder)) /\ x < Pow(MaxOrder)
<1>1. PICK p \in Nat \ {0}, n \in Nat \ {0} :
        p = 2^MinOrder /\ n = 2^(MaxOrder - MinOrder) /\ 2^MaxOrder = n * p
  <2>1. MinOrder \in 0..MaxOrder /\ MaxOrder - MinOrder \in 0..MaxOrder
        /\ (MaxOrder - MinOrder) + MinOrder = MaxOrder /\ MaxOrder <= MaxOrder
    BY OrdersAssumption
  <2>2. 2^((MaxOrder - MinOrder) + MinOrder) = 2^(MaxOrder - MinOrder) * 2^MinOrder
    BY <2>1, PowersAssumption
  <2>3. QED
    BY <2>1, <2>2, PowersAssumption
<1>2. p = Pow(MinOrder) /\ Pow(MaxOrder) = n * p
  BY <1>1 DEF Pow
<1>3. Bases = {k * p : k \in 0..(n - 1)}
  BY <1>1 DEF Bases
<1>4. ASSUME x \in Bases PROVE x \in Nat /\ Multiple(x, p) /\ x < n * p
  <2>1. PICK k \in 0..(n - 1) : x = k * p
    BY <1>3, <1>4
  <2>2. k \in Nat /\ k < n
    OBVIOUS
  <2>3. k * p < n * p /\ k * p \in Nat
    BY <2>2
  <2>4. QED
    BY <2>1, <2>2, <2>3 DEF Multiple
<1>5. ASSUME x \in Nat, Multiple(x, p), x < n * p PROVE x \in Bases
  <2>1. PICK k \in Nat : x = k * p
    BY <1>5 DEF Multiple
  <2>2. k < n
    BY <1>5, <2>1
  <2>3. k \in 0..(n - 1)
    BY <2>2
  <2>4. QED
    BY <1>3, <2>1, <2>3
<1>6. QED
  BY <1>2, <1>4, <1>5

\* A multiple of a block size inside the region is where an aligned block of
\* that size may lie, and the block ends inside the region.
LEMMA AlignedBlock ==
  ASSUME NEW x \in Nat, NEW o \in Orders, Multiple(x, Pow(o)), x < Pow(MaxOrder)
  PROVE  /\ x \in Bases
         /\ Aligned([off |-> x, order |-> o])
         /\ x + Pow(o) <= Pow(MaxOrder)
<1>1. o \in 0..MaxOrder /\ MinOrder <= o /\ o <= MaxOrder
      /\ MinOrder \in 0..MaxOrder /\ MaxOrder \in 0..MaxOrder
  BY OrderTypes
<1>2. PICK m \in Nat \ {0} : Pow(o) = m * Pow(MinOrder)
  BY <1>1, PowLaws
<1>3. PICK n \in Nat \ {0} : Pow(MaxOrder) = n * Pow(o)
  BY <1>1, PowLaws
<1>4. Pow(MinOrder) \in Nat \ {0} /\ Pow(o) \in Nat \ {0}
  BY <1>1, PowLaws
<1>5. x \in Bases
  <2>1. Multiple(x, m * Pow(MinOrder))
    BY <1>2
  <2>2. Multiple(x, Pow(MinOrder))
    BY <1>4, <2>1, MultipleDown
  <2>3. QED
    BY <2>2, BasesAre
<1>6. x + Pow(o) <= Pow(MaxOrder)
  <2>1. PICK p \in Nat \ {0} : p = Pow(o)
    BY <1>4
  <2>2. PICK q \in Nat : x = q * p
    BY <2>1 DEF Multiple
  <2>3. q * p < n * p
    BY <1>3, <2>1, <2>2
  <2>4. q < n
    BY <2>3
  <2>5. q * p + p <= n * p
    BY <2>4
  <2>6. QED
    BY <1>3, <2>1, <2>2, <2>5
<1>7. QED
  BY <1>5, <1>6 DEF Aligned, Block

\* What an aligned block is made of.
LEMMA AlignedFacts ==
  ASSUME NEW b, Aligned(b)
  PROVE  /\ b = [off |-> b.off, order |-> b.order]
         /\ b.off \in Nat /\ b.off \in Bases /\ b.order \in Orders /\ b.order \in 0..MaxOrder
         /\ Pow(b.order) \in Nat \ {0} /\ Multiple(b.off, Pow(b.order))
         /\ Within(b.off, b) /\ b.off < Pow(MaxOrder)
         /\ b.off + Pow(b.order) <= Pow(MaxOrder)
<1>1. /\ b = [off |-> b.off, order |-> b.order]
      /\ b.off \in Bases /\ b.order \in Orders /\ Multiple(b.off, Pow(b.order))
  BY DEF Aligned, Block
<1>2. b.off \in Nat /\ b.off < Pow(MaxOrder)
  BY <1>1, BasesAre
<1>3. b.order \in 0..MaxOrder
  BY <1>1, OrderTypes
<1>4. Pow(b.order) \in Nat \ {0}
  BY <1>3, PowLaws
<1>5. b.off + Pow(b.order) <= Pow(MaxOrder)
  BY <1>1, <1>2, AlignedBlock
<1>6. Within(b.off, b)
  BY <1>2, <1>4 DEF Within
<1>7. QED
  BY <1>1, <1>2, <1>3, <1>4, <1>5, <1>6

\* Of two aligned blocks that share a byte the smaller lies in the larger.
LEMMA BlocksNest ==
  ASSUME NEW b, NEW c, Aligned(b), Aligned(c), b.order <= c.order,
         NEW z \in Nat, Within(z, b), Within(z, c)
  PROVE  c.off <= b.off /\ b.off + Pow(b.order) <= c.off + Pow(c.order)
<1>1. /\ b.off \in Nat /\ b.order \in 0..MaxOrder /\ Pow(b.order) \in Nat \ {0}
      /\ c.off \in Nat /\ c.order \in 0..MaxOrder /\ Pow(c.order) \in Nat \ {0}
      /\ Multiple(b.off, Pow(b.order)) /\ Multiple(c.off, Pow(c.order))
  BY AlignedFacts
<1>2. PICK m \in Nat \ {0} : Pow(c.order) = m * Pow(b.order)
  BY <1>1, PowLaws
<1>3. PICK p \in Nat \ {0} : p = Pow(b.order)
  BY <1>1
<1>4. PICK x \in Nat, y \in Nat : x = b.off /\ y = c.off
  BY <1>1
<1>5. Multiple(x, p) /\ Multiple(y, m * p) /\ x <= z /\ z < x + p /\ y <= z /\ z < y + m * p
  BY <1>1, <1>2, <1>3, <1>4 DEF Within
<1>6. y <= x /\ x + p <= y + m * p
  BY <1>5, SpansNest
<1>7. QED
  BY <1>2, <1>3, <1>4, <1>6

\* Two blocks of a tiling that begin at the same place are the same block.
LEMMA SameOff ==
  ASSUME NEW S, Tile(S), NEW b \in S, NEW c \in S, b.off = c.off
  PROVE  b = c
<1>1. Aligned(b) /\ Aligned(c) /\ Apart(S)
  BY DEF Tile
<1>2. b.off \in Nat /\ Within(b.off, b) /\ Within(b.off, c)
  BY <1>1, AlignedFacts
<1>3. QED
  BY <1>1, <1>2 DEF Apart

\* Exchanging some blocks of a tiling for others that cover the same bytes.
LEMMA Retile ==
  ASSUME NEW S, Tile(S), NEW R \in SUBSET S, NEW N,
         \A n \in N : Aligned(n), Apart(N),
         \A z \in Nat : (\E r \in R : Within(z, r)) <=> (\E n \in N : Within(z, n))
  PROVE  Tile((S \ R) \cup N)
<1> DEFINE T == (S \ R) \cup N
<1>1. \A b \in T : Aligned(b)
  BY DEF Tile
<1>2. ASSUME NEW b \in S \ R, NEW c \in N, NEW z \in Nat, Within(z, b), Within(z, c)
      PROVE  FALSE
  <2>1. PICK r \in R : Within(z, r)
    BY <1>2
  <2>2. b = r
    BY <1>2, <2>1 DEF Tile, Apart
  <2>3. QED
    BY <2>2
<1>3. Apart(T)
  <2> SUFFICES ASSUME NEW b \in T, NEW c \in T, NEW z \in Nat, Within(z, b), Within(z, c)
               PROVE  b = c
    BY DEF Apart
  <2>1. CASE b \in S \ R /\ c \in S \ R
    BY <2>1 DEF Tile, Apart
  <2>2. CASE b \in N /\ c \in N
    BY <2>2 DEF Apart
  <2>3. QED
    BY <1>2, <2>1, <2>2
<1>4. ASSUME NEW z \in Region PROVE \E b \in T : Within(z, b)
  <2>1. PICK b \in S : Within(z, b)
    BY DEF Tile
  <2>2. z \in Nat
    BY DEF Region
  <2>3. CASE b \in R
    BY <2>1, <2>2, <2>3
  <2>4. CASE b \notin R
    BY <2>1, <2>4
  <2>5. QED
    BY <2>3, <2>4
<1>5. QED
  BY <1>1, <1>3, <1>4 DEF Tile

-----------------------------------------------------------------------------
(* Splitting.                                                              *)

\* A larger order is a larger block.
LEMMA PowMonotone ==
  ASSUME NEW i \in 0..MaxOrder, NEW j \in 0..MaxOrder, i <= j
  PROVE  Pow(i) \in Nat \ {0} /\ Pow(j) \in Nat \ {0} /\ Pow(i) <= Pow(j)
<1>1. Pow(i) \in Nat \ {0} /\ Pow(j) \in Nat \ {0}
  BY PowLaws
<1>2. CASE i = j
  BY <1>1, <1>2
<1>3. CASE i < j
  BY <1>1, <1>3, PowLaws
<1>4. QED
  BY <1>2, <1>3, OrderTypes

\* The right half that splitting a block down to order k gives back.
Half(off, k) == [off |-> off + Pow(k), order |-> k]

\* It is aligned and lies inside the block.
LEMMA HalfFacts ==
  ASSUME NEW off, NEW found, NEW order, Aligned([off |-> off, order |-> found]),
         order \in Orders, NEW k \in order..(found - 1)
  PROVE  /\ off \in Nat /\ found \in 0..MaxOrder /\ order \in 0..MaxOrder
         /\ k \in Orders /\ k \in 0..MaxOrder /\ k < found /\ order <= k
         /\ Pow(k) \in Nat \ {0} /\ Pow(found) \in Nat /\ Pow(order) \in Nat \ {0}
         /\ 2 * Pow(k) <= Pow(found) /\ Pow(order) <= Pow(k) /\ Pow(k + 1) = 2 * Pow(k)
         /\ Aligned(Half(off, k)) /\ Half(off, k).off = off + Pow(k)
         /\ Half(off, k).order = k
<1>1. /\ off \in Nat /\ found \in Orders /\ found \in 0..MaxOrder
      /\ Multiple(off, Pow(found)) /\ off + Pow(found) <= Pow(MaxOrder)
  <2>1. PICK b : b = [off |-> off, order |-> found]
    OBVIOUS
  <2>2. b.off = off /\ b.order = found /\ Aligned(b)
    BY <2>1
  <2>3. QED
    BY <2>2, AlignedFacts
<1>2. k \in Orders /\ k \in 0..MaxOrder /\ k < found /\ order <= k /\ order \in 0..MaxOrder
  BY <1>1, OrdersAssumption DEF Orders
<1>3. /\ Pow(k) \in Nat \ {0} /\ Pow(found) \in Nat \ {0} /\ Pow(order) \in Nat \ {0}
      /\ 2 * Pow(k) <= Pow(found) /\ Pow(order) <= Pow(k) /\ Pow(k + 1) = 2 * Pow(k)
  BY <1>1, <1>2, PowLaws, PowMonotone
<1>4. PICK m \in Nat \ {0} : Pow(found) = m * Pow(k)
  BY <1>1, <1>2, PowLaws
<1>5. Multiple(off + Pow(k), Pow(k))
  <2>1. Multiple(off, m * Pow(k))
    BY <1>1, <1>4
  <2>2. QED
    BY <1>1, <1>3, <2>1, MultipleDown
<1>6. off + Pow(k) \in Nat /\ off + Pow(k) < Pow(MaxOrder)
  <2>1. MaxOrder \in 0..MaxOrder
    BY OrderTypes
  <2>2. Pow(MaxOrder) \in Nat
    BY <2>1, PowLaws
  <2>3. QED
    BY <1>1, <1>3, <2>2
<1>7. Aligned(Half(off, k))
  BY <1>2, <1>5, <1>6, AlignedBlock DEF Half
<1>8. QED
  BY <1>1, <1>2, <1>3, <1>7 DEF Half

\* The blocks that take the place of one that is split: what is handed out
\* and the right halves.
Pieces(off, found, order) == {[off |-> off, order |-> order]} \cup Halves(off, found, order)

\* Halves are the right halves, one of each order.
LEMMA HalvesAre ==
  ASSUME NEW off, NEW found, NEW order
  PROVE  Halves(off, found, order) = {Half(off, k) : k \in order..(found - 1)}
BY DEF Halves, Half, Pow

\* The pieces are aligned, share no byte and cover the block that was split.
LEMMA PiecesFacts ==
  ASSUME NEW off, NEW found, NEW order, Aligned([off |-> off, order |-> found]),
         order \in Orders, order <= found
  PROVE  /\ \A n \in Pieces(off, found, order) : Aligned(n)
         /\ Apart(Pieces(off, found, order))
         /\ \A z \in Nat : Within(z, [off |-> off, order |-> found]) <=>
                           \E n \in Pieces(off, found, order) : Within(z, n)
<1> DEFINE b == [off |-> off, order |-> found]
           a == [off |-> off, order |-> order]
           N == Pieces(off, found, order)
<1>1. /\ off \in Nat /\ found \in Orders /\ found \in 0..MaxOrder
      /\ Multiple(off, Pow(found)) /\ off < Pow(MaxOrder) /\ Pow(found) \in Nat \ {0}
  <2>1. b.off = off /\ b.order = found /\ Aligned(b)
    OBVIOUS
  <2> HIDE DEF b
  <2>2. QED
    BY <2>1, AlignedFacts
<1>2. order \in 0..MaxOrder
  BY OrderTypes
<1>3. Pow(order) \in Nat \ {0} /\ Pow(order) <= Pow(found)
  BY <1>1, <1>2, PowMonotone
<1>4. Aligned(a)
  <2>1. PICK m \in Nat \ {0} : Pow(found) = m * Pow(order)
    BY <1>1, <1>2, PowLaws
  <2>2. Multiple(off, m * Pow(order))
    BY <1>1, <2>1
  <2>3. Multiple(off, Pow(order))
    BY <1>1, <1>3, <2>2, MultipleDown
  <2>4. QED
    BY <1>1, <2>3, AlignedBlock
<1>5. \A n \in N : n = a \/ \E k \in order..(found - 1) : n = Half(off, k)
  BY HalvesAre DEF Pieces
<1>6. a \in N /\ \A k \in order..(found - 1) : Half(off, k) \in N
  BY HalvesAre DEF Pieces
<1>7. \A z : Within(z, a) <=> off <= z /\ z < off + Pow(order)
  BY DEF Within
<1>8. \A z : Within(z, b) <=> off <= z /\ z < off + Pow(found)
  BY DEF Within
<1>9. ASSUME NEW k \in order..(found - 1), NEW z
      PROVE  Within(z, Half(off, k)) <=> off + Pow(k) <= z /\ z < (off + Pow(k)) + Pow(k)
  BY HalfFacts DEF Within
<1> HIDE DEF a, b, N
<1>10. \A n \in N : Aligned(n)
  BY <1>4, <1>5, HalfFacts DEF b
<1>11. ASSUME NEW k \in order..(found - 1), NEW l \in order..(found - 1), NEW z \in Nat,
              Within(z, Half(off, k)), Within(z, Half(off, l))
       PROVE  ~(k < l)
  <2> SUFFICES ASSUME k < l PROVE FALSE
    OBVIOUS
  <2>1. k \in 0..MaxOrder /\ l \in 0..MaxOrder /\ Pow(k) \in Nat /\ Pow(l) \in Nat
    BY HalfFacts
  <2>2. 2 * Pow(k) <= Pow(l)
    BY <2>1, PowLaws
  <2>3. z < (off + Pow(k)) + Pow(k) /\ off + Pow(l) <= z
    BY <1>9, <1>11
  <2>4. QED
    BY <1>1, <2>1, <2>2, <2>3
<1>12. ASSUME NEW k \in order..(found - 1), NEW z \in Nat,
              Within(z, a), Within(z, Half(off, k))
       PROVE  FALSE
  <2>1. Pow(k) \in Nat /\ Pow(order) <= Pow(k)
    BY HalfFacts
  <2>2. z < off + Pow(order) /\ off + Pow(k) <= z
    BY <1>7, <1>9, <1>12
  <2>3. QED
    BY <1>1, <1>3, <2>1, <2>2
<1>13. Apart(N)
  <2> SUFFICES ASSUME NEW n \in N, NEW m \in N, NEW z \in Nat, Within(z, n), Within(z, m)
               PROVE  n = m
    BY DEF Apart
  <2>1. CASE n = a \/ m = a
    BY <1>5, <1>12, <2>1
  <2>2. CASE n # a /\ m # a
    <3>1. PICK k \in order..(found - 1), l \in order..(found - 1) :
            n = Half(off, k) /\ m = Half(off, l)
      BY <1>5, <2>2
    <3>2. ~(k < l) /\ ~(l < k)
      BY <1>11, <3>1
    <3>3. k \in Int /\ l \in Int
      BY <1>1, <1>2
    <3>4. QED
      BY <3>1, <3>2, <3>3
  <2>3. QED
    BY <2>1, <2>2
<1>14. ASSUME NEW z \in Nat, NEW n \in N, Within(z, n) PROVE Within(z, b)
  <2>1. CASE n = a
    BY <1>1, <1>3, <1>7, <1>8, <1>14, <2>1
  <2>2. ASSUME NEW k \in order..(found - 1), n = Half(off, k) PROVE Within(z, b)
    <3>1. Pow(k) \in Nat /\ 2 * Pow(k) <= Pow(found)
      BY HalfFacts
    <3>2. off + Pow(k) <= z /\ z < (off + Pow(k)) + Pow(k)
      BY <1>9, <1>14, <2>2
    <3>3. QED
      BY <1>1, <1>8, <3>1, <3>2
  <2>3. QED
    BY <1>5, <2>1, <2>2
<1>15. ASSUME NEW z \in Nat, Within(z, b) PROVE \E n \in N : Within(z, n)
  <2>1. CASE z < off + Pow(order)
    BY <1>6, <1>7, <1>8, <1>15, <2>1
  <2>2. CASE off + Pow(order) <= z
    <3> DEFINE K == {k \in order..(found - 1) : off + Pow(k) <= z}
    <3>1. order < found
      BY <1>1, <1>2, <1>8, <1>15, <2>2
    <3>2. K \in SUBSET Nat /\ order \in K /\ \A k \in K : k <= found
      BY <1>1, <1>2, <2>2, <3>1
    <3>a. \A k \in K : k \in order..(found - 1) /\ off + Pow(k) <= z
      OBVIOUS
    <3>b. \A k \in order..(found - 1) : off + Pow(k) <= z => k \in K
      OBVIOUS
    <3> HIDE DEF K
    <3>c. found \in Nat /\ K # {}
      BY <1>1, <3>2
    <3>3. PICK k \in K : \A l \in K : l <= k
      BY <3>2, <3>c, GreatestNat
    <3>4. k \in order..(found - 1) /\ off + Pow(k) <= z
      BY <3>3, <3>a
    <3>5. Pow(k) \in Nat /\ Pow(k + 1) = 2 * Pow(k)
      BY <3>4, HalfFacts
    <3>6. z < off + Pow(k + 1)
      <4>1. CASE k + 1 = found
        BY <1>8, <1>15, <4>1
      <4>2. CASE k + 1 < found
        <5>1. k + 1 \in order..(found - 1) /\ ~(k + 1 <= k)
          BY <1>1, <1>2, <3>4, <4>2
        <5>2. k + 1 \notin K
          BY <3>3, <5>1
        <5>3. Pow(k + 1) \in Nat
          BY <5>1, HalfFacts
        <5>4. QED
          BY <1>1, <3>b, <5>1, <5>2, <5>3
      <4>3. QED
        BY <1>1, <1>2, <3>4, <4>1, <4>2
    <3>7. Within(z, Half(off, k))
      BY <1>1, <1>9, <3>4, <3>5, <3>6
    <3>8. QED
      BY <1>6, <3>4, <3>7
  <2>3. QED
    BY <1>1, <1>3, <2>1, <2>2
<1>16. QED
  BY <1>10, <1>13, <1>14, <1>15 DEF N, b

-----------------------------------------------------------------------------
(* Merging.                                                                *)

\* The enclosing block of order o around x.
Around(x, o) == [off |-> Enclosing(x, o), order |-> o]

\* It is aligned and holds x.
LEMMA AroundFacts ==
  ASSUME NEW x \in Nat, x < Pow(MaxOrder), NEW o \in Orders
  PROVE  /\ Aligned(Around(x, o)) /\ Within(x, Around(x, o))
         /\ Around(x, o).off = Enclosing(x, o) /\ Around(x, o).order = o
         /\ Enclosing(x, o) \in Nat /\ Enclosing(x, o) <= x
<1>1. o \in 0..MaxOrder /\ MaxOrder \in 0..MaxOrder
  BY OrderTypes
<1>2. PICK p \in Nat \ {0} : p = Pow(o)
  BY <1>1, PowLaws
<1>3. Pow(MaxOrder) \in Nat
  BY <1>1, PowLaws
<1>4. Enclosing(x, o) = x - (x % p)
  BY <1>2 DEF Enclosing, Pow
<1>5. PICK d \in Nat, u \in Nat : x = d * p + u /\ u < p /\ u = x % p
  BY DivMod
<1>6. Enclosing(x, o) = d * p
  <2>1. PICK y \in Nat : y = d * p
    OBVIOUS
  <2>2. x = y + u /\ Enclosing(x, o) = x - u
    BY <1>4, <1>5, <2>1
  <2>3. QED
    BY <2>1, <2>2
<1>7. Multiple(Enclosing(x, o), Pow(o))
  BY <1>2, <1>6 DEF Multiple
<1>8. Enclosing(x, o) \in Nat /\ Enclosing(x, o) <= x /\ x < Enclosing(x, o) + Pow(o)
  BY <1>2, <1>5, <1>6
<1>9. Aligned(Around(x, o))
  BY <1>3, <1>7, <1>8, AlignedBlock DEF Around
<1>10. QED
  BY <1>8, <1>9 DEF Around, Within

\* The aligned block of an order that holds x is the enclosing one.
LEMMA AroundUnique ==
  ASSUME NEW e, Aligned(e), NEW x \in Nat, Within(x, e)
  PROVE  Enclosing(x, e.order) = e.off /\ Around(x, e.order) = e
<1>1. /\ e.order \in Orders /\ e.off \in Nat /\ e.off + Pow(e.order) <= Pow(MaxOrder)
      /\ Pow(e.order) \in Nat /\ e = [off |-> e.off, order |-> e.order]
      /\ e.order \in 0..MaxOrder
  BY AlignedFacts
<1>2. x < Pow(MaxOrder)
  <2>1. Pow(MaxOrder) \in Nat
    BY OrderTypes, PowLaws
  <2>2. QED
    BY <1>1, <2>1 DEF Within
<1>3. PICK c : c = Around(x, e.order)
  OBVIOUS
<1>4. Aligned(c) /\ Within(x, c) /\ c.off = Enclosing(x, e.order) /\ c.order = e.order
      /\ c.off \in Nat
  BY <1>1, <1>2, <1>3, AroundFacts
<1>5. e.order <= e.order
  BY <1>1
<1>6. e.off <= c.off /\ c.off <= e.off
  BY <1>4, <1>5, BlocksNest
<1>7. e.off = c.off
  BY <1>1, <1>4, <1>6
<1>8. QED
  BY <1>1, <1>4, <1>7 DEF Around

\* A smaller aligned block that shares a byte with a larger one lies in it.
LEMMA NestWithin ==
  ASSUME NEW b, NEW c, Aligned(b), Aligned(c), b.order <= c.order,
         NEW z \in Nat, Within(z, b), Within(z, c), NEW y \in Nat, Within(y, b)
  PROVE  Within(y, c)
<1>1. c.off <= b.off /\ b.off + Pow(b.order) <= c.off + Pow(c.order)
  BY BlocksNest
<1>2. /\ b.off \in Nat /\ c.off \in Nat /\ Pow(b.order) \in Nat /\ Pow(c.order) \in Nat
  BY AlignedFacts
<1>3. b.off <= y /\ y < b.off + Pow(b.order)
  BY DEF Within
<1>4. QED
  BY <1>1, <1>2, <1>3 DEF Within

\* The buddy of the enclosing block of order o around x.
Buddy1(x, o) == [off |-> BuddyOff(x, o), order |-> o]

\* The enclosing block and its buddy are the two halves of the next one.
LEMMA Buddy1Facts ==
  ASSUME NEW x \in Nat, x < Pow(MaxOrder), NEW o \in Orders, o < MaxOrder
  PROVE  /\ o + 1 \in Orders /\ Aligned(Buddy1(x, o))
         /\ Buddy1(x, o).off = BuddyOff(x, o) /\ Buddy1(x, o).order = o
         /\ BuddyOff(x, o) # Enclosing(x, o)
         /\ \A z \in Nat : Within(z, Around(x, o + 1)) <=>
                           Within(z, Around(x, o)) \/ Within(z, Buddy1(x, o))
<1>1. o \in 0..MaxOrder /\ o + 1 \in Orders /\ o + 1 \in 0..MaxOrder
  BY OrdersAssumption DEF Orders
<1>2. /\ Enclosing(x, o) \in Nat /\ Enclosing(x, o + 1) \in Nat /\ BuddyOff(x, o) \in Nat
      /\ Multiple(BuddyOff(x, o), Pow(o))
      /\ \/ /\ Enclosing(x, o) = Enclosing(x, o + 1)
            /\ BuddyOff(x, o) = Enclosing(x, o + 1) + Pow(o)
         \/ /\ Enclosing(x, o) = Enclosing(x, o + 1) + Pow(o)
            /\ BuddyOff(x, o) = Enclosing(x, o + 1)
  BY <1>1, BuddyHalves
<1>3. Pow(o) \in Nat \ {0} /\ Pow(o + 1) = 2 * Pow(o)
  <2>1. o < o + 1
    BY <1>1
  <2>2. QED
    BY <1>1, <2>1, PowLaws
<1>4. Enclosing(x, o + 1) + Pow(o + 1) <= Pow(MaxOrder) /\ Pow(MaxOrder) \in Nat
  <2>1. PICK e : e = Around(x, o + 1)
    OBVIOUS
  <2>2. Aligned(e) /\ e.off = Enclosing(x, o + 1) /\ e.order = o + 1
    BY <1>1, <2>1, AroundFacts
  <2>3. Pow(MaxOrder) \in Nat
    BY OrderTypes, PowLaws
  <2>4. QED
    BY <2>2, <2>3, AlignedFacts
<1>5. Aligned(Buddy1(x, o))
  <2>1. BuddyOff(x, o) < Pow(MaxOrder)
    BY <1>2, <1>3, <1>4
  <2>2. QED
    BY <1>2, <2>1, AlignedBlock DEF Buddy1
<1>6. ASSUME NEW z \in Nat
      PROVE  Within(z, Around(x, o + 1)) <=>
             Within(z, Around(x, o)) \/ Within(z, Buddy1(x, o))
  <2>1. Within(z, Around(x, o + 1)) <=>
          Enclosing(x, o + 1) <= z /\ z < Enclosing(x, o + 1) + Pow(o + 1)
    BY DEF Within, Around
  <2>2. Within(z, Around(x, o)) <=> Enclosing(x, o) <= z /\ z < Enclosing(x, o) + Pow(o)
    BY DEF Within, Around
  <2>3. Within(z, Buddy1(x, o)) <=> BuddyOff(x, o) <= z /\ z < BuddyOff(x, o) + Pow(o)
    BY DEF Within, Buddy1
  <2>4. QED
    BY <1>2, <1>3, <2>1, <2>2, <2>3
<1>7. QED
  BY <1>1, <1>2, <1>3, <1>5, <1>6 DEF Buddy1

\* The buddies a freed block merges with on its way up to order top.
Buddies(off, order, top) == {Buddy1(off, o) : o \in order..(top - 1)}

\* A block and those buddies cover the enclosing block of order top.
LEMMA MergeCovers ==
  ASSUME NEW b, Aligned(b), NEW top \in Orders, b.order <= top, NEW z \in Nat
  PROVE  Within(z, Around(b.off, top)) <=>
         Within(z, b) \/ \E c \in Buddies(b.off, b.order, top) : Within(z, c)
<1>1. /\ b.off \in Nat /\ b.order \in Orders /\ b.off < Pow(MaxOrder) /\ Within(b.off, b)
      /\ b.order \in Nat /\ top \in Nat /\ top <= MaxOrder /\ MinOrder <= b.order
      /\ MaxOrder \in Nat /\ MinOrder \in Nat
  BY AlignedFacts, OrderTypes, OrdersAssumption DEF Orders
<1> DEFINE x == b.off
           L == b.order
<1>2. ASSUME NEW o \in L..top PROVE o \in Orders /\ (o < top => o < MaxOrder)
  BY <1>1, <1>2 DEF Orders
<1>3. Around(x, L) = b
  BY <1>1, AroundUnique
<1>4. ASSUME Within(z, b) PROVE Within(z, Around(x, top))
  <2>1. PICK m : m = Around(x, top)
    OBVIOUS
  <2>2. Aligned(m) /\ Within(x, m) /\ m.order = top
    BY <1>1, <2>1, AroundFacts
  <2>3. Within(z, m)
    BY <1>1, <1>4, <2>2, NestWithin
  <2>4. QED
    BY <2>1, <2>3
<1>5. ASSUME NEW o \in L..(top - 1), Within(z, Buddy1(x, o))
      PROVE  Within(z, Around(x, top))
  <2>1. o \in L..top /\ o < top /\ o + 1 <= top
    BY <1>1
  <2>2. o \in Orders /\ o < MaxOrder
    BY <1>2, <2>1
  <2>3. PICK m, e : m = Around(x, top) /\ e = Around(x, o + 1)
    OBVIOUS
  <2>4. o + 1 \in Orders /\ Within(z, e)
    BY <1>1, <1>5, <2>2, <2>3, Buddy1Facts
  <2>5. /\ Aligned(m) /\ Within(x, m) /\ m.order = top
        /\ Aligned(e) /\ Within(x, e) /\ e.order = o + 1
    BY <1>1, <2>3, <2>4, AroundFacts
  <2>6. Within(z, m)
    BY <1>1, <2>1, <2>4, <2>5, NestWithin
  <2>7. QED
    BY <2>3, <2>6
<1>6. ASSUME Within(z, Around(x, top)), ~Within(z, b)
      PROVE  \E o \in L..(top - 1) : Within(z, Buddy1(x, o))
  <2> DEFINE T == {o \in L..top : Within(z, Around(x, o))}
  <2>1. \A o \in T : o \in L..top /\ Within(z, Around(x, o))
    OBVIOUS
  <2>2. \A o \in L..top : Within(z, Around(x, o)) => o \in T
    OBVIOUS
  <2>3. top \in T /\ T \in SUBSET Nat
    BY <1>1, <1>6
  <2> HIDE DEF T
  <2>4. PICK o \in T : \A l \in T : o <= l
    BY <2>3, LeastNat
  <2>5. o \in L..top /\ o # L /\ Within(z, Around(x, o))
    BY <1>3, <1>6, <2>1, <2>4
  <2>6. PICK k \in L..(top - 1) : o = k + 1 /\ k \in L..top /\ k < top /\ k < o
    BY <1>1, <2>5
  <2>7. ~Within(z, Around(x, k))
    BY <1>1, <2>2, <2>4, <2>6
  <2>8. k \in Orders /\ k < MaxOrder
    BY <1>2, <2>6
  <2>9. Within(z, Buddy1(x, k))
    BY <1>1, <2>5, <2>6, <2>7, <2>8, Buddy1Facts
  <2>10. QED
    BY <2>9
<1>7. QED
  BY <1>4, <1>5, <1>6 DEF Buddies

\* In a tiling, the block at the start of the buddy of a block, or of what it
\* has merged to, begins there and is no larger than the buddy.
LEMMA BuddyBegins ==
  ASSUME NEW S, Tile(S), NEW b \in S, NEW o \in Orders, b.order <= o, o < MaxOrder,
         NEW c \in S, Within(BuddyOff(b.off, o), c)
  PROVE  c.off = BuddyOff(b.off, o) /\ c.order <= o
<1>1. Aligned(b) /\ Aligned(c) /\ Apart(S)
  BY DEF Tile
<1>2. /\ b.off \in Nat /\ b.order \in Orders /\ b.off < Pow(MaxOrder) /\ Within(b.off, b)
      /\ c.off \in Nat /\ c.order \in Orders
      /\ b.order \in Int /\ c.order \in Int /\ o \in Int
  BY <1>1, AlignedFacts, OrderTypes
<1>3. PICK e, g : e = Around(b.off, o + 1) /\ g = Buddy1(b.off, o)
  OBVIOUS
<1>4. /\ Aligned(g) /\ g.off = BuddyOff(b.off, o) /\ g.order = o /\ o + 1 \in Orders
      /\ \A z \in Nat : Within(z, g) => Within(z, e)
  BY <1>2, <1>3, Buddy1Facts
<1>5. g.off \in Nat /\ Within(g.off, g) /\ Within(g.off, c)
  BY <1>1, <1>4, AlignedFacts
<1>6. Aligned(e) /\ Within(b.off, e) /\ e.order = o + 1 /\ Within(g.off, e)
  BY <1>2, <1>3, <1>4, <1>5, AroundFacts
<1>7. c.order <= o
  <2> SUFFICES ASSUME ~(c.order <= o) PROVE FALSE
    OBVIOUS
  <2>1. e.order <= c.order
    BY <1>2, <1>6
  <2>2. Within(b.off, c)
    BY <1>1, <1>2, <1>5, <1>6, <2>1, NestWithin
  <2>3. b = c
    BY <1>1, <1>2, <2>2 DEF Apart
  <2>4. QED
    BY <1>2, <2>3
<1>8. g.off <= c.off
  BY <1>1, <1>4, <1>5, <1>7, BlocksNest
<1>9. c.off <= g.off
  BY <1>5 DEF Within
<1>10. QED
  BY <1>2, <1>4, <1>5, <1>7, <1>8, <1>9

-----------------------------------------------------------------------------
(* The invariant.                                                          *)

Magic == {"none", "FREE", "ALLOC"}
Blocks == held \cup FreeBlocks

\* The types of what the allocator keeps.
BuddyType ==
  /\ hdr \in [Bases -> [magic: Magic, order: Orders]]
  /\ free_lists \in [Orders -> SUBSET Bases]
  /\ held \subseteq Block

\* The header of a block tells the truth about it.
HeadersExact ==
  /\ \A b \in held : hdr[b.off] = [magic |-> "ALLOC", order |-> b.order]
  /\ \A b \in FreeBlocks : hdr[b.off] = [magic |-> "FREE", order |-> b.order]

\* A header that says "in use", stale ones included, is that of a block in use.
AllocIsHeld == \A x \in Bases : hdr[x].magic = "ALLOC" => \E b \in held : b.off = x

\* The two halves of a block are never both free.
NoTwins ==
  \A f, g \in FreeBlocks :
    f.order < MaxOrder /\ f.order = g.order
      /\ Enclosing(f.off, f.order + 1) = Enclosing(g.off, f.order + 1) => f = g

\* After a refusal there is no free block of the order asked for or above.
RefusedEmpty ==
  last.op = "refused" =>
    /\ last.order \in Nat /\ MinOrder <= last.order
    /\ \A o \in Orders : last.order <= o => free_lists[o] = {}

\* What a client that only allocates, over a region as it finds it, relies on.
BuddyCore ==
  /\ BuddyType
  /\ Tile(Blocks)
  /\ HeadersExact

\* What releasing blocks needs besides.
BuddyInv ==
  /\ BuddyCore
  /\ AllocIsHeld
  /\ NoTwins
  /\ RefusedEmpty

\* What writing headers for a set of blocks, no two at one place, does.
LEMMA StampFacts ==
  ASSUME NEW h, NEW magic, NEW bs, \A b, c \in bs : b.off = c.off => b = c,
         NEW x \in Bases
  PROVE  /\ \A b \in bs : b.off = x => Stamp(h, magic, bs)[x] = [magic |-> magic, order |-> b.order]
         /\ (\A b \in bs : b.off # x) => Stamp(h, magic, bs)[x] = h[x]
<1>1. Stamp(h, magic, bs)[x] =
        IF \E b \in bs : b.off = x
        THEN [magic |-> magic, order |-> (CHOOSE b \in bs : b.off = x).order]
        ELSE h[x]
  BY DEF Stamp
<1>2. ASSUME NEW b \in bs, b.off = x
      PROVE  (CHOOSE c \in bs : c.off = x) = b
  BY <1>2
<1>3. QED
  BY <1>1, <1>2

\* And it writes headers.
LEMMA StampType ==
  ASSUME NEW h \in [Bases -> [magic: Magic, order: Orders]], NEW magic \in Magic, NEW bs,
         \A b \in bs : b.order \in Orders, \A b, c \in bs : b.off = c.off => b = c
  PROVE  Stamp(h, magic, bs) \in [Bases -> [magic: Magic, order: Orders]]
<1>1. ASSUME NEW x \in Bases
      PROVE  Stamp(h, magic, bs)[x] \in [magic: Magic, order: Orders]
  <2>1. CASE \E b \in bs : b.off = x
    <3>1. PICK b \in bs : b.off = x
      BY <2>1
    <3>2. Stamp(h, magic, bs)[x] = [magic |-> magic, order |-> b.order]
      BY <3>1, StampFacts
    <3>3. QED
      BY <3>2
  <2>2. CASE \A b \in bs : b.off # x
    <3>1. Stamp(h, magic, bs)[x] = h[x]
      BY <2>2, StampFacts
    <3>2. QED
      BY <3>1
  <2>3. QED
    BY <2>1, <2>2
<1>2. Stamp(h, magic, bs) = [x \in Bases |-> Stamp(h, magic, bs)[x]]
  BY DEF Stamp
<1>3. QED
  BY <1>1, <1>2

\* A block is not both in use and free.
LEMMA HeldNotFree ==
  ASSUME HeadersExact
  PROVE  held \cap FreeBlocks = {}
<1>1. ASSUME NEW b \in held, b \in FreeBlocks PROVE FALSE
  <2>1. [magic |-> "ALLOC", order |-> b.order] = [magic |-> "FREE", order |-> b.order]
    BY <1>1 DEF HeadersExact
  <2>2. [magic |-> "ALLOC", order |-> b.order].magic = "ALLOC"
        /\ [magic |-> "FREE", order |-> b.order].magic = "FREE"
    OBVIOUS
  <2>3. QED
    BY <2>1, <2>2
<1>2. QED
  BY <1>1

\* The effect of an allocation on the blocks: a free block gives way to its
\* pieces, of which the first is in use.
LEMMA AllocEffect ==
  ASSUME BuddyCore, NEW order \in Nat, MinOrder <= order, pai_buddy_alloc(order)
  PROVE  \E off \in Bases, found \in Orders :
           /\ order \in Orders /\ order <= found
           /\ [off |-> off, order |-> found] \in FreeBlocks
           /\ Aligned([off |-> off, order |-> found])
           /\ held' = held \cup {[off |-> off, order |-> order]}
           /\ FreeBlocks' = (FreeBlocks \ {[off |-> off, order |-> found]})
                              \cup Halves(off, found, order)
           /\ free_lists' \in [Orders -> SUBSET Bases]
           /\ hdr' = Stamp(Stamp(hdr, "FREE", Halves(off, found, order)), "ALLOC",
                           {[off |-> off, order |-> order]})
           /\ last' = [op |-> "alloc", order |-> order]
           /\ Tile(Blocks')
<1>1. BuddyType /\ Tile(Blocks) /\ HeadersExact
  BY DEF BuddyCore
<1>2. PICK found, off :
        /\ found \in Found(order) /\ off \in free_lists[found]
        /\ free_lists' = [o \in Orders |->
             (free_lists[o] \ (IF o = found THEN {off} ELSE {}))
               \cup {h.off : h \in {x \in Halves(off, found, order) : x.order = o}}]
        /\ hdr' = Stamp(Stamp(hdr, "FREE", Halves(off, found, order)), "ALLOC",
                        {[off |-> off, order |-> order]})
        /\ held' = held \cup {[off |-> off, order |-> order]}
        /\ last' = [op |-> "alloc", order |-> order]
  BY DEF pai_buddy_alloc
<1>3. found \in Orders /\ order \in Orders /\ order <= found /\ off \in Bases
  <2>1. found \in order..MaxOrder
    BY <1>2 DEF Found
  <2>2. found \in Orders /\ order \in Orders /\ order <= found
    BY <2>1, OrdersAssumption DEF Orders
  <2>3. QED
    BY <1>1, <1>2, <2>2 DEF BuddyType
<1> DEFINE b == [off |-> off, order |-> found]
           a == [off |-> off, order |-> order]
           H == Halves(off, found, order)
<1>4. b \in Block /\ b \in FreeBlocks /\ b.off = off /\ b.order = found
  BY <1>2, <1>3 DEF FreeBlocks, Block
<1>5. Aligned(b)
  BY <1>1, <1>4 DEF Tile, Blocks
<1>6. /\ \A n \in Pieces(off, found, order) : Aligned(n)
      /\ Apart(Pieces(off, found, order))
      /\ \A z \in Nat : Within(z, b) <=>
                        \E n \in Pieces(off, found, order) : Within(z, n)
  BY <1>3, <1>5, PiecesFacts
<1>7. \A h \in H : h \in Block
  BY <1>6 DEF Pieces, Aligned
<1> HIDE DEF b, a, H
<1>8. ASSUME NEW x \in Block
      PROVE  x.off \in free_lists'[x.order] <=> (x \in FreeBlocks /\ x # b) \/ x \in H
  <2>1. x = [off |-> x.off, order |-> x.order] /\ x.order \in Orders
    BY DEF Block
  <2>2. x = b <=> x.off = off /\ x.order = found
    BY <2>1 DEF b
  <2>3. x \in FreeBlocks <=> x.off \in free_lists[x.order]
    BY DEF FreeBlocks
  <2>4. x \in H <=> \E h \in H : h.order = x.order /\ h.off = x.off
    <3>1. \A h \in H : h = [off |-> h.off, order |-> h.order]
      BY <1>7 DEF Block
    <3>2. QED
      BY <2>1, <3>1
  <2>5. free_lists'[x.order] =
          (free_lists[x.order] \ (IF x.order = found THEN {off} ELSE {}))
             \cup {h.off : h \in {y \in H : y.order = x.order}}
    BY <1>2, <2>1 DEF H
  <2>6. x.off \in free_lists'[x.order] <=>
          \/ x.off \in free_lists[x.order] /\ ~(x.order = found /\ x.off = off)
          \/ \E h \in H : h.order = x.order /\ h.off = x.off
    BY <2>5
  <2>7. QED
    BY <2>2, <2>3, <2>4, <2>6
<1>9. FreeBlocks' = (FreeBlocks \ {b}) \cup H
  <2>1. FreeBlocks' = {x \in Block : x.off \in free_lists'[x.order]}
    BY DEF FreeBlocks
  <2>2. FreeBlocks \subseteq Block
    BY DEF FreeBlocks
  <2>3. QED
    BY <1>7, <1>8, <2>1, <2>2
<1>10. b \notin held
  BY <1>1, <1>4, HeldNotFree
<1>11. Blocks' = (Blocks \ {b}) \cup Pieces(off, found, order)
  <2>1. Blocks' = held' \cup FreeBlocks'
    BY DEF Blocks
  <2>2. Pieces(off, found, order) = {a} \cup H
    BY DEF Pieces, a, H
  <2>3. held' = held \cup {a}
    BY <1>2 DEF a
  <2>4. QED
    BY <1>9, <1>10, <2>1, <2>2, <2>3 DEF Blocks
<1>12. Tile(Blocks')
  <2>1. {b} \in SUBSET Blocks
    BY <1>4 DEF Blocks
  <2>2. \A z \in Nat : (\E r \in {b} : Within(z, r)) <=>
                       (\E n \in Pieces(off, found, order) : Within(z, n))
    BY <1>6
  <2>3. Tile((Blocks \ {b}) \cup Pieces(off, found, order))
    BY <1>1, <1>6, <2>1, <2>2, Retile
  <2>4. QED
    BY <1>11, <2>3
<1>13. free_lists' \in [Orders -> SUBSET Bases]
  <2>1. \A h \in H : h.off \in Bases
    BY <1>7 DEF Block
  <2>2. \A o \in Orders : free_lists[o] \subseteq Bases
    BY <1>1 DEF BuddyType
  <2>3. QED
    BY <1>2, <2>1, <2>2 DEF H
<1>14. QED
  BY <1>2, <1>3, <1>4, <1>5, <1>9, <1>12, <1>13 DEF a, b, H

\* Headers after an allocation: only those of the pieces changed.
LEMMA AllocHeaders ==
  ASSUME BuddyCore, NEW off \in Bases, NEW found \in Orders, NEW order \in Orders,
         order <= found, [off |-> off, order |-> found] \in FreeBlocks,
         Aligned([off |-> off, order |-> found]),
         hdr' = Stamp(Stamp(hdr, "FREE", Halves(off, found, order)), "ALLOC",
                      {[off |-> off, order |-> order]})
  PROVE  /\ hdr' \in [Bases -> [magic: Magic, order: Orders]]
         /\ hdr'[off] = [magic |-> "ALLOC", order |-> order]
         /\ \A h \in Halves(off, found, order) :
              h.off # off /\ hdr'[h.off] = [magic |-> "FREE", order |-> h.order]
         /\ \A x \in Bases : x # off /\ (\A h \in Halves(off, found, order) : h.off # x)
              => hdr'[x] = hdr[x]
         /\ \A c \in Blocks : c # [off |-> off, order |-> found] =>
              \A n \in Pieces(off, found, order) : c.off # n.off
<1> DEFINE b == [off |-> off, order |-> found]
           a == [off |-> off, order |-> order]
           H == Halves(off, found, order)
           N == Pieces(off, found, order)
           h1 == Stamp(hdr, "FREE", H)
<1>1. BuddyType /\ Tile(Blocks) /\ b \in Blocks
  BY DEF BuddyCore, Blocks
<1>2. /\ \A n \in N : Aligned(n)
      /\ Apart(N)
      /\ \A z \in Nat : Within(z, b) <=> \E n \in N : Within(z, n)
  BY PiecesFacts
<1>3. a \in N /\ \A h \in H : h \in N
  BY DEF Pieces
<1>4. a.off = off /\ a.order = order /\ b.off = off
  OBVIOUS
<1>5. hdr' = Stamp(h1, "ALLOC", {a})
  OBVIOUS
<1>6. \A h \in H : h.off # off
  <2> SUFFICES ASSUME NEW h \in H PROVE h.off # off
    OBVIOUS
  <2>1. PICK k \in order..(found - 1) : h = Half(off, k)
    BY HalvesAre
  <2>2. off \in Nat /\ Pow(k) \in Nat \ {0} /\ Half(off, k).off = off + Pow(k)
    BY HalfFacts
  <2>3. QED
    BY <2>1, <2>2
<1> HIDE DEF b, a, H, N, h1
<1>7. ASSUME NEW n \in N, NEW m \in N, n.off = m.off PROVE n = m
  <2>1. n.off \in Nat /\ Within(n.off, n) /\ Within(n.off, m)
    BY <1>2, <1>7, AlignedFacts
  <2>2. QED
    BY <1>2, <2>1 DEF Apart
<1>8. \A h, g \in H : h.off = g.off => h = g
  BY <1>3, <1>7
<1>9. \A h \in H : h.order \in Orders /\ h.off \in Bases
  BY <1>2, <1>3, AlignedFacts
<1>10. h1 \in [Bases -> [magic: Magic, order: Orders]]
  <2>1. "FREE" \in Magic /\ hdr \in [Bases -> [magic: Magic, order: Orders]]
    BY <1>1 DEF Magic, BuddyType
  <2>2. QED
    BY <1>8, <1>9, <2>1, StampType DEF h1
<1>11. hdr' \in [Bases -> [magic: Magic, order: Orders]]
  <2>1. "ALLOC" \in Magic
    BY DEF Magic
  <2>2. PICK bs : bs = {a}
    OBVIOUS
  <2>3. (\A c \in bs : c.order \in Orders) /\ \A c, d \in bs : c.off = d.off => c = d
    BY <1>4, <2>2
  <2>4. Stamp(h1, "ALLOC", bs) \in [Bases -> [magic: Magic, order: Orders]]
    BY <1>10, <2>1, <2>3, StampType
  <2>5. QED
    BY <1>5, <2>2, <2>4
<1>12. \A x \in Bases : /\ x = off => hdr'[x] = [magic |-> "ALLOC", order |-> order]
                        /\ x # off => hdr'[x] = h1[x]
  <2> SUFFICES ASSUME NEW x \in Bases
               PROVE  /\ x = off => hdr'[x] = [magic |-> "ALLOC", order |-> order]
                      /\ x # off => hdr'[x] = h1[x]
    OBVIOUS
  <2>1. /\ \A c \in {a} : c.off = x => hdr'[x] = [magic |-> "ALLOC", order |-> c.order]
        /\ (\A c \in {a} : c.off # x) => hdr'[x] = h1[x]
    BY <1>5, StampFacts
  <2>2. QED
    BY <1>4, <2>1
<1>13. ASSUME NEW h \in H
       PROVE  h.off # off /\ hdr'[h.off] = [magic |-> "FREE", order |-> h.order]
  <2>1. h1[h.off] = [magic |-> "FREE", order |-> h.order]
    BY <1>8, <1>9, StampFacts DEF h1
  <2>2. QED
    BY <1>6, <1>9, <1>12, <2>1
<1>14. ASSUME NEW x \in Bases, x # off, \A h \in H : h.off # x
       PROVE  hdr'[x] = hdr[x]
  <2>1. h1[x] = hdr[x]
    BY <1>8, <1>14, StampFacts DEF h1
  <2>2. QED
    BY <1>12, <1>14, <2>1
<1>15. ASSUME NEW c \in Blocks, c # b, NEW n \in N PROVE c.off # n.off
  <2> SUFFICES ASSUME c.off = n.off PROVE FALSE
    OBVIOUS
  <2>1. Aligned(c) /\ Aligned(n)
    BY <1>1, <1>2 DEF Tile
  <2>2. c.off \in Nat /\ Within(c.off, c) /\ Within(c.off, n)
    BY <2>1, AlignedFacts
  <2>3. Within(c.off, b)
    BY <1>2, <2>2
  <2>4. c = b
    BY <1>1, <2>2, <2>3 DEF Tile, Apart
  <2>5. QED
    BY <1>15, <2>4
<1>16. QED
  BY <1>11, <1>12, <1>13, <1>14, <1>15 DEF H, N, b

\* An allocation keeps the tiling and the headers exact.
LEMMA AllocCore ==
  ASSUME BuddyCore, NEW order \in Nat, MinOrder <= order, pai_buddy_alloc(order)
  PROVE  BuddyCore'
<1>1. PICK off \in Bases, found \in Orders :
           /\ order \in Orders /\ order <= found
           /\ [off |-> off, order |-> found] \in FreeBlocks
           /\ Aligned([off |-> off, order |-> found])
           /\ held' = held \cup {[off |-> off, order |-> order]}
           /\ FreeBlocks' = (FreeBlocks \ {[off |-> off, order |-> found]})
                              \cup Halves(off, found, order)
           /\ free_lists' \in [Orders -> SUBSET Bases]
           /\ hdr' = Stamp(Stamp(hdr, "FREE", Halves(off, found, order)), "ALLOC",
                           {[off |-> off, order |-> order]})
           /\ Tile(Blocks')
  BY AllocEffect
<1> DEFINE b == [off |-> off, order |-> found]
           a == [off |-> off, order |-> order]
           H == Halves(off, found, order)
<1>2. /\ hdr' \in [Bases -> [magic: Magic, order: Orders]]
      /\ hdr'[off] = [magic |-> "ALLOC", order |-> order]
      /\ \A h \in H : h.off # off /\ hdr'[h.off] = [magic |-> "FREE", order |-> h.order]
      /\ \A x \in Bases : x # off /\ (\A h \in H : h.off # x) => hdr'[x] = hdr[x]
      /\ \A c \in Blocks : c # b => \A n \in Pieces(off, found, order) : c.off # n.off
  BY <1>1, AllocHeaders
<1>3. a \in Pieces(off, found, order) /\ \A h \in H : h \in Pieces(off, found, order)
  BY DEF Pieces
<1>4. a.off = off /\ a.order = order /\ a \in Block
  BY <1>1 DEF Block
<1>5. BuddyType /\ HeadersExact /\ Tile(Blocks) /\ b \notin held
  BY <1>1, HeldNotFree DEF BuddyCore
<1> HIDE DEF b, a, H
<1>6. BuddyType'
  <2>1. held' \subseteq Block
    BY <1>1, <1>4, <1>5 DEF BuddyType, a
  <2>2. QED
    BY <1>1, <1>2, <2>1 DEF BuddyType
<1>7. ASSUME NEW c \in Blocks, c # b
      PROVE  hdr'[c.off] = hdr[c.off]
  <2>1. c.off \in Bases
    BY <1>5, AlignedFacts DEF Tile
  <2>2. c.off # off /\ \A h \in H : h.off # c.off
    BY <1>2, <1>3, <1>4, <1>7
  <2>3. QED
    BY <1>2, <2>1, <2>2
<1>8. HeadersExact'
  <2>1. ASSUME NEW c \in held' PROVE hdr'[c.off] = [magic |-> "ALLOC", order |-> c.order]
    <3>1. CASE c = a
      BY <1>2, <1>4, <3>1
    <3>2. CASE c \in held
      BY <1>5, <1>7, <3>2 DEF HeadersExact, Blocks
    <3>3. QED
      BY <1>1, <3>1, <3>2 DEF a
  <2>2. ASSUME NEW c \in FreeBlocks' PROVE hdr'[c.off] = [magic |-> "FREE", order |-> c.order]
    <3>1. CASE c \in H
      BY <1>2, <3>1
    <3>2. CASE c \in FreeBlocks /\ c # b
      BY <1>5, <1>7, <3>2 DEF HeadersExact, Blocks
    <3>3. QED
      BY <1>1, <3>1, <3>2 DEF b, H
  <2>3. QED
    BY <2>1, <2>2 DEF HeadersExact
<1>9. QED
  BY <1>1, <1>6, <1>8 DEF BuddyCore

\* Of the two halves of a block the one that is handed out, or split further,
\* keeps the other from being one of two free halves.
LEMMA HalfNoTwin ==
  ASSUME NEW off, NEW found, NEW order, Aligned([off |-> off, order |-> found]),
         order \in Orders, order <= found, NEW k \in order..(found - 1),
         NEW g, Aligned(g), g.order = k,
         Enclosing(Half(off, k).off, k + 1) = Enclosing(g.off, k + 1)
  PROVE  g = Half(off, k) \/ g.off = off
<1>1. /\ off \in Nat /\ found \in 0..MaxOrder
      /\ k \in Orders /\ k \in 0..MaxOrder /\ k < found /\ order <= k
      /\ Pow(k) \in Nat \ {0} /\ Pow(k + 1) = 2 * Pow(k)
      /\ Aligned(Half(off, k)) /\ Half(off, k).off = off + Pow(k)
  BY HalfFacts
<1>2. k + 1 \in Orders /\ k + 1 <= found /\ k < MaxOrder
  BY <1>1, OrdersAssumption DEF Orders
<1>3. PICK e : e = [off |-> off, order |-> k + 1]
  OBVIOUS
<1>4. Aligned(e) /\ e.off = off /\ e.order = k + 1
  <2>1. \A n \in Pieces(off, found, k + 1) : Aligned(n)
    BY <1>2, PiecesFacts
  <2>2. e \in Pieces(off, found, k + 1)
    BY <1>3 DEF Pieces
  <2>3. QED
    BY <1>3, <2>1, <2>2
<1>5. off + Pow(k) \in Nat /\ Within(off + Pow(k), e)
  BY <1>1, <1>4 DEF Within
<1>6. Enclosing(off + Pow(k), k + 1) = off
  BY <1>4, <1>5, AroundUnique
<1>7. Enclosing(g.off, k + 1) = off
  BY <1>1, <1>6
<1>8. g.off \in Nat /\ Within(g.off, g) /\ g = [off |-> g.off, order |-> g.order]
  BY AlignedFacts
<1>9. Enclosing(g.off, k) = g.off
  BY <1>8, AroundUnique
<1>10. g.off = off \/ g.off = off + Pow(k)
  BY <1>1, <1>2, <1>7, <1>8, <1>9, BuddyHalves
<1>11. QED
  BY <1>8, <1>10 DEF Half

\* An allocation preserves the invariant.
LEMMA AllocStep ==
  ASSUME BuddyInv, NEW order \in Nat, MinOrder <= order, pai_buddy_alloc(order)
  PROVE  BuddyInv'
<1>a. BuddyCore /\ BuddyCore'
  BY AllocCore DEF BuddyInv
<1>1. PICK off \in Bases, found \in Orders :
           /\ order \in Orders /\ order <= found
           /\ [off |-> off, order |-> found] \in FreeBlocks
           /\ Aligned([off |-> off, order |-> found])
           /\ held' = held \cup {[off |-> off, order |-> order]}
           /\ FreeBlocks' = (FreeBlocks \ {[off |-> off, order |-> found]})
                              \cup Halves(off, found, order)
           /\ hdr' = Stamp(Stamp(hdr, "FREE", Halves(off, found, order)), "ALLOC",
                           {[off |-> off, order |-> order]})
           /\ last' = [op |-> "alloc", order |-> order]
  BY <1>a, AllocEffect
<1> DEFINE b == [off |-> off, order |-> found]
           a == [off |-> off, order |-> order]
           H == Halves(off, found, order)
<1>2. /\ hdr' \in [Bases -> [magic: Magic, order: Orders]]
      /\ hdr'[off] = [magic |-> "ALLOC", order |-> order]
      /\ \A h \in H : h.off # off /\ hdr'[h.off] = [magic |-> "FREE", order |-> h.order]
      /\ \A x \in Bases : x # off /\ (\A h \in H : h.off # x) => hdr'[x] = hdr[x]
      /\ \A c \in Blocks : c # b => \A n \in Pieces(off, found, order) : c.off # n.off
  BY <1>a, <1>1, AllocHeaders
<1>3. a.off = off /\ b.off = off /\ b \in Blocks /\ Aligned(b)
  BY <1>1 DEF Blocks
<1>4. Tile(Blocks) /\ Tile(Blocks')
  BY <1>a DEF BuddyCore
<1>5. FreeBlocks' = (FreeBlocks \ {b}) \cup H /\ held' = held \cup {a}
  BY <1>1
<1>6. \A h \in H : \E k \in order..(found - 1) : h = Half(off, k) /\ h.order = k
  BY HalvesAre DEF Half
<1> HIDE DEF b, a, H
<1>7. AllocIsHeld'
  <2> SUFFICES ASSUME NEW x \in Bases, hdr'[x].magic = "ALLOC"
               PROVE  \E c \in held' : c.off = x
    BY DEF AllocIsHeld
  <2>1. CASE x = off
    BY <1>3, <1>5, <2>1
  <2>2. CASE \E h \in H : h.off = x
    <3>1. PICK h \in H : h.off = x
      BY <2>2
    <3>2. hdr'[x] = [magic |-> "FREE", order |-> h.order]
      BY <1>2, <3>1
    <3>3. hdr'[x].magic = "FREE"
      BY <3>2
    <3>4. QED
      BY <3>3
  <2>3. CASE x # off /\ \A h \in H : h.off # x
    <3>1. hdr'[x] = hdr[x]
      BY <1>2, <2>3
    <3>2. \E c \in held : c.off = x
      BY <3>1 DEF BuddyInv, AllocIsHeld
    <3>3. QED
      BY <1>5, <3>2
  <2>4. QED
    BY <2>1, <2>2, <2>3
<1>8. \A g \in FreeBlocks' : Aligned(g) /\ g.off # off
  <2> SUFFICES ASSUME NEW g \in FreeBlocks' PROVE Aligned(g) /\ g.off # off
    OBVIOUS
  <2>1. Aligned(g)
    BY <1>4 DEF Tile, Blocks
  <2>2. CASE g \in H
    BY <1>2, <2>1, <2>2
  <2>3. CASE g \in FreeBlocks /\ g # b
    <3>1. g \in Blocks
      BY <2>3 DEF Blocks
    <3>2. QED
      BY <1>3, <1>4, <2>1, <2>3, <3>1, SameOff
  <2>4. QED
    BY <1>5, <2>2, <2>3
<1>9. ASSUME NEW f \in H, NEW g \in FreeBlocks', f.order = g.order,
             Enclosing(f.off, f.order + 1) = Enclosing(g.off, f.order + 1)
      PROVE  g = f
  <2>1. PICK k \in order..(found - 1) : f = Half(off, k) /\ f.order = k
    BY <1>6
  <2>2. Aligned(g) /\ g.off # off /\ g.order = k
        /\ Enclosing(Half(off, k).off, k + 1) = Enclosing(g.off, k + 1)
    BY <1>8, <1>9, <2>1
  <2>3. g = Half(off, k) \/ g.off = off
    BY <1>1, <2>2, HalfNoTwin
  <2>4. QED
    BY <2>1, <2>2, <2>3
<1>10. NoTwins'
  <2> SUFFICES ASSUME NEW f \in FreeBlocks', NEW g \in FreeBlocks',
                      f.order < MaxOrder, f.order = g.order,
                      Enclosing(f.off, f.order + 1) = Enclosing(g.off, f.order + 1)
               PROVE  f = g
    BY DEF NoTwins, Enclosing
  <2>1. CASE f \in H
    BY <1>9, <2>1
  <2>2. CASE g \in H
    BY <1>9, <2>2
  <2>3. CASE f \in FreeBlocks /\ g \in FreeBlocks
    BY <2>3 DEF BuddyInv, NoTwins
  <2>4. QED
    BY <1>5, <2>1, <2>2, <2>3
<1>11. RefusedEmpty'
  BY <1>1 DEF RefusedEmpty
<1>12. QED
  BY <1>a, <1>7, <1>10, <1>11 DEF BuddyInv

-----------------------------------------------------------------------------
(* Release.                                                                *)

\* A buddy whose header says "free, of this order" is a free block: the header
\* it is read from is that of a block, never a stale one.
LEMMA FreeBuddy ==
  ASSUME BuddyCore, NEW b \in held, NEW o \in Orders, b.order <= o, o < MaxOrder,
         block_is_free(BuddyOff(b.off, o), o)
  PROVE  Buddy1(b.off, o) \in FreeBlocks
<1>1. Tile(Blocks) /\ b \in Blocks /\ HeadersExact
  BY DEF BuddyCore, Blocks
<1>2. Aligned(b)
  BY <1>1 DEF Tile
<1>3. b.off \in Nat /\ b.off < Pow(MaxOrder)
  BY <1>2, AlignedFacts
<1>4. PICK x : x = BuddyOff(b.off, o)
  OBVIOUS
<1>5. x \in Nat /\ x < Pow(MaxOrder)
  <2>1. Aligned(Buddy1(b.off, o)) /\ Buddy1(b.off, o).off = x
    BY <1>3, <1>4, Buddy1Facts
  <2>2. QED
    BY <2>1, AlignedFacts
<1>6. x \in Region
  <2>1. Pow(MaxOrder) \in Nat
    BY OrderTypes, PowLaws
  <2>2. QED
    BY <1>5, <2>1 DEF Region
<1>7. PICK c \in Blocks : Within(x, c)
  BY <1>1, <1>6 DEF Tile
<1>8. c.off = x
  BY <1>1, <1>4, <1>7, BuddyBegins
<1>9. hdr[c.off].magic = "FREE" /\ hdr[c.off].order = o
  BY <1>4, <1>8 DEF block_is_free
<1>10. c \in FreeBlocks /\ c.order = o
  <2>1. CASE c \in held
    <3>1. hdr[c.off] = [magic |-> "ALLOC", order |-> c.order]
      BY <1>1, <2>1 DEF HeadersExact
    <3>2. hdr[c.off].magic = "ALLOC"
      BY <3>1
    <3>3. QED
      BY <1>9, <3>2
  <2>2. CASE c \in FreeBlocks
    <3>1. hdr[c.off] = [magic |-> "FREE", order |-> c.order]
      BY <1>1, <2>2 DEF HeadersExact
    <3>2. hdr[c.off].order = c.order
      BY <3>1
    <3>3. QED
      BY <1>9, <2>2, <3>2
  <2>3. QED
    BY <1>7, <2>1, <2>2 DEF Blocks
<1>11. c = [off |-> c.off, order |-> c.order]
  BY <1>10 DEF FreeBlocks, Block
<1>12. QED
  BY <1>4, <1>8, <1>10, <1>11 DEF Buddy1

\* The order a freed block merges to: every buddy below it is free, and the
\* one at it is not.
LEMMA MergedOrderFacts ==
  ASSUME NEW off, NEW order \in Orders
  PROVE  LET top == MergedOrder(off, order) IN
         /\ top \in Orders /\ order <= top
         /\ \A o \in order..(top - 1) : block_is_free(BuddyOff(off, o), o)
         /\ top < MaxOrder => ~block_is_free(BuddyOff(off, top), top)
<1> DEFINE M == {m \in order..MaxOrder :
                   \A o \in order..(m - 1) : block_is_free(BuddyOff(off, o), o)}
<1>1. order \in Nat /\ MaxOrder \in Nat /\ order <= MaxOrder /\ MinOrder <= order
  BY OrdersAssumption DEF Orders
<1>2. order \in M /\ M \in SUBSET Nat /\ \A m \in M : m <= MaxOrder
  BY <1>1
<1>3. MergedOrder(off, order) = CHOOSE m \in M : \A n \in M : m >= n
  BY DEF MergedOrder, Max
<1>4. \A m \in M : /\ m \in order..MaxOrder
                   /\ \A o \in order..(m - 1) : block_is_free(BuddyOff(off, o), o)
  OBVIOUS
<1>5. \A m \in order..MaxOrder :
        (\A o \in order..(m - 1) : block_is_free(BuddyOff(off, o), o)) => m \in M
  OBVIOUS
<1> HIDE DEF M
<1>6. \E m \in M : \A n \in M : n <= m
  <2>1. M # {}
    BY <1>2
  <2>2. QED
    BY <1>1, <1>2, <2>1, GreatestNat
<1>7. \E m \in M : \A n \in M : m >= n
  BY <1>2, <1>6
<1>8. PICK top : top = MergedOrder(off, order)
  OBVIOUS
<1>9. top \in M /\ \A n \in M : top >= n
  BY <1>3, <1>7, <1>8
<1>10. top \in order..MaxOrder /\ top \in Orders /\ order <= top
       /\ \A o \in order..(top - 1) : block_is_free(BuddyOff(off, o), o)
  BY <1>1, <1>4, <1>9, OrdersAssumption DEF Orders
<1>11. ASSUME top < MaxOrder, block_is_free(BuddyOff(off, top), top) PROVE FALSE
  <2>1. top + 1 \in order..MaxOrder /\ ~(top >= top + 1)
    BY <1>1, <1>10, <1>11
  <2>2. \A o \in order..((top + 1) - 1) : o \in order..(top - 1) \/ o = top
    BY <1>1, <1>10
  <2>3. top + 1 \in M
    BY <1>5, <1>10, <1>11, <2>1, <2>2
  <2>4. QED
    BY <1>9, <2>1, <2>3
<1>12. QED
  BY <1>8, <1>10, <1>11

\* The effect of a release on the blocks: the block and the buddies on its way
\* give way to the block that encloses them.
LEMMA FreeEffect ==
  ASSUME BuddyInv, NEW off \in Bases, pai_buddy_free(off)
  PROVE  \E b \in held, top \in Orders :
           /\ b.off = off /\ b.order <= top
           /\ Buddies(off, b.order, top) \subseteq FreeBlocks
           /\ top < MaxOrder => ~block_is_free(BuddyOff(off, top), top)
           /\ held' = held \ {b}
           /\ FreeBlocks' = (FreeBlocks \ Buddies(off, b.order, top)) \cup {Around(off, top)}
           /\ free_lists' \in [Orders -> SUBSET Bases]
           /\ hdr' = Stamp(Stamp(hdr, "FREE", {b}), "FREE", {Around(off, top)})
           /\ last' = [op |-> "free", order |-> b.order]
           /\ Aligned(Around(off, top))
           /\ Tile(Blocks')
<1>1. BuddyCore /\ BuddyType /\ Tile(Blocks) /\ HeadersExact
  BY DEF BuddyInv, BuddyCore
<1>2. PICK b \in held : b.off = off
  BY DEF pai_buddy_free, BuddyInv, AllocIsHeld
<1>3. b \in Blocks /\ Aligned(b)
  BY <1>1 DEF Tile, Blocks
<1>4. /\ b.order \in Orders /\ b.off \in Nat /\ b.off < Pow(MaxOrder)
      /\ b = [off |-> off, order |-> b.order]
  BY <1>2, <1>3, AlignedFacts
<1>5. hdr[off].order = b.order
  <2>1. hdr[b.off] = [magic |-> "ALLOC", order |-> b.order]
    BY <1>1 DEF HeadersExact
  <2>2. QED
    BY <1>2, <2>1
<1>6. PICK top : top = MergedOrder(off, b.order)
  OBVIOUS
<1>7. /\ top \in Orders /\ b.order <= top
      /\ \A o \in b.order..(top - 1) : block_is_free(BuddyOff(off, o), o)
      /\ top < MaxOrder => ~block_is_free(BuddyOff(off, top), top)
  BY <1>4, <1>6, MergedOrderFacts
<1> DEFINE m == Around(off, top)
           G == Buddies(off, b.order, top)
<1>8. /\ free_lists' = [o \in Orders |->
           (free_lists[o] \ (IF o \in b.order..(top - 1) THEN {BuddyOff(off, o)} ELSE {}))
             \cup (IF o = top THEN {Enclosing(off, top)} ELSE {})]
      /\ hdr' = Stamp(Stamp(hdr, "FREE", {[off |-> off, order |-> b.order]}), "FREE", {m})
      /\ held' = {x \in held : x.off # off}
      /\ last' = [op |-> "free", order |-> b.order]
  BY <1>5, <1>6 DEF pai_buddy_free, Around
<1>9. Aligned(m) /\ m.off = Enclosing(off, top) /\ m.order = top /\ m \in Block
  BY <1>2, <1>4, <1>7, AroundFacts DEF Aligned
<1>10. \A o \in b.order..(top - 1) : Buddy1(off, o) \in FreeBlocks
  <2> SUFFICES ASSUME NEW o \in b.order..(top - 1) PROVE Buddy1(off, o) \in FreeBlocks
    OBVIOUS
  <2>1. o \in Orders /\ b.order <= o /\ o < MaxOrder
    BY <1>4, <1>7, OrdersAssumption DEF Orders
  <2>2. block_is_free(BuddyOff(b.off, o), o)
    BY <1>2, <1>7
  <2>3. QED
    BY <1>1, <1>2, <2>1, <2>2, FreeBuddy
<1>11. G \subseteq FreeBlocks
  BY <1>10 DEF Buddies
<1>12. held' = held \ {b}
  <2>1. \A x \in held : x.off = off => x = b
    BY <1>1, <1>2, <1>3, SameOff DEF Blocks
  <2>2. QED
    BY <1>2, <1>8, <2>1
<1>13. ASSUME NEW x \in Block
       PROVE  x.off \in free_lists'[x.order] <=> (x \in FreeBlocks /\ x \notin G) \/ x = m
  <2>1. x = [off |-> x.off, order |-> x.order] /\ x.order \in Orders
    BY DEF Block
  <2>2. x \in G <=> x.order \in b.order..(top - 1) /\ x.off = BuddyOff(off, x.order)
    BY <2>1 DEF Buddies, Buddy1
  <2>3. x \in FreeBlocks <=> x.off \in free_lists[x.order]
    BY DEF FreeBlocks
  <2>4. x = m <=> x.order = top /\ x.off = Enclosing(off, top)
    BY <2>1 DEF Around
  <2>5. free_lists'[x.order] =
           (free_lists[x.order] \ (IF x.order \in b.order..(top - 1)
                                   THEN {BuddyOff(off, x.order)} ELSE {}))
             \cup (IF x.order = top THEN {Enclosing(off, top)} ELSE {})
    BY <1>8, <2>1
  <2> HIDE DEF m, G
  <2>6. QED
    BY <2>2, <2>3, <2>4, <2>5
<1> HIDE DEF m, G
<1>14. FreeBlocks' = (FreeBlocks \ G) \cup {m}
  <2>1. FreeBlocks' = {x \in Block : x.off \in free_lists'[x.order]}
    BY DEF FreeBlocks
  <2>2. FreeBlocks \subseteq Block
    BY DEF FreeBlocks
  <2>3. QED
    BY <1>9, <1>13, <2>1, <2>2
<1>15. Blocks' = (Blocks \ ({b} \cup G)) \cup {m}
  <2>1. held \cap FreeBlocks = {}
    BY <1>1, HeldNotFree
  <2>2. Blocks' = held' \cup FreeBlocks'
    BY DEF Blocks
  <2>3. QED
    BY <1>11, <1>12, <1>14, <2>1, <2>2 DEF Blocks
<1>16. Tile(Blocks')
  <2>1. PICK R, N : R = {b} \cup G /\ N = {m}
    OBVIOUS
  <2>2. R \in SUBSET Blocks /\ \A n \in N : Aligned(n)
    BY <1>3, <1>9, <1>11, <2>1 DEF Blocks
  <2>3. Apart(N)
    BY <2>1 DEF Apart
  <2>4. \A z \in Nat : (\E r \in R : Within(z, r)) <=> (\E n \in N : Within(z, n))
    <3> SUFFICES ASSUME NEW z \in Nat
                 PROVE  (\E r \in R : Within(z, r)) <=> (\E n \in N : Within(z, n))
      OBVIOUS
    <3>1. Within(z, Around(b.off, top)) <=>
            Within(z, b) \/ \E c \in Buddies(b.off, b.order, top) : Within(z, c)
      BY <1>3, <1>7, MergeCovers
    <3>2. Within(z, m) <=> Within(z, b) \/ \E c \in G : Within(z, c)
      BY <1>2, <3>1 DEF m, G
    <3>3. QED
      BY <2>1, <3>2
  <2>5. Tile((Blocks \ R) \cup N)
    BY <1>1, <2>2, <2>3, <2>4, Retile
  <2>6. QED
    BY <1>15, <2>1, <2>5
<1>17. free_lists' \in [Orders -> SUBSET Bases]
  <2>1. \A o \in Orders : free_lists[o] \subseteq Bases
    BY <1>1 DEF BuddyType
  <2>2. Enclosing(off, top) \in Bases
    BY <1>9 DEF Block
  <2>3. QED
    BY <1>8, <2>1, <2>2
<1>18. hdr' = Stamp(Stamp(hdr, "FREE", {b}), "FREE", {m})
  BY <1>4, <1>8
<1>19. QED
  BY <1>2, <1>7, <1>8, <1>9, <1>11, <1>12, <1>14, <1>16, <1>17, <1>18 DEF m, G

\* A release preserves the invariant.
LEMMA FreeStep ==
  ASSUME BuddyInv, NEW off \in Bases, pai_buddy_free(off)
  PROVE  BuddyInv'
<1>1. BuddyType /\ Tile(Blocks) /\ HeadersExact /\ AllocIsHeld /\ NoTwins
  BY DEF BuddyInv, BuddyCore
<1>2. PICK b \in held, top \in Orders :
           /\ b.off = off /\ b.order <= top
           /\ Buddies(off, b.order, top) \subseteq FreeBlocks
           /\ top < MaxOrder => ~block_is_free(BuddyOff(off, top), top)
           /\ held' = held \ {b}
           /\ FreeBlocks' = (FreeBlocks \ Buddies(off, b.order, top)) \cup {Around(off, top)}
           /\ free_lists' \in [Orders -> SUBSET Bases]
           /\ hdr' = Stamp(Stamp(hdr, "FREE", {b}), "FREE", {Around(off, top)})
           /\ last' = [op |-> "free", order |-> b.order]
           /\ Aligned(Around(off, top))
           /\ Tile(Blocks')
  BY FreeEffect
<1> DEFINE m == Around(off, top)
           G == Buddies(off, b.order, top)
           h1 == Stamp(hdr, "FREE", {b})
<1>3. b \in Blocks /\ Aligned(b) /\ b \notin FreeBlocks
  BY <1>1, HeldNotFree DEF Tile, Blocks
<1>4. /\ b.order \in Orders /\ b.off \in Nat /\ b.off < Pow(MaxOrder)
  BY <1>3, AlignedFacts
<1>5. /\ Aligned(m) /\ m.off = Enclosing(off, top) /\ m.order = top
      /\ m.off \in Bases /\ m.off \in Nat /\ Within(m.off, m)
      /\ Within(off, m)
  BY <1>2, <1>4, AroundFacts, AlignedFacts
<1>6. FreeBlocks' = (FreeBlocks \ G) \cup {m} /\ hdr' = Stamp(h1, "FREE", {m})
      /\ G \subseteq FreeBlocks
  BY <1>2
<1>7. \A z \in Nat : Within(z, m) => Within(z, b) \/ \E c \in G : Within(z, c)
  BY <1>2, <1>3, MergeCovers
<1>a. h1 = Stamp(hdr, "FREE", {b})
  OBVIOUS
<1>b. m = Around(off, top)
  OBVIOUS
<1> HIDE DEF m, G, h1
<1>8. \A x \in Bases : /\ x = m.off => hdr'[x] = [magic |-> "FREE", order |-> top]
                       /\ x # m.off => hdr'[x] = h1[x]
  <2> SUFFICES ASSUME NEW x \in Bases
               PROVE  /\ x = m.off => hdr'[x] = [magic |-> "FREE", order |-> top]
                      /\ x # m.off => hdr'[x] = h1[x]
    OBVIOUS
  <2>1. /\ \A c \in {m} : c.off = x => Stamp(h1, "FREE", {m})[x] = [magic |-> "FREE", order |-> c.order]
        /\ (\A c \in {m} : c.off # x) => Stamp(h1, "FREE", {m})[x] = h1[x]
    BY StampFacts
  <2>2. QED
    BY <1>5, <1>6, <2>1
<1>9. \A x \in Bases : /\ x = off => h1[x] = [magic |-> "FREE", order |-> b.order]
                       /\ x # off => h1[x] = hdr[x]
  <2> SUFFICES ASSUME NEW x \in Bases
               PROVE  /\ x = off => h1[x] = [magic |-> "FREE", order |-> b.order]
                      /\ x # off => h1[x] = hdr[x]
    OBVIOUS
  <2>1. /\ \A c \in {b} : c.off = x => Stamp(hdr, "FREE", {b})[x] = [magic |-> "FREE", order |-> c.order]
        /\ (\A c \in {b} : c.off # x) => Stamp(hdr, "FREE", {b})[x] = hdr[x]
    BY StampFacts
  <2>2. QED
    BY <1>2, <1>a, <2>1
<1>10. ASSUME NEW c \in Blocks, c # b, c \notin G
       PROVE  hdr'[c.off] = hdr[c.off]
  <2>1. Aligned(c)
    BY <1>1 DEF Tile
  <2>2. c.off \in Bases /\ c.off \in Nat /\ Within(c.off, c)
    BY <2>1, AlignedFacts
  <2>3. c.off # off
    BY <1>1, <1>2, <1>3, <1>10, SameOff
  <2>4. c.off # m.off
    <3> SUFFICES ASSUME c.off = m.off PROVE FALSE
      OBVIOUS
    <3>1. Within(c.off, b) \/ \E d \in G : Within(c.off, d)
      BY <1>5, <1>7, <2>2
    <3>2. \A d \in Blocks : Within(c.off, d) => c = d
      BY <1>1, <2>2 DEF Tile, Apart
    <3>3. G \subseteq Blocks
      BY <1>6 DEF Blocks
    <3>4. QED
      BY <1>3, <1>10, <3>1, <3>2, <3>3
  <2>5. QED
    BY <1>8, <1>9, <2>2, <2>3, <2>4
<1>11. hdr' \in [Bases -> [magic: Magic, order: Orders]]
  <2>1. PICK bs, ms : bs = {b} /\ ms = {m}
    OBVIOUS
  <2>2. /\ (\A c \in bs : c.order \in Orders) /\ \A c, d \in bs : c.off = d.off => c = d
        /\ (\A c \in ms : c.order \in Orders) /\ \A c, d \in ms : c.off = d.off => c = d
    BY <1>4, <1>5, <2>1
  <2>3. "FREE" \in Magic /\ hdr \in [Bases -> [magic: Magic, order: Orders]]
    BY <1>1 DEF Magic, BuddyType
  <2>4. Stamp(hdr, "FREE", bs) \in [Bases -> [magic: Magic, order: Orders]]
    BY <2>2, <2>3, StampType
  <2>5. h1 \in [Bases -> [magic: Magic, order: Orders]]
    BY <1>a, <2>1, <2>4
  <2>6. Stamp(h1, "FREE", ms) \in [Bases -> [magic: Magic, order: Orders]]
    BY <2>2, <2>3, <2>5, StampType
  <2>7. QED
    BY <1>6, <2>1, <2>6
<1>12. BuddyType'
  BY <1>1, <1>2, <1>11 DEF BuddyType
<1>13. HeadersExact'
  <2>1. ASSUME NEW c \in held' PROVE hdr'[c.off] = [magic |-> "ALLOC", order |-> c.order]
    <3>1. c \in held /\ c # b
      BY <1>2
    <3>2. c \in Blocks /\ c \notin G
      BY <1>1, <1>6, <3>1, HeldNotFree DEF Blocks
    <3>3. QED
      BY <1>1, <1>10, <3>1, <3>2 DEF HeadersExact
  <2>2. ASSUME NEW c \in FreeBlocks' PROVE hdr'[c.off] = [magic |-> "FREE", order |-> c.order]
    <3>1. CASE c = m
      BY <1>5, <1>8, <3>1
    <3>2. CASE c \in FreeBlocks /\ c \notin G
      <4>1. c \in Blocks /\ c # b
        BY <1>3, <3>2 DEF Blocks
      <4>2. QED
        BY <1>1, <1>10, <3>2, <4>1 DEF HeadersExact
    <3>3. QED
      BY <1>6, <3>1, <3>2
  <2>3. QED
    BY <2>1, <2>2 DEF HeadersExact
<1>14. AllocIsHeld'
  <2> SUFFICES ASSUME NEW x \in Bases, hdr'[x].magic = "ALLOC"
               PROVE  \E c \in held' : c.off = x
    BY DEF AllocIsHeld
  <2>1. x # m.off /\ x # off
    <3>1. CASE x = m.off
      <4>1. hdr'[x] = [magic |-> "FREE", order |-> top]
        BY <1>8, <3>1
      <4>2. hdr'[x].magic = "FREE"
        BY <4>1
      <4>3. QED
        BY <4>2
    <3>2. CASE x = off /\ x # m.off
      <4>1. hdr'[x] = [magic |-> "FREE", order |-> b.order]
        BY <1>8, <1>9, <3>2
      <4>2. hdr'[x].magic = "FREE"
        BY <4>1
      <4>3. QED
        BY <4>2
    <3>3. QED
      BY <3>1, <3>2
  <2>2. hdr[x].magic = "ALLOC"
    BY <1>8, <1>9, <2>1
  <2>3. PICK c \in held : c.off = x
    BY <1>1, <2>2 DEF AllocIsHeld
  <2>4. QED
    BY <1>2, <2>1, <2>3
<1>15. ASSUME NEW g \in FreeBlocks', g # m, g.order = top, top < MaxOrder,
              Enclosing(m.off, top + 1) = Enclosing(g.off, top + 1)
       PROVE  FALSE
  <2>1. g \in FreeBlocks
    BY <1>6, <1>15
  <2>2. Aligned(g)
    BY <1>1, <2>1 DEF Tile, Blocks
  <2>3. g.off \in Nat /\ g.off < Pow(MaxOrder) /\ g = [off |-> g.off, order |-> top]
        /\ Within(g.off, g)
    BY <1>15, <2>2, AlignedFacts
  <2>4. Enclosing(g.off, top) = g.off
    BY <1>15, <2>2, <2>3, AroundUnique
  <2>5. top \in 0..MaxOrder /\ top + 1 \in Orders
    BY <1>15, OrdersAssumption DEF Orders
  <2>6. Enclosing(m.off, top + 1) = Enclosing(off, top + 1)
    <3>1. PICK e : e = Around(off, top + 1)
      OBVIOUS
    <3>2. Aligned(e) /\ e.off = Enclosing(off, top + 1) /\ e.order = top + 1
      BY <1>2, <1>4, <2>5, <3>1, AroundFacts
    <3>3. Within(m.off, e)
      <4>1. \A z \in Nat : Within(z, Around(off, top)) => Within(z, Around(off, top + 1))
        BY <1>2, <1>4, <1>15, Buddy1Facts
      <4>2. QED
        BY <1>5, <1>b, <3>1, <4>1
    <3>4. QED
      BY <1>5, <3>2, <3>3, AroundUnique
  <2>7. off \in Nat /\ off < Pow(MaxOrder)
    BY <1>2, <1>4
  <2>8. g.off = Enclosing(off, top + 1) \/ g.off = Enclosing(off, top + 1) + Pow(top)
    BY <1>15, <2>3, <2>4, <2>5, <2>6, BuddyHalves
  <2>9. g.off # Enclosing(off, top)
    <3>1. m = [off |-> Enclosing(off, top), order |-> top]
      BY <1>b DEF Around
    <3>2. QED
      BY <1>15, <2>3, <3>1
  <2>10. g.off = BuddyOff(off, top)
    BY <1>15, <2>5, <2>7, <2>8, <2>9, BuddyHalves
  <2>11. hdr[g.off] = [magic |-> "FREE", order |-> top]
    BY <1>1, <1>15, <2>1 DEF HeadersExact
  <2>12. block_is_free(BuddyOff(off, top), top)
    BY <2>10, <2>11 DEF block_is_free
  <2>13. QED
    BY <1>2, <1>15, <2>12
<1>16. NoTwins'
  <2> SUFFICES ASSUME NEW f \in FreeBlocks', NEW g \in FreeBlocks',
                      f.order < MaxOrder, f.order = g.order,
                      Enclosing(f.off, f.order + 1) = Enclosing(g.off, f.order + 1)
               PROVE  f = g
    BY DEF NoTwins, Enclosing
  <2>1. CASE f = m
    BY <1>5, <1>15, <2>1
  <2>2. CASE g = m
    BY <1>5, <1>15, <2>2
  <2>3. CASE f \in FreeBlocks /\ g \in FreeBlocks
    BY <1>1, <2>3 DEF NoTwins
  <2>4. QED
    BY <1>6, <2>1, <2>2, <2>3
<1>17. RefusedEmpty'
  BY <1>2 DEF RefusedEmpty
<1>18. QED
  BY <1>2, <1>12, <1>13, <1>14, <1>16, <1>17 DEF BuddyInv, BuddyCore

-----------------------------------------------------------------------------
(* The other steps and the theorems.                                       *)

\* The order of a request.
LEMMA OrderForType ==
  ASSUME NEW size, NEW align
  PROVE  /\ OrderFor(size, align) \in Nat /\ MinOrder <= OrderFor(size, align)
         /\ OrderFor(size, align) <= MaxOrder => size + align + Header <= 2^OrderFor(size, align)
<1> DEFINE T == {o \in MinOrder..(MaxOrder + 1) :
                   o = MaxOrder + 1 \/ size + align + Header <= 2^o}
<1>1. MinOrder \in Nat /\ MaxOrder \in Nat
  BY OrdersAssumption
<1>2. MaxOrder + 1 \in T /\ T \in SUBSET Nat
  BY OrdersAssumption
<1>3. OrderFor(size, align) = CHOOSE x \in T : \A y \in T : x <= y
  BY DEF OrderFor, Min
<1>4. \A o \in T : /\ o \in Nat /\ MinOrder <= o
                   /\ o = MaxOrder + 1 \/ size + align + Header <= 2^o
  BY <1>1
<1> HIDE DEF T
<1>5. \E x \in T : \A y \in T : x <= y
  BY <1>2, LeastNat
<1>6. OrderFor(size, align) \in T
  BY <1>3, <1>5
<1>7. QED
  BY <1>1, <1>4, <1>6

\* Nothing found: no block of the order or above is free.
LEMMA NothingFound ==
  ASSUME NEW order \in Nat, MinOrder <= order, order > MaxOrder \/ Found(order) = {}
  PROVE  \A o \in Orders : order <= o => free_lists[o] = {}
<1> SUFFICES ASSUME NEW o \in Orders, order <= o, free_lists[o] # {} PROVE FALSE
  OBVIOUS
<1> DEFINE T == {f \in order..MaxOrder : free_lists[f] # {}}
<1>1. MaxOrder \in Nat /\ o \in order..MaxOrder /\ ~(order > MaxOrder)
  BY OrdersAssumption DEF Orders
<1>2. o \in T /\ T \in SUBSET Nat
  BY <1>1
<1>3. \A f \in order..MaxOrder : free_lists[f] # {} => f \in T
  OBVIOUS
<1>4. \A f \in T : f \in order..MaxOrder /\ free_lists[f] # {}
  OBVIOUS
<1> HIDE DEF T
<1>5. PICK f \in T : \A g \in T : f <= g
  BY <1>2, LeastNat
<1>6. \A g \in order..(f - 1) : free_lists[g] = {}
  <2> SUFFICES ASSUME NEW g \in order..(f - 1), free_lists[g] # {} PROVE FALSE
    OBVIOUS
  <2>1. g \in order..MaxOrder /\ ~(f <= g)
    BY <1>1, <1>4, <1>5
  <2>2. QED
    BY <1>3, <1>5, <2>1
<1>7. f \in Found(order)
  BY <1>4, <1>5, <1>6 DEF Found
<1>8. QED
  BY <1>1, <1>7

\* A step that changes neither blocks nor headers.
LEMMA IdleStep ==
  ASSUME BuddyInv, UNCHANGED <<hdr, free_lists, used_bytes, held>>, RefusedEmpty'
  PROVE  BuddyInv'
<1>1. UNCHANGED <<FreeBlocks, Blocks>>
  BY DEF FreeBlocks, Blocks
<1>2. BuddyCore'
  BY <1>1 DEF BuddyInv, BuddyCore, BuddyType, HeadersExact
<1>3. AllocIsHeld' /\ NoTwins'
  BY <1>1 DEF BuddyInv, AllocIsHeld, NoTwins, Enclosing
<1>4. QED
  BY <1>2, <1>3 DEF BuddyInv

\* Every step preserves the invariant.
LEMMA NextBuddy == BuddyInv /\ [Next]_buddyVars => BuddyInv'
<1> SUFFICES ASSUME BuddyInv, [Next]_buddyVars PROVE BuddyInv'
  OBVIOUS
<1>1. CASE UNCHANGED buddyVars
  <2>1. RefusedEmpty'
    BY <1>1 DEF buddyVars, RefusedEmpty, BuddyInv
  <2>2. QED
    BY <1>1, <2>1, IdleStep DEF buddyVars
<1>2. ASSUME NEW s \in Sizes, NEW a \in Aligns, pai_buddy_alloc(OrderFor(s, a))
      PROVE  BuddyInv'
  BY <1>2, OrderForType, AllocStep
<1>3. ASSUME NEW s \in Sizes, NEW a \in Aligns, alloc_refused(OrderFor(s, a))
      PROVE  BuddyInv'
  <2>1. PICK order : order = OrderFor(s, a)
    OBVIOUS
  <2>2. order \in Nat /\ MinOrder <= order
    BY <2>1, OrderForType
  <2>3. /\ order > MaxOrder \/ Found(order) = {}
        /\ last' = [op |-> "refused", order |-> order]
        /\ UNCHANGED <<hdr, free_lists, used_bytes, held>>
    BY <1>3, <2>1 DEF alloc_refused
  <2>4. \A o \in Orders : order <= o => free_lists[o] = {}
    BY <2>2, <2>3, NothingFound
  <2>5. RefusedEmpty'
    BY <2>2, <2>3, <2>4 DEF RefusedEmpty
  <2>6. QED
    BY <2>3, <2>5, IdleStep
<1>4. ASSUME NEW off \in Bases, free_ignored(off)
      PROVE  BuddyInv'
  <2>1. RefusedEmpty'
    BY <1>4 DEF free_ignored, RefusedEmpty
  <2>2. QED
    BY <1>4, <2>1, IdleStep DEF free_ignored
<1>5. QED
  BY <1>1, <1>2, <1>3, <1>4, FreeStep DEF Next

\* The whole region as one block.
Root == [off |-> 0, order |-> MaxOrder]

\* It is a tiling by itself.
LEMMA RootTile == Tile({Root}) /\ Root \in Block /\ 0 \in Bases
<1>1. MaxOrder \in Orders /\ MaxOrder \in 0..MaxOrder
  BY OrdersAssumption DEF Orders
<1>2. Pow(MaxOrder) \in Nat \ {0}
  BY <1>1, PowLaws
<1>3. Multiple(0, Pow(MaxOrder))
  <2>1. 0 \in Nat /\ 0 = 0 * Pow(MaxOrder)
    BY <1>2
  <2>2. QED
    BY <2>1 DEF Multiple
<1>4. Aligned(Root) /\ 0 \in Bases
  BY <1>1, <1>2, <1>3, AlignedBlock DEF Root
<1>5. Root.off = 0 /\ Root.order = MaxOrder
  BY DEF Root
<1>6. \A z \in Region : Within(z, Root)
  BY <1>2, <1>5 DEF Region, Within
<1>7. QED
  BY <1>4, <1>6 DEF Tile, Apart, Aligned

\* A region set up as one free block, whatever its headers were before.
LEMMA FreshCore ==
  ASSUME NEW h \in [Bases -> [magic: Magic, order: Orders]],
         hdr = Stamp(h, "FREE", {Root}),
         free_lists = [o \in Orders |-> IF o = MaxOrder THEN {0} ELSE {}],
         held = {}
  PROVE  BuddyCore /\ FreeBlocks = {Root} /\ \A x \in Bases : x # 0 => hdr[x] = h[x]
<1>1. Root.off = 0 /\ Root.order = MaxOrder /\ Root \in Block /\ 0 \in Bases
      /\ MaxOrder \in Orders
  BY RootTile, OrdersAssumption DEF Root, Orders
<1>2. ASSUME NEW b \in Block PROVE b.off \in free_lists[b.order] <=> b = Root
  <2>1. b = [off |-> b.off, order |-> b.order] /\ b.order \in Orders
    BY DEF Block
  <2>2. free_lists[b.order] = IF b.order = MaxOrder THEN {0} ELSE {}
    BY <2>1
  <2>3. b.off \in free_lists[b.order] <=> b.order = MaxOrder /\ b.off = 0
    BY <2>2
  <2>4. QED
    BY <2>1, <2>3 DEF Root
<1>3. FreeBlocks = {Root}
  BY <1>1, <1>2 DEF FreeBlocks
<1>4. Tile(Blocks)
  <2>1. Blocks = {Root}
    BY <1>3 DEF Blocks
  <2>2. QED
    BY <2>1, RootTile
<1>5. PICK bs : bs = {Root}
  OBVIOUS
<1>6. /\ \A b, c \in bs : b.off = c.off => b = c
      /\ \A b \in bs : b.order \in Orders
      /\ "FREE" \in Magic /\ hdr = Stamp(h, "FREE", bs)
  BY <1>1, <1>5 DEF Magic
<1>7. hdr \in [Bases -> [magic: Magic, order: Orders]]
  <2>1. Stamp(h, "FREE", bs) \in [Bases -> [magic: Magic, order: Orders]]
    BY <1>6, StampType
  <2>2. QED
    BY <1>6, <2>1
<1>8. \A x \in Bases : /\ x = 0 => hdr[x] = [magic |-> "FREE", order |-> MaxOrder]
                       /\ x # 0 => hdr[x] = h[x]
  <2> SUFFICES ASSUME NEW x \in Bases
               PROVE  /\ x = 0 => hdr[x] = [magic |-> "FREE", order |-> MaxOrder]
                      /\ x # 0 => hdr[x] = h[x]
    OBVIOUS
  <2>1. /\ \A b \in bs : b.off = x => hdr[x] = [magic |-> "FREE", order |-> b.order]
        /\ (\A b \in bs : b.off # x) => hdr[x] = h[x]
    BY <1>6, StampFacts
  <2>2. QED
    BY <1>1, <1>5, <2>1
<1>9. HeadersExact
  BY <1>1, <1>3, <1>8 DEF HeadersExact
<1>10. BuddyType
  BY <1>1, <1>7 DEF BuddyType
<1>11. QED
  BY <1>3, <1>4, <1>8, <1>9, <1>10 DEF BuddyCore

\* A region just set up.
FreshRegion ==
  /\ \E h \in [Bases -> [magic: Magic, order: Orders]] : hdr = Stamp(h, "FREE", {Root})
  /\ free_lists = [o \in Orders |-> IF o = MaxOrder THEN {0} ELSE {}]
  /\ held = {}

\* It is tiled, in any state and so in the next.
LEMMA FreshRegionCore == FreshRegion => BuddyCore
BY FreshCore DEF FreshRegion

\* pai_buddy_init establishes the invariant.
LEMMA InitBuddy == Init => BuddyInv
<1> SUFFICES ASSUME Init PROVE BuddyInv
  OBVIOUS
<1>1. PICK h : h = [x \in Bases |-> [magic |-> "none", order |-> MinOrder]]
  OBVIOUS
<1>2. h \in [Bases -> [magic: Magic, order: Orders]]
  BY <1>1, OrdersAssumption DEF Magic, Orders
<1>3. /\ hdr = Stamp(h, "FREE", {Root})
      /\ free_lists = [o \in Orders |-> IF o = MaxOrder THEN {0} ELSE {}]
      /\ held = {} /\ last.op = "init"
  BY <1>1 DEF Init, Root
<1>4. BuddyCore /\ FreeBlocks = {Root} /\ \A x \in Bases : x # 0 => hdr[x] = h[x]
  BY <1>2, <1>3, FreshCore
<1>5. Root.off = 0 /\ Root.order = MaxOrder
  BY DEF Root
<1>6. AllocIsHeld
  <2> SUFFICES ASSUME NEW x \in Bases, hdr[x].magic = "ALLOC" PROVE FALSE
    BY DEF AllocIsHeld
  <2>1. CASE x = 0
    <3>1. hdr[0] = [magic |-> "FREE", order |-> MaxOrder]
      BY <1>4, <1>5 DEF BuddyCore, HeadersExact
    <3>2. hdr[0].magic = "FREE"
      BY <3>1
    <3>3. QED
      BY <2>1, <3>2
  <2>2. CASE x # 0
    <3>1. hdr[x] = [magic |-> "none", order |-> MinOrder]
      BY <1>1, <1>4, <2>2
    <3>2. hdr[x].magic = "none"
      BY <3>1
    <3>3. QED
      BY <3>2
  <2>3. QED
    BY <2>1, <2>2
<1>7. NoTwins
  BY <1>4 DEF NoTwins
<1>8. RefusedEmpty
  BY <1>3 DEF RefusedEmpty
<1>9. QED
  BY <1>4, <1>6, <1>7, <1>8 DEF BuddyInv

\* The bytes of a block, as the properties write them.
LEMMA BytesWithin ==
  ASSUME NEW b, Aligned(b), NEW z \in Nat
  PROVE  z \in Bytes(b) <=> Within(z, b)
<1>1. PICK x \in Nat, p \in Nat : x = b.off /\ p = Pow(b.order)
  BY AlignedFacts
<1>2. Bytes(b) = x..(x + p - 1)
  BY <1>1 DEF Bytes, Pow
<1>3. Within(z, b) <=> x <= z /\ z < x + p
  BY <1>1 DEF Within
<1>4. QED
  BY <1>2, <1>3

\* The blocks in use and the free ones tile the region, and their headers tell
\* the truth: pai_buddy_alloc and pai_buddy_free, in any order, hand no byte
\* out twice and lose none.
THEOREM BlocksTile == Spec => []Tiling
<1>1. BuddyInv => Tiling
  <2> SUFFICES ASSUME BuddyInv PROVE Tiling
    OBVIOUS
  <2>1. Tile(Blocks) /\ HeadersExact
    BY DEF BuddyInv, BuddyCore
  <2>2. ASSUME NEW x \in Bases
        PROVE  Cardinality({b \in held \cup FreeBlocks : x \in Bytes(b)}) = 1
    <3>1. x \in Nat /\ x \in Region
      <4>1. x \in Nat /\ x < Pow(MaxOrder)
        BY BasesAre
      <4>2. Pow(MaxOrder) \in Nat
        BY OrderTypes, PowLaws
      <4>3. QED
        BY <4>1, <4>2 DEF Region
    <3>2. PICK b \in Blocks : Within(x, b)
      BY <2>1, <3>1 DEF Tile
    <3>3. \A c \in Blocks : x \in Bytes(c) <=> c = b
      <4> SUFFICES ASSUME NEW c \in Blocks PROVE x \in Bytes(c) <=> c = b
        OBVIOUS
      <4>1. x \in Bytes(c) <=> Within(x, c)
        BY <2>1, <3>1, BytesWithin DEF Tile
      <4>2. QED
        BY <2>1, <3>1, <3>2, <4>1 DEF Tile, Apart
    <3>4. {c \in held \cup FreeBlocks : x \in Bytes(c)} = {b}
      BY <3>2, <3>3 DEF Blocks
    <3>5. QED
      BY <3>4, FS_Singleton
  <2>3. QED
    BY <2>1, <2>2 DEF Tiling, HeadersExact
<1>2. QED
  BY <1>1, InitBuddy, NextBuddy, PTL DEF Spec

\* A block given back twice is recognised as long as its memory is nobody's.
THEOREM RepeatedReleaseKnown == Spec => []DoubleFreeRecognised
<1>1. BuddyInv => DoubleFreeRecognised
  <2> SUFFICES ASSUME BuddyInv, NEW x \in Bases, Untouched(x), hdr[x].magic = "ALLOC"
               PROVE  FALSE
    BY DEF DoubleFreeRecognised
  <2>1. PICK b \in held : b.off = x
    BY DEF BuddyInv, AllocIsHeld
  <2>2. Aligned(b)
    BY DEF BuddyInv, BuddyCore, Tile, Blocks
  <2>3. b.off \in Nat /\ Within(b.off, b)
    BY <2>2, AlignedFacts
  <2>4. x \in Bytes(b)
    BY <2>1, <2>2, <2>3, BytesWithin
  <2>5. QED
    BY <2>4 DEF Untouched
<1>2. QED
  BY <1>1, InitBuddy, NextBuddy, PTL DEF Spec

\* Were every byte of an aligned span free, in blocks smaller than the span,
\* the smallest of them and its other half would both be free.
LEMMA SpanInUse ==
  ASSUME BuddyInv, NEW s, Aligned(s), \A o \in Orders : s.order <= o => free_lists[o] = {}
  PROVE  \E b \in held, z \in Nat : Within(z, b) /\ Within(z, s)
<1> SUFFICES ASSUME \A b \in held, z \in Nat : ~(Within(z, b) /\ Within(z, s))
             PROVE  FALSE
  OBVIOUS
<1>1. Tile(Blocks) /\ NoTwins /\ Apart(Blocks)
  BY DEF BuddyInv, BuddyCore, Tile
<1>2. /\ s.order \in Orders /\ s.off \in Nat /\ Within(s.off, s) /\ Pow(s.order) \in Nat
      /\ s.off + Pow(s.order) <= Pow(MaxOrder) /\ Pow(MaxOrder) \in Nat
      /\ s.order \in Nat
  BY AlignedFacts, OrderTypes, PowLaws
<1>3. ASSUME NEW z \in Nat, Within(z, s)
      PROVE  \E c \in FreeBlocks : Within(z, c)
  <2>1. z \in Region
    BY <1>2, <1>3 DEF Within, Region
  <2>2. PICK c \in Blocks : Within(z, c)
    BY <1>1, <2>1 DEF Tile
  <2>3. c \notin held
    BY <1>3, <2>2
  <2>4. QED
    BY <2>2, <2>3 DEF Blocks
<1>4. \A c \in FreeBlocks : Aligned(c) /\ c.order \in Nat /\ c.order \in Orders /\ c.order < s.order
  <2> SUFFICES ASSUME NEW c \in FreeBlocks
               PROVE  Aligned(c) /\ c.order \in Nat /\ c.order \in Orders /\ c.order < s.order
    OBVIOUS
  <2>1. Aligned(c)
    BY <1>1 DEF Tile, Blocks
  <2>2. c.order \in Orders /\ c.order \in Nat
    BY <2>1, AlignedFacts
  <2>3. c.off \in free_lists[c.order]
    BY DEF FreeBlocks
  <2>4. QED
    BY <1>2, <2>1, <2>2, <2>3
<1> DEFINE T == {n \in Nat : \E c \in FreeBlocks, z \in Nat :
                    c.order = n /\ Within(z, c) /\ Within(z, s)}
<1>5. T \in SUBSET Nat /\ T # {}
  BY <1>2, <1>3, <1>4
<1>6. PICK n \in T : \A k \in T : n <= k
  BY <1>5, LeastNat
<1>7. PICK b \in FreeBlocks, y \in Nat : b.order = n /\ Within(y, b) /\ Within(y, s)
  BY <1>6
<1>8. \A c \in FreeBlocks, z \in Nat : Within(z, c) /\ Within(z, s) => n <= c.order
  BY <1>4, <1>6
<1> HIDE DEF T
<1>9. /\ Aligned(b) /\ b.off \in Nat /\ b.off < Pow(MaxOrder) /\ Within(b.off, b)
      /\ n \in Nat /\ n \in Orders /\ n < s.order /\ n < MaxOrder /\ n + 1 <= s.order
  <2>1. Aligned(b) /\ n \in Nat /\ n \in Orders /\ n < s.order
    BY <1>4, <1>7
  <2>2. n < MaxOrder /\ n + 1 <= s.order
    BY <1>2, <2>1, OrdersAssumption DEF Orders
  <2>3. QED
    BY <2>1, <2>2, AlignedFacts
<1>10. Within(b.off, s)
  <2>1. b.order <= s.order
    BY <1>2, <1>7, <1>9
  <2>2. QED
    BY <1>7, <1>9, <2>1, NestWithin
<1>11. PICK e, g : e = Around(b.off, n + 1) /\ g = Buddy1(b.off, n)
  OBVIOUS
<1>12. /\ n + 1 \in Orders /\ Aligned(g) /\ g.off = BuddyOff(b.off, n) /\ g.order = n
       /\ g.off # b.off /\ \A z \in Nat : Within(z, g) => Within(z, e)
  <2>1. Enclosing(b.off, n) = b.off
    BY <1>7, <1>9, AroundUnique
  <2>2. QED
    BY <1>9, <1>11, <2>1, Buddy1Facts
<1>13. Aligned(e) /\ Within(b.off, e) /\ e.order = n + 1 /\ e.off = Enclosing(b.off, n + 1)
  BY <1>9, <1>11, <1>12, AroundFacts
<1>14. g.off \in Nat /\ Within(g.off, g) /\ Within(g.off, e)
       /\ g = [off |-> g.off, order |-> g.order]
  BY <1>12, AlignedFacts
<1>15. Within(g.off, s)
  BY <1>9, <1>10, <1>13, <1>14, NestWithin
<1>16. PICK c \in FreeBlocks : Within(g.off, c)
  BY <1>3, <1>14, <1>15
<1>17. Aligned(c) /\ c.order \in Nat /\ n <= c.order
  BY <1>4, <1>8, <1>14, <1>15, <1>16
<1>18. CASE c.order = n
  <2>1. c.off = g.off
    <3>1. Enclosing(g.off, c.order) = c.off /\ Enclosing(g.off, g.order) = g.off
      BY <1>12, <1>14, <1>16, <1>17, AroundUnique
    <3>2. QED
      BY <1>12, <1>18, <3>1
  <2>2. Enclosing(c.off, n + 1) = e.off
    BY <1>13, <1>14, <2>1, AroundUnique
  <2>3. b = c
    BY <1>1, <1>7, <1>9, <1>13, <1>18, <2>2 DEF NoTwins
  <2>4. QED
    BY <1>12, <2>1, <2>3
<1>19. CASE c.order > n
  <2>1. e.order <= c.order
    BY <1>9, <1>13, <1>17, <1>19
  <2>2. Within(b.off, c)
    BY <1>9, <1>13, <1>14, <1>16, <1>17, <2>1, NestWithin
  <2>3. b = c
    BY <1>1, <1>9, <2>2 DEF Apart, Blocks
  <2>4. QED
    BY <1>7, <1>9, <1>19, <2>3
<1>20. QED
  BY <1>9, <1>17, <1>18, <1>19

\* An allocation is refused only if every aligned span of its size holds a byte
\* in use: merging on release misses no pair of free halves.
THEOREM RefusedOnlyWhenFull == Spec => []RefusedOnlyWithoutRoom
<1>1. BuddyInv => RefusedOnlyWithoutRoom
  <2> SUFFICES ASSUME BuddyInv, last.op = "refused", last.order <= MaxOrder,
                      NEW x \in Bases, x % 2^last.order = 0
               PROVE  \E b \in held : Bytes(b) \cap (x..(x + 2^last.order - 1)) # {}
    BY DEF RefusedOnlyWithoutRoom
  <2>1. PICK order : order = last.order
    OBVIOUS
  <2>2. /\ order \in Orders /\ order \in 0..MaxOrder
        /\ \A o \in Orders : order <= o => free_lists[o] = {}
    BY <2>1, OrdersAssumption DEF BuddyInv, RefusedEmpty, Orders
  <2>3. PICK p \in Nat \ {0} : p = Pow(order)
    BY <2>2, PowLaws
  <2>4. x \in Nat /\ x < Pow(MaxOrder)
    BY BasesAre
  <2>5. 2^last.order = p
    BY <2>1, <2>3 DEF Pow
  <2>6. Multiple(x, Pow(order))
    <3>1. x % p = 0
      BY <2>5
    <3>2. QED
      BY <2>3, <2>4, <3>1, MultipleMod
  <2>7. PICK s : s = [off |-> x, order |-> order]
    OBVIOUS
  <2>8. Aligned(s) /\ s.off = x /\ s.order = order
    BY <2>2, <2>4, <2>6, <2>7, AlignedBlock
  <2>9. PICK b \in held, z \in Nat : Within(z, b) /\ Within(z, s)
    BY <2>2, <2>8, SpanInUse
  <2>10. Aligned(b)
    BY DEF BuddyInv, BuddyCore, Tile, Blocks
  <2>11. z \in Bytes(b)
    BY <2>9, <2>10, BytesWithin
  <2>12. z \in x..(x + p - 1)
    BY <2>3, <2>4, <2>8, <2>9 DEF Within
  <2>13. QED
    BY <2>5, <2>11, <2>12
<1>2. QED
  BY <1>1, InitBuddy, NextBuddy, PTL DEF Spec

-----------------------------------------------------------------------------
(* The KV cache.                                                           *)

\* The storage of position p is that of block b: behind its header, and short
\* of its end.
Owner(p, b) ==
  /\ b \in held
  /\ blocks[p].ptr = Payload(b.off)
  /\ blocks[p].need + Align + Header <= Pow(b.order)

Stored == {p \in Positions : blocks[p].need > 0}

\* Every stored position has a block, and no two begin at the same byte.
StorageOwned ==
  /\ blocks \in [Positions -> [ptr: Nat, need: Nat]]
  /\ \A p \in Stored : \E b \in held : Owner(p, b)
  /\ \A p, q \in Stored : blocks[p].ptr = blocks[q].ptr => p = q

\* The region init_owned allocated is the cache's until destroy.
RegionOwned ==
  /\ state \in {"none", "caller", "cache"}
  /\ owned = (state = "cache")
  /\ raws = IF state = "cache" THEN 1 ELSE 0

\* A hash other than 0 was recorded; a hit is on such a position or on 0.
HashesRecorded ==
  /\ prefix_hashes \in [Positions -> Nat]
  /\ \A p \in Positions : prefix_hashes[p] # 0 => p \in seen
  /\ hit # -1 => hit \in Positions

KvInv ==
  /\ BuddyCore
  /\ StorageOwned
  /\ RegionOwned
  /\ HashesRecorded

-----------------------------------------------------------------------------

\* An empty cache has no storage.
LEMMA NothingStored ==
  ASSUME blocks = [p \in Positions |-> NoBlock]
  PROVE  StorageOwned
<1>1. blocks \in [Positions -> [ptr: Nat, need: Nat]]
  BY DEF NoBlock
<1>2. Stored = {}
  BY DEF Stored, NoBlock
<1>3. QED
  BY <1>1, <1>2 DEF StorageOwned

\* Before the first call.
LEMMA InitKv == KvInit => KvInv
<1> SUFFICES ASSUME KvInit PROVE KvInv
  OBVIOUS
<1>1. BuddyCore
  BY InitBuddy DEF KvInit, BuddyInv
<1>2. StorageOwned
  BY NothingStored DEF KvInit
<1>3. RegionOwned
  BY DEF KvInit, RegionOwned
<1>4. HashesRecorded
  BY DEF KvInit, HashesRecorded
<1>5. QED
  BY <1>1, <1>2, <1>3, <1>4 DEF KvInv

\* init, destroy and reset empty the cache and set the region up anew.
LEMMA FreshStep ==
  ASSUME KvInv, BuddyFresh, Fresh
  PROVE  BuddyCore' /\ StorageOwned' /\ HashesRecorded'
<1>1. FreshRegion'
  <2>1. hdr \in [Bases -> [magic: Magic, order: Orders]]
    BY DEF KvInv, BuddyCore, BuddyType
  <2>2. hdr' = Stamp(hdr, "FREE", {Root})
    BY DEF BuddyFresh, Root
  <2>3. QED
    BY <2>1, <2>2 DEF BuddyFresh, FreshRegion, Stamp
<1>2. FreshRegion' => BuddyCore'
  BY FreshRegionCore, PTL
<1>3. StorageOwned'
  <2>1. blocks' = [p \in Positions |-> NoBlock]
    BY DEF Fresh
  <2>2. blocks' \in [Positions -> [ptr: Nat, need: Nat]]
    BY <2>1 DEF NoBlock
  <2>3. Stored' = {}
    BY <2>1 DEF Stored, NoBlock
  <2>4. QED
    BY <2>2, <2>3 DEF StorageOwned
<1>4. HashesRecorded'
  BY DEF Fresh, HashesRecorded
<1>5. QED
  BY <1>1, <1>2, <1>3, <1>4

\* A payload begins behind the header, less than the alignment further on.
LEMMA PayloadFacts ==
  ASSUME NEW x \in Nat
  PROVE  Payload(x) \in Nat /\ x + Header <= Payload(x) /\ Payload(x) < x + Header + Align
<1>1. PICK y \in Nat : y = x + Header
  BY RequestsAssumption
<1>2. Payload(x) = ((y + 64 - 1) \div 64) * 64
  BY <1>1 DEF Payload, AlignUp, Align
<1>3. PICK q \in Nat, r \in Nat : y + 63 = q * 64 + r /\ r < 64 /\ q = (y + 63) \div 64
  BY DivMod
<1>4. Payload(x) = q * 64
  BY <1>2, <1>3
<1>5. QED
  BY <1>1, <1>3, <1>4 DEF Align

\* What an owned position uses lies in its block, behind the header.
LEMMA OwnerFacts ==
  ASSUME BuddyCore, StorageOwned, NEW p \in Stored, NEW b \in held, Owner(p, b)
  PROVE  /\ Aligned(b) /\ b.off \in Nat /\ Pow(b.order) \in Nat
         /\ blocks[p].ptr \in Nat /\ blocks[p].need \in Nat \ {0}
         /\ b.off + Header <= blocks[p].ptr
         /\ blocks[p].ptr + blocks[p].need <= b.off + Pow(b.order)
<1>1. Aligned(b)
  BY DEF BuddyCore, Tile, Blocks
<1>2. b.off \in Nat /\ Pow(b.order) \in Nat
  BY <1>1, AlignedFacts
<1>3. blocks[p].ptr \in Nat /\ blocks[p].need \in Nat \ {0}
  BY DEF StorageOwned, Stored
<1>4. Header \in Nat
  BY RequestsAssumption
<1>5. /\ blocks[p].ptr = Payload(b.off)
      /\ blocks[p].need + Align + Header <= Pow(b.order)
  BY DEF Owner
<1>6. b.off + Header <= Payload(b.off) /\ Payload(b.off) < b.off + Header + Align
  BY <1>2, PayloadFacts
<1>7. QED
  BY <1>1, <1>2, <1>3, <1>4, <1>5, <1>6 DEF Align

\* A reservation is stored in a block that nobody had.
LEMMA ReserveStorage ==
  ASSUME KvInv, NEW t \in Tokens, pai_kv_cache_reserve(t)
  PROVE  BuddyCore' /\ StorageOwned'
<1> DEFINE need == BlockBytes * t
<1>1. need \in Nat
  BY KvAssumption
<1>2. PICK order : order = OrderFor(need, Align)
  OBVIOUS
<1>3. order \in Nat /\ MinOrder <= order /\ (order <= MaxOrder => need + Align + Header <= 2^order)
  BY <1>2, OrderForType
<1>4. pai_buddy_alloc(order) /\ BuddyCore /\ StorageOwned
  BY <1>2 DEF pai_kv_cache_reserve, KvInv
<1>5. BuddyCore'
  BY <1>3, <1>4, AllocCore
<1>6. PICK off \in Bases, found \in Orders :
        /\ order \in Orders /\ order <= found
        /\ [off |-> off, order |-> found] \in FreeBlocks
        /\ held' = held \cup {[off |-> off, order |-> order]}
  BY <1>3, <1>4, AllocEffect
<1> DEFINE a == [off |-> off, order |-> order]
           free == [off |-> off, order |-> found]
<1>7. a \notin held
  <2> SUFFICES ASSUME a \in held PROVE FALSE
    OBVIOUS
  <2>1. a \in Blocks /\ free \in Blocks /\ a.off = free.off /\ Tile(Blocks)
    BY <1>4, <1>6 DEF Blocks, BuddyCore
  <2>2. a = free
    BY <2>1, SameOff
  <2>3. QED
    BY <1>4, <1>6, <2>2, HeldNotFree DEF BuddyCore
<1>8. blocks' = [blocks EXCEPT ![positions] = [ptr |-> Payload(off), need |-> need]]
  <2>1. (CHOOSE x \in held' : x \notin held) = a
    BY <1>6, <1>7
  <2>2. blocks' = [blocks EXCEPT ![positions] =
                     [ptr |-> Payload((CHOOSE x \in held' : x \notin held).off), need |-> need]]
    BY DEF pai_kv_cache_reserve
  <2>3. a.off = off
    OBVIOUS
  <2> HIDE DEF need, a
  <2>4. QED
    BY <2>1, <2>2, <2>3
<1>9. a \in held' /\ a.off = off /\ a.order = order /\ Aligned(a)
  <2>1. a \in held' /\ a.off = off /\ a.order = order
    BY <1>6
  <2>2. \A b \in Blocks' : Aligned(b)
    BY <1>5 DEF BuddyCore, Tile
  <2>3. QED
    BY <2>1, <2>2 DEF Blocks
<1>10. off \in Nat /\ Pow(order) \in Nat /\ need + Align + Header <= Pow(order) /\ Header \in Nat
  <2>1. order <= MaxOrder
    BY <1>6, OrderTypes
  <2>2. need + Align + Header <= Pow(order)
    BY <1>3, <2>1 DEF Pow
  <2>3. QED
    BY <1>9, <2>2, AlignedFacts, RequestsAssumption
<1>11. Payload(off) \in Nat /\ Within(Payload(off), a)
  <2>1. Payload(off) \in Nat /\ off + Header <= Payload(off)
        /\ Payload(off) < off + Header + Align
    BY <1>10, PayloadFacts
  <2> HIDE DEF need, a
  <2>2. QED
    BY <1>1, <1>9, <1>10, <2>1 DEF Within, Align
<1> HIDE DEF need, a, free
<1>12. blocks \in [Positions -> [ptr: Nat, need: Nat]]
  BY <1>4 DEF StorageOwned
<1>13. blocks' \in [Positions -> [ptr: Nat, need: Nat]]
  BY <1>1, <1>8, <1>11, <1>12
<1>14. \A q \in Positions : q # positions => blocks'[q] = blocks[q]
  BY <1>8, <1>12
<1>15. positions \in Positions =>
         blocks'[positions].ptr = Payload(off) /\ blocks'[positions].need = need
  BY <1>8, <1>12
<1>16. ASSUME NEW q \in Stored', q # positions
       PROVE  /\ q \in Stored /\ blocks'[q] = blocks[q]
              /\ blocks[q].ptr # Payload(off)
              /\ \E b \in held : Owner(q, b)
  <2>1. q \in Positions /\ blocks'[q] = blocks[q] /\ q \in Stored
    BY <1>14, <1>16 DEF Stored
  <2>2. PICK b \in held : Owner(q, b)
    BY <1>4, <2>1 DEF StorageOwned
  <2>3. /\ b.off \in Nat /\ Pow(b.order) \in Nat
        /\ blocks[q].ptr \in Nat /\ blocks[q].need \in Nat \ {0}
        /\ b.off + Header <= blocks[q].ptr
        /\ blocks[q].ptr + blocks[q].need <= b.off + Pow(b.order)
    BY <1>4, <2>1, <2>2, OwnerFacts
  <2>4. Within(blocks[q].ptr, b)
    BY <1>10, <2>3 DEF Within
  <2>5. b # a /\ b \in held'
    BY <1>6, <1>7, <2>2 DEF a
  <2>6. Apart(Blocks') /\ a \in Blocks' /\ b \in Blocks'
    BY <1>5, <1>9, <2>5 DEF BuddyCore, Tile, Blocks
  <2>7. blocks[q].ptr # Payload(off)
    BY <1>11, <2>3, <2>4, <2>5, <2>6 DEF Apart
  <2>8. QED
    BY <2>1, <2>2, <2>7
<1>17. ASSUME NEW q \in Stored' PROVE \E b \in held' : Owner(q, b)'
  <2>1. CASE q = positions
    <3>1. q \in Positions
      BY DEF Stored
    <3>2. Owner(q, a)'
      BY <1>9, <1>10, <1>15, <2>1, <3>1 DEF Owner
    <3>3. QED
      BY <1>9, <3>2
  <2>2. CASE q # positions
    <3>1. PICK b \in held : Owner(q, b)
      BY <1>16, <2>2
    <3>2. b \in held' /\ Owner(q, b)'
      BY <1>6, <1>16, <2>2, <3>1 DEF Owner
    <3>3. QED
      BY <3>2
  <2>3. QED
    BY <2>1, <2>2
<1>18. ASSUME NEW p \in Stored', NEW q \in Stored', blocks'[p].ptr = blocks'[q].ptr
       PROVE  p = q
  <2>1. CASE p # positions /\ q # positions
    BY <1>4, <1>16, <1>18, <2>1 DEF StorageOwned
  <2>2. CASE p = positions /\ q # positions
    <3>1. p \in Positions
      BY DEF Stored
    <3>2. QED
      BY <1>15, <1>16, <1>18, <2>2, <3>1
  <2>3. CASE q = positions /\ p # positions
    <3>1. q \in Positions
      BY DEF Stored
    <3>2. QED
      BY <1>15, <1>16, <1>18, <2>3, <3>1
  <2>4. QED
    BY <2>1, <2>2, <2>3
<1>19. QED
  BY <1>5, <1>13, <1>17, <1>18 DEF StorageOwned

\* A step that leaves the suballocator and the stored positions alone.
LEMMA SameStorage ==
  ASSUME BuddyCore, StorageOwned, UNCHANGED <<hdr, free_lists, held, blocks>>
  PROVE  BuddyCore' /\ StorageOwned'
<1>1. UNCHANGED <<FreeBlocks, Blocks, Stored>>
  BY DEF FreeBlocks, Blocks, Stored
<1>2. BuddyCore'
  BY <1>1 DEF BuddyCore, BuddyType, HeadersExact
<1>3. \A p, b : Owner(p, b)' <=> Owner(p, b)
  BY DEF Owner
<1>4. StorageOwned'
  BY <1>1, <1>3 DEF StorageOwned
<1>5. QED
  BY <1>2, <1>4

\* Every call keeps storage, ownership and hashes sound.
LEMMA NextKv == KvInv /\ [KvNext]_vars => KvInv'
<1> SUFFICES ASSUME KvInv, [KvNext]_vars PROVE KvInv'
  OBVIOUS
<1>a. BuddyCore /\ StorageOwned /\ RegionOwned /\ HashesRecorded
  BY DEF KvInv
<1>1. CASE (\E ok \in BOOLEAN : pai_kv_cache_init(ok) \/ pai_kv_cache_init_owned(ok))
           \/ pai_kv_cache_destroy \/ pai_kv_cache_reset
  <2>1. BuddyFresh /\ Fresh
    BY <1>1 DEF pai_kv_cache_init, pai_kv_cache_init_owned,
       pai_kv_cache_destroy,
                pai_kv_cache_reset
  <2>2. BuddyCore' /\ StorageOwned' /\ HashesRecorded'
    BY <2>1, FreshStep
  <2>3. RegionOwned'
    <3>1. ASSUME NEW ok \in BOOLEAN, pai_kv_cache_init(ok) PROVE RegionOwned'
      <4>1. state' # "cache" /\ owned' = FALSE /\ raws' = 0
        BY <1>a, <3>1 DEF pai_kv_cache_init, RegionOwned
      <4>2. QED
        BY <3>1, <4>1 DEF pai_kv_cache_init, RegionOwned
    <3>2. ASSUME NEW ok \in BOOLEAN, pai_kv_cache_init_owned(ok) PROVE RegionOwned'
      <4>1. raws = 0
        BY <1>a, <3>2 DEF pai_kv_cache_init_owned, RegionOwned
      <4>2. CASE ok
        <5>1. state' = "cache" /\ raws' = 1
          BY <3>2, <4>1, <4>2 DEF pai_kv_cache_init_owned
        <5>2. owned' = TRUE
          BY <3>2, <4>2 DEF pai_kv_cache_init_owned
        <5>3. owned' = (state' = "cache")
          BY <5>1, <5>2
        <5>4. QED
          BY <5>1, <5>3 DEF RegionOwned
      <4>3. CASE ~ok
        <5>1. state' = "none" /\ raws' = 0
          BY <3>2, <4>1, <4>3 DEF pai_kv_cache_init_owned
        <5>2. owned' = FALSE
          BY <3>2, <4>3 DEF pai_kv_cache_init_owned
        <5>3. owned' = (state' = "cache")
          BY <5>1, <5>2
        <5>4. QED
          BY <5>1, <5>3 DEF RegionOwned
      <4>4. QED
        BY <4>2, <4>3
    <3>3. CASE pai_kv_cache_destroy
      <4>1. state' = "none" /\ owned' = FALSE
        BY <3>3 DEF pai_kv_cache_destroy
      <4>2. raws' = 0
        <5>1. CASE state = "cache"
          <6>1. owned /\ raws = 1
            BY <1>a, <5>1 DEF RegionOwned
          <6>2. raws' = raws - 1
            BY <3>3, <5>1, <6>1 DEF pai_kv_cache_destroy
          <6>3. QED
            BY <6>1, <6>2
        <5>2. CASE state # "cache"
          BY <1>a, <3>3, <5>2 DEF pai_kv_cache_destroy, RegionOwned
        <5>3. QED
          BY <5>1, <5>2
      <4>3. owned' = (state' = "cache")
        BY <4>1
      <4>4. QED
        BY <4>1, <4>2, <4>3 DEF RegionOwned
    <3>4. CASE pai_kv_cache_reset
      BY <1>a, <3>4 DEF pai_kv_cache_reset, RegionOwned
    <3>5. QED
      BY <1>1, <3>1, <3>2, <3>3, <3>4
  <2>4. QED
    BY <2>2, <2>3 DEF KvInv
<1>2. ASSUME NEW t \in Tokens, pai_kv_cache_reserve(t)
      PROVE  KvInv'
  <2>1. BuddyCore' /\ StorageOwned'
    BY <1>2, ReserveStorage
  <2>2. RegionOwned' /\ HashesRecorded'
    BY <1>2, <1>a DEF pai_kv_cache_reserve, RegionOwned, HashesRecorded
  <2>3. QED
    BY <2>1, <2>2 DEF KvInv
<1>3. ASSUME NEW t \in Tokens, reserve_refused(t)
      PROVE  KvInv'
  <2>1. UNCHANGED <<hdr, free_lists, used_bytes, held, kvVars>>
    BY <1>3 DEF reserve_refused, alloc_refused
  <2>2. BuddyCore' /\ StorageOwned'
    BY <1>a, <2>1, SameStorage DEF kvVars
  <2>3. RegionOwned' /\ HashesRecorded'
    BY <1>a, <2>1 DEF kvVars, RegionOwned, HashesRecorded
  <2>4. QED
    BY <2>2, <2>3 DEF KvInv
<1>4. ASSUME NEW p \in Positions, NEW h \in Hashes, pai_kv_cache_touch(p, h)
      PROVE  KvInv'
  <2>1. BuddyCore' /\ StorageOwned'
    BY <1>4, <1>a, SameStorage DEF pai_kv_cache_touch, buddyVars
  <2>2. RegionOwned'
    BY <1>4, <1>a DEF pai_kv_cache_touch, RegionOwned
  <2>3. HashesRecorded'
    <3>1. h \in Nat
      BY KvAssumption
    <3>2. prefix_hashes' \in [Positions -> Nat] /\ prefix_hashes'[p] = h
          /\ \A q \in Positions : q # p => prefix_hashes'[q] = prefix_hashes[q]
      BY <1>4, <1>a, <3>1 DEF pai_kv_cache_touch, HashesRecorded
    <3>3. hit' # -1 => hit' \in Positions
      BY <1>4 DEF pai_kv_cache_touch
    <3>4. ASSUME NEW q \in Positions, prefix_hashes'[q] # 0 PROVE q \in seen'
      BY <1>4, <1>a, <3>2, <3>4 DEF pai_kv_cache_touch, HashesRecorded
    <3>5. QED
      BY <3>2, <3>3, <3>4 DEF HashesRecorded
  <2>4. QED
    BY <2>1, <2>2, <2>3 DEF KvInv
<1>5. CASE UNCHANGED vars
  <2>1. UNCHANGED <<hdr, free_lists, held, blocks, state, raws, owned, prefix_hashes, seen, hit>>
    BY <1>5 DEF vars, kvVars, buddyVars
  <2>2. BuddyCore' /\ StorageOwned'
    BY <1>a, <2>1, SameStorage
  <2>3. RegionOwned' /\ HashesRecorded'
    BY <1>a, <2>1 DEF RegionOwned, HashesRecorded
  <2>4. QED
    BY <2>2, <2>3 DEF KvInv
<1>6. QED
  BY <1>1, <1>2, <1>3, <1>4, <1>5 DEF KvNext

\* pai_kv_cache_touch reports a hit only on a hash recorded since the cache was
\* last empty, or on the hash 0 that calloc and reset leave behind.
THEOREM HitsRecorded == KvSpec => []HitOnlyIfRecorded
<1>1. KvInv => HitOnlyIfRecorded
  BY DEF KvInv, HashesRecorded, HitOnlyIfRecorded
<1>2. QED
  BY <1>1, InitKv, NextKv, PTL DEF KvSpec

\* What pai_kv_cache_reserve stores for a position shares no byte with another
\* position's storage or with a header of the suballocator, and lies in the
\* region; an owned region is there as long as the cache and freed once.
THEOREM StorageIsSound == KvSpec => []StorageSound
<1>1. KvInv => StorageSound
  <2> SUFFICES ASSUME KvInv PROVE StorageSound
    OBVIOUS
  <2> DEFINE Used(p) == blocks[p].ptr..(blocks[p].ptr + blocks[p].need - 1)
             Headers == UNION {b.off..(b.off + Header - 1) : b \in held \cup FreeBlocks}
  <2>1. BuddyCore /\ StorageOwned /\ Tile(Blocks) /\ Apart(Blocks)
    BY DEF KvInv, BuddyCore, Tile
  <2>2. ASSUME NEW p \in Stored
        PROVE  \E b \in held :
                 /\ Owner(p, b) /\ Aligned(b) /\ b \in Blocks
                 /\ \A z \in Used(p) : z \in Nat /\ Within(z, b) /\ b.off + Header <= z
    <3>1. PICK b \in held : Owner(p, b)
      BY <2>1 DEF StorageOwned
    <3>2. /\ Aligned(b) /\ b.off \in Nat /\ Pow(b.order) \in Nat
          /\ blocks[p].ptr \in Nat /\ blocks[p].need \in Nat \ {0}
          /\ b.off + Header <= blocks[p].ptr
          /\ blocks[p].ptr + blocks[p].need <= b.off + Pow(b.order)
      BY <2>1, <3>1, OwnerFacts
    <3>3. Header \in Nat
      BY RequestsAssumption
    <3>4. ASSUME NEW z \in Used(p)
          PROVE  z \in Nat /\ Within(z, b) /\ b.off + Header <= z
      BY <3>2, <3>3 DEF Within
    <3>5. QED
      BY <3>1, <3>2, <3>4 DEF Blocks
  <2>3. Header \in Nat /\ Header <= Pow(MinOrder) /\ Pow(MaxOrder) \in Nat
    BY RequestsAssumption, OrderTypes, PowLaws DEF Pow
  <2>4. ASSUME NEW p \in Stored PROVE Used(p) \subseteq 0..(2^MaxOrder - 1)
    <3>1. PICK b \in held : Aligned(b) /\ \A z \in Used(p) : z \in Nat /\ Within(z, b)
      BY <2>2
    <3>2. b.off + Pow(b.order) <= Pow(MaxOrder) /\ b.off \in Nat /\ Pow(b.order) \in Nat
      BY <3>1, AlignedFacts
    <3>3. \A z \in Used(p) : z \in Nat /\ z < Pow(MaxOrder)
      BY <2>3, <3>1, <3>2 DEF Within
    <3>4. Pow(MaxOrder) = 2^MaxOrder
      BY DEF Pow
    <3> HIDE DEF Used
    <3>5. \A z \in Used(p) : z \in 0..(Pow(MaxOrder) - 1)
      BY <2>3, <3>3
    <3>6. QED
      BY <3>4, <3>5
  <2>5. ASSUME NEW p \in Stored, NEW c \in Blocks,
               NEW z \in Used(p), z \in c.off..(c.off + Header - 1)
        PROVE  FALSE
    <3>1. PICK b \in held : /\ Aligned(b) /\ b \in Blocks
                            /\ z \in Nat /\ Within(z, b) /\ b.off + Header <= z
      BY <2>2
    <3>2. Aligned(c)
      BY <2>1 DEF Tile
    <3>3. c.off \in Nat /\ c.order \in Orders /\ c.order \in 0..MaxOrder
          /\ Pow(c.order) \in Nat
      BY <3>2, AlignedFacts
    <3>4. Pow(MinOrder) <= Pow(c.order) /\ Pow(MinOrder) \in Nat
      BY <3>3, OrderTypes, PowMonotone
    <3>5. Within(z, c)
      BY <2>3, <2>5, <3>1, <3>3, <3>4 DEF Within
    <3>6. b = c
      BY <2>1, <3>1, <3>5 DEF Apart
    <3>7. QED
      BY <2>3, <2>5, <3>1, <3>3, <3>6
  <2>6. ASSUME NEW p \in Stored, NEW q \in Positions \ {p}, NEW z \in Used(p), z \in Used(q)
        PROVE  FALSE
    <3>1. q \in Stored
      <4>1. blocks[q].ptr \in Nat /\ blocks[q].need \in Nat
        BY <2>1 DEF StorageOwned
      <4>2. QED
        BY <2>6, <4>1 DEF Stored
    <3>2. PICK b \in held : Owner(p, b) /\ b \in Blocks /\ z \in Nat /\ Within(z, b)
      BY <2>2
    <3>3. PICK c \in held : Owner(q, c) /\ c \in Blocks /\ Within(z, c)
      BY <2>2, <2>6, <3>1
    <3>4. b = c
      BY <2>1, <3>2, <3>3 DEF Apart
    <3>5. blocks[p].ptr = blocks[q].ptr
      BY <3>2, <3>3, <3>4 DEF Owner
    <3>6. QED
      BY <2>1, <3>1, <3>5 DEF StorageOwned
  <2>7. raws = IF state = "cache" THEN 1 ELSE 0
    BY DEF KvInv, RegionOwned
  <2>8. Stored = {q \in Positions : blocks[q].need > 0}
    BY DEF Stored
  <2>9. \A p \in Stored : Used(p) \cap Headers = {}
    BY <2>5 DEF Blocks
  <2>10. \A p \in Stored : \A q \in Positions \ {p} : Used(p) \cap Used(q) = {}
    BY <2>6
  <2>11. QED
    BY <2>4, <2>7, <2>8, <2>9, <2>10 DEF StorageSound
<1>2. QED
  BY <1>1, InitKv, NextKv, PTL DEF KvSpec

=============================================================================
