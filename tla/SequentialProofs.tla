-------------------------- MODULE SequentialProofs --------------------------
(***************************************************************************)
(* The two components that one caller runs from start to end, CmdLine and  *)
(* AlignedMem: what holds for every text, buffer, memory and request.      *)
(***************************************************************************)
EXTENDS CmdLine, AlignedMem, SequenceTheorems, FiniteSetTheorems, WellFoundedInduction, TLAPS

-----------------------------------------------------------------------------
(* Recursion over the naturals, by the least counterexample.               *)

LEMMA Least ==
  ASSUME NEW T \in SUBSET Nat, T # {}
  PROVE  \E n \in T : \A m \in Nat : m < n => m \notin T
<1>1. PICK n \in T : \A m \in T : ~(<<m, n>> \in OpToRel(<, Nat))
  BY NatLessThanWellFounded, WFMin
<1>2. ASSUME NEW m \in Nat, m < n, m \in T PROVE FALSE
  <2>1. <<m, n>> \in OpToRel(<, Nat)
    BY <1>2 DEF OpToRel
  <2>. QED
    BY <1>1, <1>2, <2>1
<1>. QED
  BY <1>2

\* The doublings up to n.
Doublings(n) == {g \in [0..n -> Nat] : \A k \in 0..n : g[k] = IF k = 0 THEN 1 ELSE 2 * g[k - 1]}

LEMMA DoublingsExist == \A n \in Nat : Doublings(n) # {}
<1>. DEFINE T == {n \in Nat : Doublings(n) = {}}
<1>1. SUFFICES ASSUME T # {} PROVE FALSE
  OBVIOUS
<1>2. PICK n \in T : \A m \in Nat : m < n => m \notin T
  BY <1>1, Least
<1>3. CASE n = 0
  <2>1. [k \in 0..0 |-> 1] \in Doublings(0)
    BY DEF Doublings
  <2>. QED
    BY <1>3, <2>1
<1>4. CASE n # 0
  <2>1. n \in Nat /\ n - 1 \in Nat /\ n - 1 < n
    BY <1>4
  <2>2. PICK g : g \in Doublings(n - 1)
    BY <1>2, <2>1
  <2>. DEFINE h == [k \in 0..n |-> IF k < n THEN g[k] ELSE 2 * g[n - 1]]
  <2>3. g \in [0..(n - 1) -> Nat] /\ \A k \in 0..(n - 1) : g[k] = IF k = 0 THEN 1 ELSE 2 * g[k - 1]
    BY <2>2 DEF Doublings
  <2>4. h \in [0..n -> Nat]
    BY <2>1, <2>3
  <2>5. ASSUME NEW k \in 0..n PROVE h[k] = IF k = 0 THEN 1 ELSE 2 * h[k - 1]
    BY <1>4, <2>1, <2>3
  <2>6. h \in Doublings(n)
    BY <2>4, <2>5 DEF Doublings
  <2>. QED
    BY <2>6
<1>. QED
  BY <1>3, <1>4

LEMMA DoublingsAgree ==
  ASSUME NEW m \in Nat, NEW n \in Nat, NEW g \in Doublings(m), NEW h \in Doublings(n)
  PROVE  \A k \in Nat : k <= m /\ k <= n => g[k] = h[k]
<1>. DEFINE T == {k \in Nat : k <= m /\ k <= n /\ g[k] # h[k]}
<1>1. SUFFICES ASSUME T # {} PROVE FALSE
  OBVIOUS
<1>2. PICK k \in T : \A j \in Nat : j < k => j \notin T
  BY <1>1, Least
<1>3. g[k] = (IF k = 0 THEN 1 ELSE 2 * g[k - 1]) /\ h[k] = (IF k = 0 THEN 1 ELSE 2 * h[k - 1])
  BY <1>2 DEF Doublings
<1>4. k # 0 => g[k - 1] = h[k - 1]
  BY <1>2
<1>. QED
  BY <1>2, <1>3, <1>4

\* Pow2 is what its definition says.
LEMMA Pow2Def == Pow2 = [k \in Nat |-> IF k = 0 THEN 1 ELSE 2 * Pow2[k - 1]]
<1>. DEFINE G(n) == CHOOSE g : g \in Doublings(n)
<1>1. \A n \in Nat : G(n) \in Doublings(n)
  BY DoublingsExist
<1>. HIDE DEF G
<1>2. PICK F : F = [k \in Nat |-> G(k)[k]]
  OBVIOUS
<1>3. ASSUME NEW k \in Nat PROVE F[k] = IF k = 0 THEN 1 ELSE 2 * F[k - 1]
  <2>1. PICK g \in Doublings(k) : g = G(k)
    BY <1>1
  <2>2. F[k] = g[k] /\ g[k] = IF k = 0 THEN 1 ELSE 2 * g[k - 1]
    BY <1>2, <2>1 DEF Doublings
  <2>3. ASSUME k # 0 PROVE g[k - 1] = F[k - 1]
    <3>1. k - 1 \in Nat /\ k - 1 <= k /\ k - 1 <= k - 1
      BY <2>3
    <3>2. PICK h \in Doublings(k - 1) : h = G(k - 1)
      BY <1>1, <3>1
    <3>3. g[k - 1] = h[k - 1]
      BY <3>1, DoublingsAgree
    <3>. QED
      BY <1>2, <3>1, <3>2, <3>3
  <2>. QED
    BY <2>2, <2>3
<1>4. F = [k \in Nat |-> IF k = 0 THEN 1 ELSE 2 * F[k - 1]]
  BY <1>2, <1>3
<1>5. \E f : f = [k \in Nat |-> IF k = 0 THEN 1 ELSE 2 * f[k - 1]]
  BY <1>4
<1>. QED
  BY <1>5, Zenon DEF Pow2

LEMMA Pow2Step ==
  /\ Pow2[0] = 1
  /\ \A k \in Nat : Pow2[k + 1] = 2 * Pow2[k]
BY Pow2Def

LEMMA Pow2Type == \A k \in Nat : Pow2[k] \in Nat \ {0}
<1>. DEFINE T == {k \in Nat : Pow2[k] \notin Nat \ {0}}
<1>1. SUFFICES ASSUME T # {} PROVE FALSE
  OBVIOUS
<1>2. PICK k \in T : \A j \in Nat : j < k => j \notin T
  BY <1>1, Least
<1>3. CASE k = 0
  BY <1>2, <1>3, Pow2Step
<1>4. CASE k # 0
  <2>1. k - 1 \in Nat /\ k - 1 < k /\ k = (k - 1) + 1
    BY <1>2, <1>4
  <2>2. Pow2[k - 1] \in Nat \ {0} /\ Pow2[k] = 2 * Pow2[k - 1]
    BY <1>2, <2>1, Pow2Step
  <2>. QED
    BY <1>2, <2>2
<1>. QED
  BY <1>3, <1>4

\* Of two powers, the greater is a multiple of the less.
LEMMA Pow2Divides ==
  ASSUME NEW j \in Nat
  PROVE  \A k \in Nat : \E c \in Nat \ {0} : Pow2[j + k] = Pow2[j] * c
<1>. DEFINE T == {k \in Nat : ~ \E c \in Nat \ {0} : Pow2[j + k] = Pow2[j] * c}
<1>1. SUFFICES ASSUME T # {} PROVE FALSE
  OBVIOUS
<1>2. PICK k \in T : \A m \in Nat : m < k => m \notin T
  BY <1>1, Least
<1>3. CASE k = 0
  <2>1. j + k = j /\ Pow2[j] = Pow2[j] * 1
    BY <1>3, Pow2Type
  <2>. QED
    BY <1>2, <2>1
<1>4. CASE k # 0
  <2>1. k - 1 \in Nat /\ k - 1 < k /\ j + k = (j + (k - 1)) + 1 /\ j + (k - 1) \in Nat
    BY <1>2, <1>4
  <2>2. PICK c \in Nat \ {0} : Pow2[j + (k - 1)] = Pow2[j] * c
    BY <1>2, <2>1
  <2>3. Pow2[j + k] = 2 * (Pow2[j] * c)
    BY <2>1, <2>2, Pow2Step
  <2>4. 2 * (Pow2[j] * c) = Pow2[j] * (2 * c) /\ 2 * c \in Nat \ {0}
    BY Pow2Type
  <2>. QED
    BY <1>2, <2>3, <2>4
<1>. QED
  BY <1>3, <1>4

-----------------------------------------------------------------------------
(* AlignedMem: the arithmetic of one request.                              *)

LEMMA MemNumbers ==
  /\ W \in Nat /\ W > 0 /\ Top \in Nat /\ W < Top /\ AddrMod \in Nat /\ Top < AddrMod
  /\ Sizes \subseteq 0..(AddrMod - 1) /\ Alignments \subseteq 0..(AddrMod - 1)
  /\ Width \in Nat /\ MaxBlocks \in Nat
<1>1. Width \in Nat /\ AddrMod \in Nat /\ W \in PowersOfTwo
  BY AlignedMemAssumption, Pow2Type DEF AddrMod
<1>2. W \in Nat /\ W > 0
  BY <1>1, Pow2Type DEF PowersOfTwo
<1>. QED
  BY <1>1, <1>2, AlignedMemAssumption

LEMMA SpanWithin ==
  ASSUME NEW x \in Int, NEW n \in Nat, n > 0, NEW y \in Int, NEW m \in Nat
  PROVE  Span(x, n) \subseteq Span(y, m) <=> y <= x /\ x + n <= y + m
<1>1. ASSUME Span(x, n) \subseteq Span(y, m) PROVE y <= x /\ x + n <= y + m
  <2>1. x \in Span(x, n) /\ x + n - 1 \in Span(x, n)
    BY DEF Span
  <2>2. x \in Span(y, m) /\ x + n - 1 \in Span(y, m)
    BY <1>1, <2>1
  <2>. QED
    BY <2>2 DEF Span
<1>2. ASSUME y <= x, x + n <= y + m PROVE Span(x, n) \subseteq Span(y, m)
  BY <1>2 DEF Span
<1>. QED
  BY <1>1, <1>2

\* Products, one fact at a time.
LEMMA ProductOrder ==
  ASSUME NEW z \in Nat, NEW b \in Int, NEW c \in Int, b <= c
  PROVE  z * b <= z * c /\ z * b \in Int
OBVIOUS

LEMMA ProductPositive ==
  ASSUME NEW z \in Nat \ {0}, NEW b \in Int, z * b > 0
  PROVE  b >= 1 /\ z * b >= z
OBVIOUS

LEMMA ProductBelow ==
  ASSUME NEW z \in Nat \ {0}, NEW b \in Int, z * b < z
  PROVE  b <= 0
OBVIOUS

LEMMA ProductSum ==
  ASSUME NEW z \in Nat, NEW b \in Int, NEW c \in Int
  PROVE  z * (b + c) = z * b + z * c /\ z * b \in Int /\ z * c \in Int
OBVIOUS

LEMMA ProductDifference ==
  ASSUME NEW z \in Nat, NEW b \in Int, NEW c \in Int
  PROVE  z * (b - c) = z * b - z * c /\ z * b \in Int /\ z * c \in Int
OBVIOUS

LEMMA ProductOfProduct ==
  ASSUME NEW z \in Int, NEW b \in Int, NEW c \in Int
  PROVE  z * (b * c) = (z * b) * c
OBVIOUS

LEMMA Remainder ==
  ASSUME NEW b \in Nat, NEW z \in Nat \ {0}
  PROVE  b % z \in Nat /\ b % z < z
OBVIOUS

LEMMA Division ==
  ASSUME NEW b \in Nat, NEW z \in Nat \ {0}
  PROVE  b \div z \in Nat /\ b = z * (b \div z) + (b % z)
OBVIOUS

\* An alignment of a pointer at least is a multiple of a pointer's.
LEMMA AlignmentOfPointers ==
  ASSUME NEW z \in PowersOfTwo, z >= W
  PROVE  \E c \in Nat \ {0} : z = W * c
<1>1. PICK j \in Nat : W = Pow2[j]
  BY AlignedMemAssumption DEF PowersOfTwo
<1>2. PICK k \in Nat : z = Pow2[k]
  BY DEF PowersOfTwo
<1>3. W \in Nat \ {0} /\ z \in Nat \ {0}
  BY <1>1, <1>2, Pow2Type
<1>4. CASE j <= k
  <2>1. k - j \in Nat /\ j + (k - j) = k
    BY <1>4
  <2>2. PICK c \in Nat \ {0} : Pow2[j + (k - j)] = Pow2[j] * c
    BY <2>1, Pow2Divides
  <2>. QED
    BY <1>1, <1>2, <2>1, <2>2
<1>5. CASE k < j
  <2>1. j - k \in Nat /\ k + (j - k) = j
    BY <1>5
  <2>2. PICK c \in Nat \ {0} : Pow2[k + (j - k)] = Pow2[k] * c
    BY <2>1, Pow2Divides
  <2>3. W = z * c
    BY <1>1, <1>2, <2>1, <2>2
  <2>4. c = 1 \/ c >= 2
    OBVIOUS
  <2>5. c >= 2 => z * 2 <= z * c /\ z * 2 = z + z /\ z * c \in Int
    BY <1>3, ProductOrder
  <2>6. W = z
    BY <1>3, <2>3, <2>4, <2>5
  <2>. QED
    BY <1>3, <2>6
<1>. QED
  BY <1>4, <1>5

LEMMA Quotient ==
  ASSUME NEW b \in Nat, NEW z \in Nat \ {0}
  PROVE  \E d \in Nat : b = z * d + (b % z)
BY Division

LEMMA MultipleMod ==
  ASSUME NEW z \in Nat \ {0}, NEW d \in Nat
  PROVE  (z * d) % z = 0
<1>1. PICK b \in Nat : b = z * d
  BY ProductOrder
<1>2. PICK e \in Nat : b = z * e + (b % z)
  BY Quotient
<1>3. b % z \in Nat /\ b % z < z
  BY Remainder
<1>4. z * (d - e) = b % z
  BY <1>1, <1>2, <1>3, ProductDifference
<1>5. d - e \in Int /\ d - e <= 0
  BY <1>3, <1>4, ProductBelow
<1>6. z * (d - e) <= z * 0 /\ z * 0 = 0
  BY <1>5, ProductOrder
<1>. QED
  BY <1>1, <1>3, <1>4, <1>6

\* What AlignedUp returns is aligned, above the base, and no further from it than
\* the alignment.
LEMMA AlignedUpFacts ==
  ASSUME NEW b \in Nat, NEW z \in Nat \ {0}
  PROVE  /\ AlignedUp(b, z) \in Nat /\ b < AlignedUp(b, z) /\ AlignedUp(b, z) <= b + z
         /\ AlignedUp(b, z) % z = 0
<1>1. PICK d \in Nat : b = z * d + (b % z)
  BY Quotient
<1>2. b % z \in Nat /\ b % z < z
  BY Remainder
<1>3. AlignedUp(b, z) = b - (b % z) + z
  BY DEF AlignedUp
<1>4. AlignedUp(b, z) = z * (d + 1)
  <2>1. b - (b % z) = z * d
    BY <1>1, <1>2, ProductSum
  <2>2. z * (d + 1) = z * d + z * 1 /\ z * 1 = z
    BY ProductSum
  <2>. QED
    BY <1>3, <2>1, <2>2
<1>5. AlignedUp(b, z) % z = 0
  BY <1>4, MultipleMod
<1>. QED
  BY <1>2, <1>3, <1>5

\* Between two places fit for a pointer there is room for one.
LEMMA RoomForPointer ==
  ASSUME NEW b \in Nat, NEW z \in PowersOfTwo, z >= W, b % W = 0
  PROVE  b + W <= AlignedUp(b, z)
<1>1. PICK c \in Nat \ {0} : z = W * c
  BY AlignmentOfPointers
<1>2. W \in Nat \ {0} /\ z \in Nat \ {0}
  BY MemNumbers, Pow2Type DEF PowersOfTwo
<1>3. PICK q \in Nat : b = W * q
  <2>1. PICK q \in Nat : b = W * q + (b % W)
    BY <1>2, Quotient
  <2>2. W * q \in Int
    BY <1>2, ProductSum
  <2>. QED
    BY <2>1, <2>2
<1>4. PICK d \in Nat : b = z * d + (b % z)
  BY <1>2, Quotient
<1>5. b % z \in Nat /\ b % z < z
  BY <1>2, Remainder
<1>6. AlignedUp(b, z) = z * d + z
  BY <1>2, <1>4, <1>5, ProductSum DEF AlignedUp
<1>7. PICK e \in Int, u \in Int : e = c * d /\ u = (e + c) - q
  BY ProductSum
<1>8. W * u = z * d + z - b
  <2>1. W * u = W * (e + c) - W * q /\ W * (e + c) = W * e + W * c
    BY <1>2, <1>7, ProductDifference, ProductSum
  <2>2. W * e = z * d
    BY <1>1, <1>2, <1>7, ProductOfProduct
  <2>. QED
    BY <1>1, <1>3, <2>1, <2>2
<1>9. z * d \in Int
  BY <1>2, ProductSum
<1>10. W * u > 0
  <2>1. PICK x \in Int, y \in Nat : x = z * d /\ y = b % z
    BY <1>5, <1>9
  <2>2. b = x + y /\ y < z /\ W * u = x + z - b
    BY <1>4, <1>5, <1>8, <2>1
  <2>. QED
    BY <1>2, <2>1, <2>2
<1>11. W * u >= W
  BY <1>2, <1>7, <1>10, ProductPositive
<1>. QED
  BY <1>2, <1>6, <1>8, <1>9, <1>11

LEMMA WrapOnce ==
  ASSUME NEW b \in Nat, b < 2 * AddrMod
  PROVE  b % AddrMod = IF b < AddrMod THEN b ELSE b - AddrMod
<1>1. PICK m \in Nat \ {0} : m = AddrMod
  BY MemNumbers
<1>2. PICK d \in Nat : b = m * d + (b % m)
  BY Quotient
<1>3. b % m \in Nat /\ b % m < m
  BY Remainder
<1>4. m * 0 = 0 /\ m * 1 = m /\ m * 2 = 2 * m
  OBVIOUS
<1>5. d <= 1
  <2>1. d >= 2 => m * 2 <= m * d /\ m * d \in Int
    BY ProductOrder
  <2>. QED
    BY <1>1, <1>2, <1>3, <1>4, <2>1
<1>6. CASE d = 0
  BY <1>1, <1>2, <1>3, <1>4, <1>6
<1>7. CASE d = 1
  BY <1>1, <1>2, <1>3, <1>4, <1>7
<1>. QED
  BY <1>5, <1>6, <1>7

\* The requests that the class does not check for.
Fit(n, z) == z >= W /\ n + z < AddrMod

\* Where the word and the block go, for a request that fits.
LEMMA FitPlaced ==
  ASSUME NEW n \in Sizes, NEW z \in Alignments \cap PowersOfTwo, Fit(n, z),
         NEW base \in Bases, Span(base, Allocated(n, z)) \subseteq Addresses
  PROVE  /\ Allocated(n, z) = n + z
         /\ Aligned(base, z) = AlignedUp(base, z) /\ Aligned(base, z) \in 1..Top
         /\ Aligned(base, z) % z = 0
         /\ Span(Aligned(base, z) - W, W + n) \subseteq Span(base, Allocated(n, z))
<1>1. n \in Nat /\ z \in Nat \ {0} /\ base \in Nat /\ base % W = 0 /\ base < Top /\ W \in Nat \ {0}
  BY MemNumbers, Pow2Type DEF PowersOfTwo, Bases, Addresses
<1>2. Allocated(n, z) = n + z
  BY <1>1, MemNumbers, WrapOnce DEF Allocated, Fit
<1>3. base + n + z <= Top
  <2>1. base + n + z - 1 \in Span(base, n + z)
    BY <1>1 DEF Span
  <2>. QED
    BY <1>1, <1>2, <2>1, MemNumbers DEF Addresses
<1>4. PICK up \in Nat : up = AlignedUp(base, z)
  BY <1>1, AlignedUpFacts
<1>5. base + W <= up /\ up <= base + z /\ up % z = 0
  BY <1>1, <1>4, AlignedUpFacts, RoomForPointer DEF Fit
<1>6. Aligned(base, z) = up
  BY <1>1, <1>3, <1>4, <1>5, MemNumbers, WrapOnce DEF Aligned
<1>7. Span(up - W, W + n) \subseteq Span(base, n + z)
  BY <1>1, <1>5, SpanWithin
<1>8. up \in 1..Top
  <2>1. base + W <= up /\ up <= base + z
    BY <1>5
  <2>2. n \in Nat /\ z \in Nat /\ base \in Nat /\ W \in Nat /\ W > 0 /\ Top \in Nat
    BY <1>1, MemNumbers
  <2>. QED
    BY <1>3, <2>1, <2>2
<1>. QED
  BY <1>2, <1>4, <1>5, <1>6, <1>7, <1>8

\* A request that does not fit writes outside of what malloc gave.
LEMMA UnfitOutside ==
  ASSUME NEW n \in Sizes, NEW z \in Alignments, PowerOfTwoOrZero(z), ~Fit(n, z),
         NEW base \in Bases
  PROVE  ~(Span(Aligned(base, z) - W, W + n) \subseteq Span(base, Allocated(n, z)))
<1>1. n \in Nat /\ z \in Nat /\ base \in Nat /\ base < Top /\ W \in Nat \ {0}
      /\ n < AddrMod /\ z < AddrMod /\ AddrMod \in Nat /\ base % W = 0 /\ base > 0 /\ Top < AddrMod
  BY MemNumbers DEF Bases, Addresses, NULL
<1>2. PICK size \in Nat : size = Allocated(n, z)
  <2>1. n + z \in Nat /\ AddrMod \in Nat \ {0}
    BY <1>1
  <2>. QED
    BY <2>1, Remainder DEF Allocated
<1>3. PICK q \in Nat : q = Aligned(base, z)
  <2>1. CASE z = 0
    <3>1. AlignedUp(base, z) = 0 /\ AddrMod \in Nat \ {0}
      BY <1>1, <2>1 DEF AlignedUp, NULL
    <3>. QED
      BY <3>1, Remainder DEF Aligned
  <2>2. CASE z # 0
    <3>1. AlignedUp(base, z) \in Nat /\ AddrMod \in Nat \ {0}
      BY <1>1, <2>2, AlignedUpFacts
    <3>. QED
      BY <3>1, Remainder DEF Aligned
  <2>. QED
    BY <2>1, <2>2
<1>4. SUFFICES ASSUME base <= q - W, q + n <= base + size PROVE FALSE
  <2>1. base \in Int /\ n \in Nat /\ W \in Nat
    BY <1>1
  <2>2. q - W \in Int /\ W + n \in Nat /\ W + n > 0 /\ (q - W) + (W + n) = q + n
    <3>1. W > 0
      BY <1>1
    <3>. QED
      BY <1>3, <2>1, <3>1
  <2>3. Span(q - W, W + n) \subseteq Span(base, size) <=> base <= q - W /\ (q - W) + (W + n) <= base + size
    BY <1>2, <2>1, <2>2, SpanWithin
  <2>. QED
    BY <1>2, <1>3, <2>2, <2>3
<1>5. CASE z = 0
  BY <1>1, <1>3, <1>4, <1>5, WrapOnce DEF Aligned, AlignedUp, NULL
<1>6. CASE z # 0
  <2>1. PICK up \in Nat : up = AlignedUp(base, z)
    BY <1>1, <1>6, AlignedUpFacts
  <2>2. base < up /\ up <= base + z
    BY <1>1, <1>6, <2>1, AlignedUpFacts
  <2>3. q = IF up < AddrMod THEN up ELSE up - AddrMod
    <3>1. base < AddrMod /\ z < AddrMod /\ base \in Nat /\ z \in Nat /\ AddrMod \in Nat
      <4>1. Top \in Nat
        BY MemNumbers
      <4>. QED
        BY <1>1, <4>1
    <3>2. up < 2 * AddrMod
      BY <2>2, <3>1
    <3>3. q = up % AddrMod
      BY <1>3, <2>1 DEF Aligned
    <3>. QED
      BY <3>2, <3>3, WrapOnce
  <2>4. up < AddrMod /\ q = up
    BY <1>1, <1>4, <2>2, <2>3
  <2>5. z >= W
    BY <1>1, <1>4, <2>2, <2>4
  <2>6. n + z >= AddrMod /\ size = n + z - AddrMod
    BY <1>1, <1>2, <2>5, WrapOnce DEF Fit, Allocated
  <2>. QED
    BY <1>1, <1>4, <2>2, <2>4, <2>6
<1>. QED
  BY <1>5, <1>6

-----------------------------------------------------------------------------
(* AlignedMem: the invariant.                                              *)

\* The word below the block, and both.
Word(b) == Span(b.p - W, W)

Whole(b) == Span(b.p - W, W + b.n)

\* The block was cut out of this one of malloc's.
HoldsBlock(r, b) == Whole(b) \subseteq Owned(r) /\ \A x \in Word(b) : mem[x] = r.base

HeapApart ==
  /\ \A r \in heap : r.size > 0 /\ Owned(r) \subseteq Addresses
  /\ \A r, q \in heap : r # q => Owned(r) \cap Owned(q) = {}

OneEach ==
  /\ \A b \in blocks : b.p % b.a = 0 /\ \E r \in heap : HoldsBlock(r, b)
  /\ \A r \in heap : \E b \in blocks : HoldsBlock(r, b)
  /\ \A r \in heap : \A b, c \in blocks : HoldsBlock(r, b) /\ HoldsBlock(r, c) => b = c

Counted ==
  /\ IsFiniteSet(heap) /\ IsFiniteSet(blocks)
  /\ Cardinality(heap) = Cardinality(blocks)

MemInv ==
  /\ MemTypeOK
  /\ undefined = Unchecked
  /\ ~undefined => HeapApart /\ OneEach /\ Counted

LEMMA RequestFits ==
  ASSUME NEW n \in Nat, NEW z \in Nat, request' = Request(n, z, NULL) \/ \E base \in Bases : request' = Request(n, z, base)
  PROVE  Unchecked' <=> request'.base = NULL \/ ~Fit(n, z)
<1>1. W \in Nat /\ AddrMod \in Nat
  BY MemNumbers
<1>2. request'.n = n /\ request'.a = z
  BY DEF Request
<1>. QED
  BY <1>1, <1>2 DEF Unchecked, Fit

LEMMA MemInit_Inv == MemInit => MemInv
<1>. SUFFICES ASSUME MemInit PROVE MemInv
  OBVIOUS
<1>1. W \in Nat \ {0} /\ W < Top /\ Top \in Nat /\ AddrMod \in Nat /\ W < AddrMod
  BY MemNumbers
<1>2. W \in Bases
  <2>1. W * 1 = W /\ (W * 1) % W = 0
    BY <1>1, MultipleMod
  <2>. QED
    BY <1>1, <2>1 DEF Bases, Addresses, NULL
<1>3. request \in [n : Sizes \cup {0}, a : Alignments \cup {W}, base : Bases \cup {NULL}]
  BY <1>2 DEF MemInit, Request
<1>4. MemTypeOK
  BY <1>3 DEF MemInit, MemTypeOK, Contents
<1>5. ~Unchecked
  <2>1. request.n = 0 /\ request.a = W /\ request.base = W
    BY DEF MemInit, Request
  <2>. QED
    BY <1>1, <2>1 DEF Unchecked, NULL
<1>6. Counted
  BY FS_EmptySet DEF MemInit, Counted
<1>7. HeapApart /\ OneEach
  BY DEF MemInit, HeapApart, OneEach
<1>8. undefined = Unchecked
  BY <1>5, Zenon DEF MemInit, Unchecked
<1>. QED
  BY <1>4, <1>6, <1>7, <1>8 DEF MemInv

\* A change of memory outside one of malloc's blocks leaves what it holds.
LEMMA HoldsSame ==
  ASSUME NEW r, NEW b, \A x \in Owned(r) : mem'[x] = mem[x], W + b.n >= W, b.n \in Nat, b.p \in Int
  PROVE  HoldsBlock(r, b)' <=> HoldsBlock(r, b)
<1>1. Word(b) \subseteq Whole(b)
  BY MemNumbers DEF Word, Whole, Span
<1>2. HoldsBlock(r, b)' <=> Whole(b) \subseteq Owned(r) /\ \A x \in Word(b) : mem'[x] = r.base
  BY DEF HoldsBlock
<1>. QED
  BY <1>1, <1>2 DEF HoldsBlock

LEMMA BlockFacts ==
  ASSUME MemTypeOK, NEW b \in blocks
  PROVE  /\ b.p \in Nat /\ b.n \in Nat /\ b.n \in Sizes /\ b.a \in Alignments \cap PowersOfTwo /\ b.p <= Top
         /\ b.p - 1 \in Word(b) /\ b.p - 1 \in Whole(b) /\ Word(b) \subseteq Whole(b)
<1>1. b \in [p : 0..Top, n : Sizes, a : Alignments \cap PowersOfTwo]
  BY DEF MemTypeOK
<1>2. b.p \in Nat /\ b.n \in Nat /\ b.n \in Sizes /\ b.a \in Alignments \cap PowersOfTwo /\ b.p <= Top
  <2>1. b.p \in 0..Top /\ b.n \in Sizes /\ b.a \in Alignments \cap PowersOfTwo
    BY <1>1
  <2>2. Sizes \subseteq 0..(AddrMod - 1) /\ AddrMod \in Nat /\ Top \in Nat
    BY MemNumbers
  <2>3. b.n \in 0..(AddrMod - 1)
    BY <2>1, <2>2
  <2>4. b.n \in Nat /\ b.p \in Nat /\ b.p <= Top
    BY <2>1, <2>2, <2>3
  <2>. QED
    BY <2>1, <2>4
<1>. QED
  BY <1>2, MemNumbers DEF Word, Whole, Span

\* malloc's blocks have no byte in common, and no block is in two of them.
LEMMA HolderUnique ==
  ASSUME MemTypeOK, HeapApart, NEW b \in blocks, NEW r \in heap, NEW q \in heap,
         Whole(b) \subseteq Owned(r), Whole(b) \subseteq Owned(q)
  PROVE  r = q
<1>1. b.p - 1 \in Owned(r) \cap Owned(q)
  BY BlockFacts
<1>. QED
  BY <1>1 DEF HeapApart

LEMMA BaseOwned ==
  ASSUME MemTypeOK, HeapApart, NEW r \in heap
  PROVE  r.base \in Owned(r) /\ r.base \in Bases /\ Owned(r) \subseteq Addresses
<1>1. r.base \in Bases /\ r.size \in Nat /\ r.size > 0
  BY MemNumbers DEF MemTypeOK, HeapApart
<1>2. r.base \in Nat
  BY <1>1 DEF Bases, Addresses
<1>. QED
  BY <1>1, <1>2 DEF Owned, Span, HeapApart

LEMMA BasesApart ==
  ASSUME MemTypeOK, HeapApart, NEW r \in heap, NEW q \in heap, r.base = q.base
  PROVE  r = q
<1>1. r.base \in Owned(r) \cap Owned(q)
  BY BaseOwned
<1>. QED
  BY <1>1 DEF HeapApart

\* What deallocate loads is the pointer that allocate stored.
LEMMA LoadsBase ==
  ASSUME MemTypeOK, NEW b \in blocks, NEW r \in heap, HoldsBlock(r, b)
  PROVE  Load(b.p) = r.base
BY BlockFacts DEF HoldsBlock, Load, Word

LEMMA WriteKeeps ==
  ASSUME MemInv, ~undefined, NEW w \in blocks, WriteBlock(w)
  PROVE  MemInv'
<1>1. MemTypeOK /\ HeapApart /\ OneEach /\ Counted /\ undefined = Unchecked
  BY DEF MemInv
<1>2. UNCHANGED <<heap, blocks, undefined, request>> /\ w.p \in Nat /\ w.n \in Nat
  BY <1>1, BlockFacts DEF WriteBlock
<1>3. mem' = [x \in Addresses |-> IF x \in Span(w.p, w.n) THEN Other ELSE mem[x]]
  BY DEF WriteBlock
<1>4. MemTypeOK'
  BY <1>1, <1>2, <1>3 DEF MemTypeOK, Contents
<1>5. HeapApart'
  BY <1>1, <1>2 DEF HeapApart, Owned
<1>6. ASSUME NEW r \in heap, NEW b \in blocks, Whole(b) \subseteq Owned(r)
      PROVE  HoldsBlock(r, b)' <=> HoldsBlock(r, b)
  <2>1. ASSUME NEW x \in Word(b) PROVE mem'[x] = mem[x]
    <3>1. x \in Addresses /\ x \in Owned(r)
      BY <1>1, <1>6, BlockFacts, BaseOwned
    <3>2. CASE b = w
      BY <1>2, <1>3, <3>1, <3>2, MemNumbers DEF Word, Span
    <3>3. CASE b # w
      <4>1. PICK q \in heap : HoldsBlock(q, w)
        BY <1>1 DEF OneEach
      <4>2. PICK c \in blocks : HoldsBlock(r, c)
        BY <1>1 DEF OneEach
      <4>3. PICK o \in heap : HoldsBlock(o, b)
        BY <1>1 DEF OneEach
      <4>4. r = o
        BY <1>1, <1>6, <4>3, HolderUnique DEF HoldsBlock
      <4>5. q # r
        BY <1>1, <3>3, <4>1, <4>3, <4>4 DEF OneEach
      <4>6. Span(w.p, w.n) \subseteq Whole(w)
        BY <1>2, MemNumbers DEF Whole, Span
      <4>7. x \notin Span(w.p, w.n)
        BY <1>1, <3>1, <4>1, <4>5, <4>6 DEF HeapApart, HoldsBlock
      <4>. QED
        BY <1>3, <3>1, <4>7
    <3>. QED
      BY <3>2, <3>3
  <2>2. HoldsBlock(r, b)' <=> Whole(b) \subseteq Owned(r) /\ \A x \in Word(b) : mem'[x] = r.base
    BY DEF HoldsBlock
  <2>. QED
    BY <2>1, <2>2 DEF HoldsBlock
<1>7. ASSUME NEW r \in heap, NEW b \in blocks
      PROVE  HoldsBlock(r, b)' <=> HoldsBlock(r, b)
  <2>1. HoldsBlock(r, b)' => Whole(b) \subseteq Owned(r)
    BY DEF HoldsBlock
  <2>2. HoldsBlock(r, b) => Whole(b) \subseteq Owned(r)
    BY DEF HoldsBlock
  <2>. QED
    BY <1>6, <2>1, <2>2
<1>8. OneEach'
  <2>1. \A b \in blocks : b.p % b.a = 0 /\ \E r \in heap : HoldsBlock(r, b)'
    BY <1>1, <1>7 DEF OneEach
  <2>2. \A r \in heap : \E b \in blocks : HoldsBlock(r, b)'
    BY <1>1, <1>7 DEF OneEach
  <2>3. \A r \in heap : \A b, c \in blocks : HoldsBlock(r, b)' /\ HoldsBlock(r, c)' => b = c
    BY <1>1, <1>7 DEF OneEach
  <2>. QED
    BY <1>2, <2>1, <2>2, <2>3 DEF OneEach
<1>9. Counted' /\ undefined' = Unchecked'
  BY <1>1, <1>2 DEF Counted, Unchecked
<1>. QED
  BY <1>4, <1>5, <1>8, <1>9 DEF MemInv

\* What the steps that change malloc's blocks have in common: the sets of blocks
\* grow or shrink together.
LEMMA CountedGrows ==
  ASSUME Counted, NEW r, NEW b, r \notin heap, b \notin blocks,
         heap' = heap \cup {r}, blocks' = blocks \cup {b}
  PROVE  Counted'
<1>1. IsFiniteSet(heap') /\ Cardinality(heap') = Cardinality(heap) + 1
  BY FS_AddElement DEF Counted
<1>2. IsFiniteSet(blocks') /\ Cardinality(blocks') = Cardinality(blocks) + 1
  BY FS_AddElement DEF Counted
<1>. QED
  BY <1>1, <1>2 DEF Counted

LEMMA CountedShrinks ==
  ASSUME Counted, NEW r \in heap, NEW b \in blocks,
         heap' = heap \ {r}, blocks' = blocks \ {b}
  PROVE  Counted'
<1>1. IsFiniteSet(heap') /\ Cardinality(heap') = Cardinality(heap) - 1
  BY FS_RemoveElement DEF Counted
<1>2. IsFiniteSet(blocks') /\ Cardinality(blocks') = Cardinality(blocks) - 1
  BY FS_RemoveElement DEF Counted
<1>. QED
  BY <1>1, <1>2 DEF Counted

\* What deallocate does when the state is sound.
LEMMA DeallocateFacts ==
  ASSUME MemTypeOK, HeapApart, OneEach, NEW b \in blocks, Deallocate(b)
  PROVE  \E r \in heap :
           /\ HoldsBlock(r, b)
           /\ blocks' = blocks \ {b} /\ heap' = heap \ {r}
           /\ undefined' = FALSE /\ request' = request
           /\ mem' = [x \in Addresses |-> IF x \in Owned(r) THEN Other ELSE mem[x]]
<1>1. PICK r \in heap : HoldsBlock(r, b)
  BY DEF OneEach
<1>2. Load(b.p) = r.base
  BY <1>1, LoadsBase
<1>3. heap' = heap \ {r}
  BY <1>2, BasesApart DEF Deallocate
<1>4. undefined' = FALSE
  BY <1>2 DEF Deallocate
<1>5. heap \ heap' = {r}
  BY <1>3
<1>6. mem' = [x \in Addresses |-> IF x \in Owned(r) THEN Other ELSE mem[x]]
  BY <1>5 DEF Deallocate
<1>. QED
  BY <1>1, <1>3, <1>4, <1>6 DEF Deallocate

LEMMA DeallocateKeeps ==
  ASSUME MemInv, ~undefined, NEW b \in blocks, Deallocate(b)
  PROVE  MemInv'
<1>1. MemTypeOK /\ HeapApart /\ OneEach /\ Counted /\ undefined = Unchecked
  BY DEF MemInv
<1>2. PICK r \in heap :
        /\ HoldsBlock(r, b)
        /\ blocks' = blocks \ {b} /\ heap' = heap \ {r}
        /\ undefined' = FALSE /\ request' = request
        /\ mem' = [x \in Addresses |-> IF x \in Owned(r) THEN Other ELSE mem[x]]
  BY <1>1, DeallocateFacts
<1>3. MemTypeOK'
  <2>1. mem' \in [Addresses -> Contents]
    BY <1>1, <1>2 DEF MemTypeOK, Contents
  <2>2. heap' \subseteq heap /\ blocks' \subseteq blocks /\ undefined' \in BOOLEAN
    BY <1>2
  <2>. QED
    BY <1>1, <1>2, <2>1, <2>2 DEF MemTypeOK
<1>4. HeapApart'
  BY <1>1, <1>2 DEF HeapApart, Owned
<1>5. ASSUME NEW q \in heap, q # r, NEW c \in blocks
      PROVE  HoldsBlock(q, c)' <=> HoldsBlock(q, c)
  <2>1. \A x \in Owned(q) : mem'[x] = mem[x]
    BY <1>1, <1>2, <1>5, BaseOwned DEF HeapApart
  <2>2. c.n \in Nat /\ c.p \in Int /\ W + c.n >= W
    BY <1>1, BlockFacts, MemNumbers
  <2>. QED
    BY <2>1, <2>2, HoldsSame
<1>6. OneEach'
  <2>1. ASSUME NEW c \in blocks' PROVE c.p % c.a = 0 /\ \E q \in heap' : HoldsBlock(q, c)'
    <3>1. c \in blocks /\ c # b
      BY <1>2
    <3>2. PICK q \in heap : HoldsBlock(q, c)
      BY <1>1, <3>1 DEF OneEach
    <3>3. q # r
      BY <1>1, <1>2, <3>1, <3>2 DEF OneEach
    <3>. QED
      BY <1>1, <1>2, <1>5, <3>1, <3>2, <3>3 DEF OneEach
  <2>2. ASSUME NEW q \in heap' PROVE \E c \in blocks' : HoldsBlock(q, c)'
    <3>1. q \in heap /\ q # r
      BY <1>2
    <3>2. PICK c \in blocks : HoldsBlock(q, c)
      BY <1>1, <3>1 DEF OneEach
    <3>3. c # b
      BY <1>1, <1>2, <3>1, <3>2, HolderUnique DEF HoldsBlock
    <3>. QED
      BY <1>2, <1>5, <3>1, <3>2, <3>3
  <2>3. ASSUME NEW q \in heap', NEW c \in blocks', NEW d \in blocks', HoldsBlock(q, c)', HoldsBlock(q, d)'
        PROVE  c = d
    <3>1. q \in heap /\ q # r /\ c \in blocks /\ d \in blocks
      BY <1>2
    <3>2. HoldsBlock(q, c) /\ HoldsBlock(q, d)
      BY <1>5, <2>3, <3>1
    <3>. QED
      BY <1>1, <3>1, <3>2 DEF OneEach
  <2>. QED
    BY <2>1, <2>2, <2>3 DEF OneEach
<1>7. Counted'
  BY <1>1, <1>2, CountedShrinks
<1>8. undefined' = Unchecked'
  BY <1>1, <1>2 DEF Unchecked
<1>. QED
  BY <1>3, <1>4, <1>6, <1>7, <1>8 DEF MemInv

\* An allocation, with the test of the model decided by the request.
Cuts(n, z, clear, base, r) ==
  /\ r.base = base /\ r.size = Allocated(n, z) /\ Owned(r) = Span(base, Allocated(n, z))
  /\ Owned(r) \subseteq Addresses
  /\ \A q \in heap : (Owned(r) \cup {base}) \cap Owned(q) = {}
  /\ heap' = heap \cup {r} /\ request' = Request(n, z, base)
  /\ ~Fit(n, z) => undefined' = TRUE /\ mem' = mem /\ blocks' = blocks
  /\ Fit(n, z) =>
       /\ z \in PowersOfTwo
       /\ undefined' = undefined
       /\ Span(Aligned(base, z) - W, W + n) \subseteq Owned(r)
       /\ mem' = Stored(Aligned(base, z), n, base, clear)
       /\ blocks' = blocks \cup {[p |-> Aligned(base, z), n |-> n, a |-> z]}

LEMMA AllocateFacts ==
  ASSUME NEW n \in Sizes, NEW z \in Alignments, NEW clear \in BOOLEAN, Allocate(n, z, clear)
  PROVE  \E base \in Bases, r \in [base : Bases, size : 0..(AddrMod - 1)] : Cuts(n, z, clear, base, r)
<1>1. PICK base \in Rooms(Allocated(n, z)) :
        LET r == [base |-> base, size |-> Allocated(n, z)]
        IN  /\ heap' = heap \cup {r}
            /\ request' = Request(n, z, base)
            /\ IF Span(Aligned(base, z) - W, W + n) \subseteq Owned(r)
               THEN /\ mem' = Stored(Aligned(base, z), n, base, clear)
                    /\ blocks' = blocks \cup {[p |-> Aligned(base, z), n |-> n, a |-> z]}
                    /\ UNCHANGED undefined
               ELSE undefined' = TRUE /\ UNCHANGED <<mem, blocks>>
  BY DEF Allocate
<1>2. base \in Bases /\ Span(base, Allocated(n, z)) \subseteq Addresses
      /\ \A q \in heap : (Span(base, Allocated(n, z)) \cup {base}) \cap Owned(q) = {}
  BY DEF Rooms
<1>3. PICK r : r = [base |-> base, size |-> Allocated(n, z)]
  OBVIOUS
<1>4. r.base = base /\ r.size = Allocated(n, z) /\ Owned(r) = Span(base, Allocated(n, z))
  BY <1>3 DEF Owned
<1>5. Allocated(n, z) \in 0..(AddrMod - 1)
  <2>1. n \in Nat /\ z \in Nat /\ AddrMod \in Nat \ {0}
    BY MemNumbers
  <2>2. PICK m \in Nat : m = n + z
    BY <2>1
  <2>3. m % AddrMod \in Nat /\ m % AddrMod < AddrMod
    BY <2>1, Remainder
  <2>. QED
    BY <2>1, <2>2, <2>3 DEF Allocated
<1>6. r \in [base : Bases, size : 0..(AddrMod - 1)]
  BY <1>2, <1>3, <1>5
<1>7. heap' = heap \cup {r} /\ request' = Request(n, z, base)
  BY <1>1, <1>3
<1>8. PowerOfTwoOrZero(z)
  BY DEF Allocate
<1>9. ASSUME Fit(n, z)
      PROVE  /\ z \in PowersOfTwo
             /\ undefined' = undefined
             /\ Span(Aligned(base, z) - W, W + n) \subseteq Owned(r)
             /\ mem' = Stored(Aligned(base, z), n, base, clear)
             /\ blocks' = blocks \cup {[p |-> Aligned(base, z), n |-> n, a |-> z]}
  <2>1. z \in PowersOfTwo
    BY <1>8, <1>9, MemNumbers DEF PowerOfTwoOrZero, Fit
  <2>2. Span(Aligned(base, z) - W, W + n) \subseteq Owned(r)
    BY <1>2, <1>4, <1>9, <2>1, FitPlaced
  <2>. QED
    BY <1>1, <1>3, <2>1, <2>2
<1>10. ASSUME ~Fit(n, z) PROVE undefined' = TRUE /\ mem' = mem /\ blocks' = blocks
  <2>1. ~(Span(Aligned(base, z) - W, W + n) \subseteq Owned(r))
    BY <1>2, <1>4, <1>8, <1>10, UnfitOutside
  <2>. QED
    BY <1>1, <1>3, <2>1
<1>11. Cuts(n, z, clear, base, r)
  BY <1>2, <1>4, <1>7, <1>9, <1>10 DEF Cuts
<1>. QED
  BY <1>2, <1>6, <1>11

LEMMA AllocateKeeps ==
  ASSUME MemInv, ~undefined, NEW n \in Sizes, NEW z \in Alignments, NEW clear \in BOOLEAN,
         Allocate(n, z, clear)
  PROVE  MemInv'
<1>1. MemTypeOK /\ HeapApart /\ OneEach /\ Counted /\ undefined = Unchecked
  BY DEF MemInv
<1>2. PICK base \in Bases, r \in [base : Bases, size : 0..(AddrMod - 1)] : Cuts(n, z, clear, base, r)
  BY AllocateFacts
<1>3. heap' \subseteq [base : Bases, size : 0..(AddrMod - 1)]
  BY <1>1, <1>2 DEF MemTypeOK, Cuts
<1>4. request' \in [n : Sizes \cup {0}, a : Alignments \cup {W}, base : Bases \cup {NULL}]
  BY <1>2 DEF Request, Cuts
<1>5. request'.base # NULL /\ (Unchecked' <=> ~Fit(n, z))
  <2>1. n \in Nat /\ z \in Nat
    BY MemNumbers
  <2>2. request'.base = base /\ base # NULL
    BY <1>2 DEF Request, Bases, Cuts
  <2>. QED
    BY <1>2, <2>1, <2>2, RequestFits DEF Cuts
<1>6. CASE ~Fit(n, z)
  <2>1. undefined' = TRUE /\ mem' = mem /\ blocks' = blocks
    BY <1>2, <1>6 DEF Cuts
  <2>2. MemTypeOK'
    BY <1>1, <1>3, <1>4, <2>1 DEF MemTypeOK
  <2>3. Unchecked' /\ undefined' = Unchecked'
    BY <1>5, <1>6, <2>1 DEF Unchecked
  <2>. QED
    BY <2>1, <2>2, <2>3 DEF MemInv
<1>7. CASE Fit(n, z)
  <2>. DEFINE up == Aligned(base, z)
              new == [p |-> up, n |-> n, a |-> z]
  <2>1. /\ z \in PowersOfTwo /\ undefined' = FALSE /\ Span(up - W, W + n) \subseteq Owned(r)
        /\ mem' = Stored(up, n, base, clear)
        /\ blocks' = blocks \cup {new}
    BY <1>2, <1>7 DEF Cuts
  <2>2. /\ Allocated(n, z) = n + z /\ up \in 1..Top /\ up % z = 0
    BY <1>2, <1>7, <2>1, FitPlaced DEF Cuts
  <2>. HIDE DEF up
  <2>3. n \in Nat /\ z \in Nat /\ z > 0 /\ up \in Nat /\ up > 0 /\ up <= Top
    <3>1. z \in Nat \ {0}
      BY <2>1, Pow2Type DEF PowersOfTwo
    <3>. QED
      BY <2>2, <3>1, MemNumbers
  <2>4. Word(new) = Span(up - W, W) /\ Whole(new) = Span(up - W, W + n) /\ up - 1 \in Whole(new)
        /\ Word(new) \subseteq Whole(new) /\ Span(up, n) \subseteq Whole(new)
    BY <2>3, MemNumbers DEF Word, Whole, Span
  <2>5. mem' = [x \in Addresses |-> IF x \in Word(new) THEN base
                                    ELSE IF clear /\ x \in Span(up, n) THEN NULL ELSE mem[x]]
    BY <2>1, <2>4 DEF Stored
  <2>6. MemTypeOK'
    <3>1. mem' \in [Addresses -> Contents]
      BY <1>1, <2>5 DEF MemTypeOK, Contents
    <3>2. new \in [p : 0..Top, n : Sizes, a : Alignments \cap PowersOfTwo]
      BY <2>1, <2>3, MemNumbers
    <3>3. blocks' \subseteq [p : 0..Top, n : Sizes, a : Alignments \cap PowersOfTwo]
      BY <1>1, <2>1, <3>2 DEF MemTypeOK
    <3>. QED
      BY <1>3, <1>4, <2>1, <3>1, <3>3 DEF MemTypeOK
  <2>7. HoldsBlock(r, new)'
    <3>1. \A x \in Word(new) : mem'[x] = r.base
      BY <1>2, <2>1, <2>4, <2>5 DEF Cuts
    <3>. QED
      BY <2>1, <2>4, <3>1 DEF HoldsBlock
  <2>8. r \notin heap /\ \A q \in heap : Owned(r) \cap Owned(q) = {}
    BY <1>1, <1>2, BaseOwned DEF Cuts
  <2>9. HeapApart'
    <3>1. r.size > 0
      BY <1>2, <2>2, <2>3 DEF Cuts
    <3>2. \A q \in heap' : q.size > 0 /\ Owned(q) \subseteq Addresses
      BY <1>1, <1>2, <3>1 DEF HeapApart, Cuts
    <3>3. \A q, o \in heap' : q # o => Owned(q) \cap Owned(o) = {}
      BY <1>1, <1>2, <2>8 DEF HeapApart, Cuts
    <3>. QED
      BY <3>2, <3>3 DEF HeapApart
  <2>10. ASSUME NEW q \in heap, NEW c \in blocks
         PROVE  HoldsBlock(q, c)' <=> HoldsBlock(q, c)
    <3>1. \A x \in Owned(q) : mem'[x] = mem[x]
      BY <1>1, <2>1, <2>4, <2>5, <2>8, BaseOwned
    <3>2. c.n \in Nat /\ c.p \in Int /\ W + c.n >= W
      BY <1>1, BlockFacts, MemNumbers
    <3>. QED
      BY <3>1, <3>2, HoldsSame
  <2>11. ASSUME NEW c \in blocks PROVE ~HoldsBlock(r, c)'
    <3>1. PICK q \in heap : HoldsBlock(q, c)
      BY <1>1 DEF OneEach
    <3>2. c.p - 1 \in Owned(q) /\ c.p - 1 \in Whole(c)
      BY <1>1, <3>1, BlockFacts DEF HoldsBlock
    <3>3. ~(Whole(c) \subseteq Owned(r))
      BY <2>8, <3>2
    <3>. QED
      BY <3>3 DEF HoldsBlock
  <2>12. ASSUME NEW q \in heap PROVE ~HoldsBlock(q, new)'
    <3>1. ~(Whole(new) \subseteq Owned(q))
      BY <2>1, <2>4, <2>8
    <3>. QED
      BY <3>1 DEF HoldsBlock
  <2>13. new \notin blocks
    BY <2>7, <2>11
  <2>14. OneEach'
    <3>1. ASSUME NEW c \in blocks' PROVE c.p % c.a = 0 /\ \E q \in heap' : HoldsBlock(q, c)'
      BY <1>1, <1>2, <2>1, <2>2, <2>7, <2>10 DEF OneEach, Cuts
    <3>2. ASSUME NEW q \in heap' PROVE \E c \in blocks' : HoldsBlock(q, c)'
      BY <1>1, <1>2, <2>1, <2>7, <2>10 DEF OneEach, Cuts
    <3>3. ASSUME NEW q \in heap', NEW c \in blocks', NEW d \in blocks', HoldsBlock(q, c)', HoldsBlock(q, d)'
          PROVE  c = d
      <4>1. CASE q = r
        BY <2>1, <2>11, <3>3, <4>1
      <4>2. CASE q \in heap
        BY <1>1, <2>1, <2>10, <2>12, <3>3, <4>2 DEF OneEach
      <4>. QED
        BY <1>2, <4>1, <4>2 DEF Cuts
    <3>. QED
      BY <3>1, <3>2, <3>3 DEF OneEach
  <2>15. Counted'
    BY <1>1, <1>2, <2>1, <2>8, <2>13, CountedGrows DEF Cuts
  <2>16. undefined' = Unchecked'
    BY <1>5, <1>7, <2>1 DEF Unchecked
  <2>. QED
    BY <2>6, <2>9, <2>14, <2>15, <2>16 DEF MemInv
<1>. QED
  BY <1>6, <1>7

LEMMA NothingKeeps ==
  ASSUME MemInv, ~undefined, NEW n \in Sizes, NEW z \in Alignments, AllocateNothing(n, z)
  PROVE  MemInv'
<1>1. MemTypeOK
  BY DEF MemInv
<1>2. undefined' = TRUE /\ request' = Request(n, z, NULL) /\ UNCHANGED <<heap, mem, blocks>>
  BY DEF AllocateNothing
<1>3. MemTypeOK'
  BY <1>1, <1>2 DEF MemTypeOK, Request
<1>4. Unchecked'
  BY <1>2 DEF Unchecked, Request
<1>5. undefined' = Unchecked'
  BY <1>2, <1>4 DEF Unchecked
<1>. QED
  BY <1>2, <1>3, <1>5 DEF MemInv

LEMMA MemSame == MemInv /\ UNCHANGED memVars => MemInv'
<1>. SUFFICES ASSUME MemInv, UNCHANGED memVars PROVE MemInv'
  OBVIOUS
<1>1. heap' = heap /\ mem' = mem /\ blocks' = blocks /\ undefined' = undefined /\ request' = request
  BY DEF memVars
<1>2. MemTypeOK'
  BY <1>1 DEF MemInv, MemTypeOK
<1>3. (undefined = Unchecked)'
  <2>1. undefined = Unchecked
    BY DEF MemInv
  <2>2. Unchecked' = Unchecked
    BY <1>1 DEF Unchecked
  <2>. QED
    BY <1>1, <2>1, <2>2
<1>4. ASSUME ~undefined PROVE HeapApart' /\ OneEach' /\ Counted'
  <2>1. HeapApart /\ OneEach /\ Counted
    BY <1>4 DEF MemInv
  <2>2. HeapApart'
    BY <1>1, <2>1 DEF HeapApart
  <2>3. OneEach'
    BY <1>1, <2>1 DEF OneEach, HoldsBlock
  <2>4. Counted'
    BY <1>1, <2>1 DEF Counted
  <2>. QED
    BY <2>2, <2>3, <2>4
<1>. QED
  BY <1>1, <1>2, <1>3, <1>4 DEF MemInv

LEMMA MemNext_Inv == MemInv /\ [MemNext]_memVars => MemInv'
<1>. SUFFICES ASSUME MemInv, [MemNext]_memVars PROVE MemInv'
  OBVIOUS
<1>1. ASSUME NEW z \in Alignments, AllocateThrows(z) PROVE MemInv'
  BY <1>1, MemSame DEF AllocateThrows
<1>2. ASSUME NEW n \in Sizes, NEW z \in Alignments, AllocateNothing(n, z) PROVE MemInv'
  BY <1>2, NothingKeeps DEF AllocateNothing
<1>3. ASSUME NEW n \in Sizes, NEW z \in Alignments, NEW clear \in BOOLEAN, Allocate(n, z, clear) PROVE MemInv'
  BY <1>3, AllocateKeeps DEF Allocate
<1>4. ASSUME NEW b \in blocks, WriteBlock(b) PROVE MemInv'
  BY <1>4, WriteKeeps DEF WriteBlock
<1>5. ASSUME NEW b \in blocks, Deallocate(b) PROVE MemInv'
  BY <1>5, DeallocateKeeps DEF Deallocate
<1>6. CASE UNCHANGED memVars
  BY <1>6, MemSame
<1>. QED
  BY <1>1, <1>2, <1>3, <1>4, <1>5, <1>6 DEF MemNext

\* The types, what malloc's blocks hold and what the class does not check are one
\* invariant.
THEOREM MemInvariance == MemSpec => []MemInv
BY MemInit_Inv, MemNext_Inv, PTL DEF MemSpec

\* Blocks, bytes and requests have their types: a block never has the alignment 0.
THEOREM MemTypeCorrect == MemSpec => []MemTypeOK
<1>1. MemInv => MemTypeOK
  BY DEF MemInv
<1>. QED
  BY <1>1, MemInvariance, PTL

\* As long as the class checks all there is to check, every block with the word
\* below it is inside what malloc gave for it, and nothing is leaked; and the
\* requests it does not check are the only way to go wrong.
THEOREM BlocksCorrect == MemSpec => []BlocksSound
<1>1. MemInv => BlocksSound
  BY DEF MemInv, BlocksSound, OneEach, HoldsBlock, Whole, Counted
<1>. QED
  BY <1>1, MemInvariance, PTL

-----------------------------------------------------------------------------
(* AlignedMem implements Allocator.                                        *)

LEMMA AllocateSucceeds ==
  ASSUME MemInv, ~undefined, NEW n \in Sizes, NEW z \in Alignments, NEW clear \in BOOLEAN,
         Allocate(n, z, clear)
  PROVE  Abstract!Succeed \/ Abstract!Fail
<1>1. MemTypeOK /\ HeapApart /\ OneEach
  BY DEF MemInv
<1>2. PICK base \in Bases, r \in [base : Bases, size : 0..(AddrMod - 1)] : Cuts(n, z, clear, base, r)
  BY AllocateFacts
<1>3. CASE ~Fit(n, z)
  BY <1>2, <1>3 DEF Cuts, Abstract!Fail
<1>4. CASE Fit(n, z)
  <2>1. PICK new : new = [p |-> Aligned(base, z), n |-> n, a |-> z]
    OBVIOUS
  <2>2. z \in PowersOfTwo /\ undefined' = undefined /\ blocks' = blocks \cup {new}
        /\ Span(new.p - W, W + new.n) \subseteq Owned(r) /\ Owned(r) = Span(base, Allocated(n, z))
        /\ Owned(r) \subseteq Addresses /\ \A q \in heap : Owned(r) \cap Owned(q) = {}
    BY <1>2, <1>4, <2>1 DEF Cuts
  <2>3. Aligned(base, z) \in 1..Top /\ Aligned(base, z) % z = 0
    BY <1>2, <1>4, <2>2, FitPlaced
  <2>4. new.p \in 1..Top /\ new.p % new.a = 0 /\ new.n = n
    BY <2>1, <2>3
  <2>5. z \in Nat \ {0} /\ n \in Nat /\ new.p \in Nat /\ Top \in Nat
    BY <2>2, <2>4, Pow2Type, MemNumbers DEF PowersOfTwo
  <2>6. new \in [p : 0..Top, n : Sizes, a : Alignments \ {0}]
    BY <2>1, <2>4, <2>5
  <2>7. ASSUME NEW c \in blocks PROVE c.p # new.p /\ Abstract!Bytes(new) \cap Abstract!Bytes(c) = {}
    <3>1. PICK q \in heap : Whole(c) \subseteq Owned(q)
      BY <1>1 DEF OneEach, HoldsBlock
    <3>2. Whole(new) \subseteq Owned(r)
      BY <2>2 DEF Whole
    <3>3. Whole(c) \cap Whole(new) = {}
      BY <2>2, <3>1, <3>2
    <3>4. c.p \in Nat /\ c.n \in Nat
      BY <1>1, BlockFacts
    <3>5. new.p - 1 \in Whole(new) /\ c.p - 1 \in Whole(c)
      BY <2>4, <2>5, <3>4, MemNumbers DEF Whole, Span
    <3>6. Abstract!Bytes(c) \subseteq Whole(c) /\ Abstract!Bytes(new) \subseteq Whole(new)
      BY <2>4, <2>5, <3>4, MemNumbers DEF Whole, Span, Abstract!Bytes
    <3>. QED
      BY <3>3, <3>5, <3>6
  <2>. QED
    BY <2>2, <2>4, <2>6, <2>7 DEF Abstract!Succeed
<1>. QED
  BY <1>3, <1>4

LEMMA MemStep == MemInv /\ [MemNext]_memVars => [Abstract!AllocatorNext]_(Abstract!allocatorVars)
<1>. SUFFICES ASSUME MemInv, [MemNext]_memVars
              PROVE  Abstract!AllocatorNext \/ UNCHANGED Abstract!allocatorVars
  OBVIOUS
<1>1. ASSUME NEW z \in Alignments, AllocateThrows(z) PROVE UNCHANGED Abstract!allocatorVars
  BY <1>1 DEF AllocateThrows, memVars, Abstract!allocatorVars
<1>2. ASSUME NEW n \in Sizes, NEW z \in Alignments, AllocateNothing(n, z) PROVE Abstract!AllocatorNext
  BY <1>2 DEF AllocateNothing, Abstract!AllocatorNext, Abstract!Fail
<1>3. ASSUME NEW n \in Sizes, NEW z \in Alignments, NEW clear \in BOOLEAN, Allocate(n, z, clear)
      PROVE  Abstract!AllocatorNext
  <2>1. ~undefined
    BY <1>3 DEF Allocate
  <2>. QED
    BY <1>3, <2>1, AllocateSucceeds DEF Abstract!AllocatorNext
<1>4. ASSUME NEW b \in blocks, WriteBlock(b) PROVE UNCHANGED Abstract!allocatorVars
  BY <1>4 DEF WriteBlock, Abstract!allocatorVars
<1>5. ASSUME NEW b \in blocks, Deallocate(b) PROVE Abstract!AllocatorNext
  <2>1. ~undefined /\ MemTypeOK /\ HeapApart /\ OneEach
    BY <1>5 DEF MemInv, Deallocate
  <2>2. blocks' = blocks \ {b} /\ undefined' = FALSE
    BY <1>5, <2>1, DeallocateFacts
  <2>3. undefined' = undefined
    BY <2>1, <2>2 DEF MemTypeOK
  <2>. QED
    BY <2>1, <2>2, <2>3 DEF Abstract!AllocatorNext, Abstract!Release
<1>6. CASE UNCHANGED memVars
  BY <1>6 DEF memVars, Abstract!allocatorVars
<1>. QED
  BY <1>1, <1>2, <1>3, <1>4, <1>5, <1>6 DEF MemNext

LEMMA MemStart == MemInit => Abstract!AllocatorInit
BY DEF MemInit, Abstract!AllocatorInit

\* The class implements the allocator: an allocation is a success or a failure of
\* it, a deallocation a release, and what clients write is none of its steps.
THEOREM MemImplementsAllocator == MemSpec => ImplementsAllocator
BY MemStart, MemStep, MemInvariance, PTL DEF MemSpec, ImplementsAllocator, Abstract!AllocatorSpec


-----------------------------------------------------------------------------
(* CmdLine: the types.                                                     *)

\* A sequence, whatever its elements.
ASequence(q) == q \in Seq({q[k] : k \in DOMAIN q})

Arg == {Nothing} \cup Nat

\* What TypeOK needs of the past: the caller's text and size, that getToken is only
\* at work for a parser, and that there are no holes in the arrays.
CallSound ==
  /\ call.sz \in 0..MaxSize
  /\ Parsing => call.text \in Seq(Characters)
  /\ pc \in {"scan", "token"} => Parsing

ArraysSound == ASequence(a) /\ argv \in Seq(Arg)

IInv == TypeOK /\ CallSound /\ ArraysSound

-----------------------------------------------------------------------------
LEMMA CharacterFacts ==
  /\ NUL \notin Characters /\ Nothing \notin Characters \cup {NUL}
  /\ Space \in Characters /\ Delims \subseteq Characters
  /\ BLEN \in Nat /\ BLEN >= 2 /\ MaxSize \in Nat /\ MaxArgs \in Nat
BY CmdLineAssumption DEF Characters

LEMMA SuffixIsText ==
  ASSUME NEW arg \in Seq(Characters)
  PROVE  \/ getSuffixAfterPrefixMatch(arg, Flag) \in Seq(Characters)
         \/ getSuffixAfterPrefixMatch(arg, Flag) = Nothing
<1>1. Flag \in Seq(Characters)
  BY CmdLineAssumption
<1>2. Len(Flag) \in Nat /\ Len(arg) \in Nat
  BY <1>1, LenProperties
<1>3. \A k \in (Len(Flag) + 1)..Len(arg) : arg[k] \in Characters
  <2>. SUFFICES ASSUME NEW k \in (Len(Flag) + 1)..Len(arg) PROVE arg[k] \in Characters
    OBVIOUS
  <2>1. k \in 1..Len(arg)
    BY <1>2
  <2>. QED
    BY <2>1, ElementOfSeq
<1>4. SubSeq(arg, Len(Flag) + 1, Len(arg)) \in Seq(Characters)
  BY <1>2, <1>3, SubSeqProperties
<1>. QED
  BY <1>4 DEF getSuffixAfterPrefixMatch

LEMMA ArgTextsAreTexts == \A t \in ArgTexts : t = Nothing \/ t \in Seq(Characters)
<1>1. ASSUME NEW t \in Texts PROVE Flag \o t \in Seq(Characters)
  <2>1. t \in Seq(Characters)
    BY <1>1, SeqDef DEF Texts
  <2>2. Flag \in Seq(Characters)
    BY CmdLineAssumption
  <2>. QED
    BY <2>1, <2>2, ConcatProperties
<1>2. << >> \in Seq(Characters)
  BY EmptySeq
<1>3. Arguments \subseteq Seq(Characters)
  BY <1>1, <1>2 DEF Arguments
<1>. QED
  BY <1>3, SuffixIsText DEF ArgTexts

LEMMA ArgListsAreLists == ArgLists \subseteq Seq(Arg)
<1>. SUFFICES ASSUME NEW n \in 0..MaxArgs, NEW l \in [1..n -> {Nothing} \cup 1..n]
              PROVE  l \in Seq(Arg)
  BY DEF ArgLists
<1>1. n \in Nat /\ l \in [1..n -> Arg]
  BY CharacterFacts DEF Arg
<1>. QED
  BY <1>1, SeqDef

LEMMA FunctionIsSeq ==
  ASSUME NEW S, NEW n \in Nat, NEW f \in [1..n -> S]
  PROVE  f \in Seq(S) /\ Len(f) = n
<1>1. f \in Seq(S)
  BY SeqDef
<1>2. DOMAIN f = 1..Len(f) /\ DOMAIN f = 1..n /\ Len(f) \in Nat
  BY <1>1, LenProperties
<1>. QED
  BY <1>1, <1>2

LEMMA EmptyIsSequence == ASequence(<< >>)
BY EmptySeq DEF ASequence

LEMMA AppendIsSequence ==
  ASSUME NEW q, ASequence(q), NEW e
  PROVE  ASequence(Append(q, e)) /\ Len(Append(q, e)) = Len(q) + 1
<1> DEFINE S == {q[k] : k \in DOMAIN q} \cup {e}
           r == Append(q, e)
<1>1. q \in Seq(S) /\ e \in S
  BY SeqMonotonic DEF ASequence
<1>2. r \in Seq(S) /\ Len(r) = Len(q) + 1
  BY <1>1, AppendProperties
<1>3. r \in [1..Len(r) -> S] /\ DOMAIN r = 1..Len(r) /\ Len(r) \in Nat
  BY <1>2, LenProperties
<1>4. r \in [1..Len(r) -> {r[k] : k \in DOMAIN r}]
  BY <1>3
<1>5. r \in Seq({r[k] : k \in DOMAIN r})
  BY <1>3, <1>4, FunctionIsSeq
<1>. QED
  BY <1>2, <1>5 DEF ASequence

LEMMA ExceptIsSequence ==
  ASSUME NEW q, ASequence(q), NEW n, NEW e
  PROVE  ASequence([q EXCEPT ![n] = e]) /\ Len([q EXCEPT ![n] = e]) = Len(q)
<1> DEFINE S == {q[k] : k \in DOMAIN q}
           r == [q EXCEPT ![n] = e]
<1>1. q \in [1..Len(q) -> S] /\ Len(q) \in Nat
  BY LenProperties DEF ASequence
<1>2. r \in [1..Len(q) -> {r[k] : k \in DOMAIN r}]
  BY <1>1
<1>3. r \in Seq({r[k] : k \in DOMAIN r}) /\ Len(r) = Len(q)
  BY <1>1, <1>2, FunctionIsSeq
<1>. QED
  BY <1>3 DEF ASequence

-----------------------------------------------------------------------------
LEMMA InitSound == Init => IInv
<1>. SUFFICES ASSUME Init PROVE IInv
  OBVIOUS
<1>1. call.sz \in 0..MaxSize
  BY CharacterFacts DEF Init
<1>2. CASE call.kind = "compress"
  <2>1. argv \in Seq(Arg)
    BY <1>2, ArgListsAreLists DEF Init
  <2>2. Len(argv) \in Nat
    BY <2>1, LenProperties
  <2>3. ~Parsing
    BY <1>2 DEF Parsing
  <2>4. pc = "compress"
    BY <1>2 DEF Init
  <2>. QED
    BY <1>1, <2>1, <2>2, <2>3, <2>4, CharacterFacts, EmptyIsSequence, EmptySeq
    DEF Init, IInv, TypeOK, CallSound, ArraysSound
<1>3. CASE call.kind # "compress"
  <2>1. call.text \in ArgTexts
    BY <1>3 DEF Init
  <2>2. call.text = Nothing \/ (call.text \in Seq(Characters) /\ Len(call.text) \in Nat)
    BY <2>1, ArgTextsAreTexts, LenProperties
  <2>3. argv = << >> /\ pc = (IF call.text = Nothing THEN "returned" ELSE "scan")
    BY <1>3 DEF Init
  <2>4. Parsing => call.text \in Seq(Characters) /\ 1 \in 1..(Len(call.text) + 1)
    BY <2>2 DEF Parsing
  <2>5. pc \in {"scan", "token"} => Parsing
    BY <1>3, <2>3 DEF Parsing
  <2>. QED
    BY <1>1, <2>3, <2>4, <2>5, CharacterFacts, EmptyIsSequence, EmptySeq
    DEF Init, IInv, TypeOK, CallSound, ArraysSound
<1>. QED
  BY <1>2, <1>3

\* While getToken is at work, its text is a text, and a character of it is what it is at.
LEMMA CharFacts ==
  ASSUME IInv, pc = "scan"
  PROVE  /\ Parsing /\ s \in 1..(Len(call.text) + 1) /\ Len(call.text) \in Nat
         /\ Char \in Characters \cup {NUL}
         /\ Char # NUL => s + 1 \in 1..(Len(call.text) + 1)
<1>1. Parsing /\ call.text \in Seq(Characters) /\ s \in 1..(Len(call.text) + 1)
  BY DEF IInv, TypeOK, CallSound
<1>2. Len(call.text) \in Nat
  BY <1>1, LenProperties
<1>3. s <= Len(call.text) => call.text[s] \in Characters
  BY <1>1, <1>2, ElementOfSeq
<1>. QED
  BY <1>1, <1>2, <1>3 DEF Char

LEMMA SkipSpaceSound == IInv /\ SkipSpace => IInv'
<1>. SUFFICES ASSUME IInv, SkipSpace PROVE IInv'
  OBVIOUS
<1>1. s' \in 1..(Len(call.text) + 1) /\ Parsing
  BY CharFacts DEF SkipSpace, Space, NUL
<1>2. UNCHANGED <<call, pc, buf, p, delim, inner, a, argVars, ret>>
  BY DEF SkipSpace
<1>3. TypeOK'
  BY <1>1, <1>2 DEF IInv, TypeOK, argVars, Parsing
<1>. QED
  BY <1>2, <1>3 DEF IInv, CallSound, ArraysSound, argVars, Parsing

LEMMA KeepCharSound == IInv /\ KeepChar => IInv'
<1>. SUFFICES ASSUME IInv, KeepChar PROVE IInv'
  OBVIOUS
<1>1. s' \in 1..(Len(call.text) + 1) /\ Parsing /\ Char \in Characters \cup {NUL}
  BY CharFacts DEF KeepChar, IsDelim
<1>2. UNCHANGED <<call, pc, delim, inner, a, argVars, ret>>
  BY DEF KeepChar
<1>3. p' \in 0..(BLEN - 1)
  BY CharacterFacts DEF KeepChar, IInv, TypeOK, plim
<1>4. DOMAIN buf' = 0..(BLEN - 1) /\ \A k \in DOMAIN buf' : buf'[k] \in Characters \cup {NUL}
  BY <1>1 DEF KeepChar, IInv, TypeOK
<1>5. TypeOK'
  BY <1>1, <1>2, <1>3, <1>4 DEF IInv, TypeOK, argVars, Parsing
<1>. QED
  BY <1>2, <1>5 DEF IInv, CallSound, ArraysSound, argVars, Parsing

LEMMA EndTokenSound == IInv /\ EndToken => IInv'
<1>. SUFFICES ASSUME IInv, EndToken PROVE IInv'
  OBVIOUS
<1>1. s' \in 1..(Len(call.text) + 1) /\ Parsing
  BY CharFacts DEF EndToken
<1>2. UNCHANGED <<call, p, inner, a, argVars, ret>> /\ pc' = "token"
  BY DEF EndToken
<1>3. delim' \in Delims \cup {NUL, Nothing}
  BY DEF EndToken, IsDelim
<1>4. DOMAIN buf' = 0..(BLEN - 1) /\ \A k \in DOMAIN buf' : buf'[k] \in Characters \cup {NUL}
  BY DEF EndToken, IInv, TypeOK
<1>5. TypeOK'
  BY <1>1, <1>2, <1>3, <1>4 DEF IInv, TypeOK, argVars, Parsing
<1>. QED
  BY <1>1, <1>2, <1>5 DEF IInv, CallSound, ArraysSound, argVars, Parsing

LEMMA LenOfArray == IInv => Len(a) \in Nat
BY LenProperties DEF IInv, ArraysSound, ASequence

LEMMA StoreSound == IInv /\ Store => IInv'
<1>. SUFFICES ASSUME IInv, Store PROVE IInv'
  OBVIOUS
<1> DEFINE v == Value(call.kind, CString(buf))
<1>1. ASequence(a')
  BY AppendIsSequence, ExceptIsSequence DEF Store, IInv, ArraysSound
<1>2. Len(a') <= call.sz /\ Len(a') \in Nat
  <2>1. Len(a) \in Nat /\ Len(a) <= call.sz /\ call.sz \in Nat
    BY LenOfArray, CharacterFacts DEF IInv, TypeOK, CallSound
  <2>2. CASE inner
    <3>1. Len(a') = Len(a)
      BY <2>2, ExceptIsSequence DEF Store, IInv, ArraysSound
    <3>. QED
      BY <2>1, <3>1
  <2>3. CASE ~inner
    <3>1. Len(a') = Len(a) + 1 /\ Len(a) < call.sz
      BY <2>3, AppendIsSequence DEF Store, IInv, ArraysSound
    <3>. QED
      BY <2>1, <3>1
  <2>. QED
    BY <2>2, <2>3
<1>3. ret' \in -1..MaxSize
  <2>1. ret' = ret \/ ret' = Len(a')
    BY DEF Store
  <2>2. ret \in -1..MaxSize /\ call.sz \in 0..MaxSize /\ MaxSize \in Nat
    BY CharacterFacts DEF IInv, TypeOK, CallSound
  <2>3. CASE ret' = Len(a')
    BY <1>2, <2>2, <2>3
  <2>. QED
    BY <2>1, <2>2, <2>3
<1>4. UNCHANGED <<call, s, buf, delim, argVars>> /\ pc' \in {"returned", "scan"} /\ Parsing
  BY DEF Store, IInv, CallSound
<1>5. inner' \in BOOLEAN /\ p' \in 0..(BLEN - 1)
  BY CharacterFacts DEF Store, IInv, TypeOK
<1>6. TypeOK'
  BY <1>2, <1>3, <1>4, <1>5 DEF IInv, TypeOK, argVars, Parsing
<1>. QED
  BY <1>1, <1>4, <1>6 DEF IInv, CallSound, ArraysSound, argVars, Parsing

LEMMA ParserEndsSound == IInv /\ (NoMoreTokens \/ TooManyValues) => IInv'
<1>. SUFFICES ASSUME IInv, NoMoreTokens \/ TooManyValues PROVE IInv'
  OBVIOUS
<1>1. UNCHANGED <<call, tokVars, delim, inner, a, argVars>> /\ pc' \in {"returned", "thrown"}
  BY DEF NoMoreTokens, TooManyValues
<1>2. ret' \in -1..MaxSize
  BY LenOfArray, CharacterFacts DEF NoMoreTokens, TooManyValues, IInv, TypeOK, CallSound
<1>3. TypeOK'
  BY <1>1, <1>2 DEF IInv, TypeOK, tokVars, argVars, Parsing
<1>. QED
  BY <1>1, <1>3 DEF IInv, CallSound, ArraysSound, argVars, Parsing

LEMMA CompressSound == IInv /\ Compress => IInv'
<1>. SUFFICES ASSUME IInv, Compress PROVE IInv'
  OBVIOUS
<1>1. /\ argv \in Seq(Arg) /\ Len(argv) \in Nat /\ i \in Nat /\ newArgc \in 0..i
      /\ argc \in 0..Len(argv) /\ i < argc
  BY LenProperties DEF Compress, IInv, TypeOK, ArraysSound
<1>2. i + 1 \in 1..Len(argv) /\ newArgc + 1 \in 1..Len(argv)
  BY <1>1
<1>3. argv[i + 1] \in Arg
  BY <1>1, <1>2, ElementOfSeq
<1>4. argv' \in Seq(Arg) /\ Len(argv') = Len(argv)
  BY <1>1, <1>2, <1>3, ExceptSeq DEF Compress
<1>5. newArgc' \in 0..i' /\ i' \in 0..Len(argv')
  BY <1>1, <1>2, <1>4 DEF Compress
<1>6. UNCHANGED <<call, pc, tokVars, delim, inner, a, argc, ret>>
  BY DEF Compress
<1>7. TypeOK'
  BY <1>1, <1>4, <1>5, <1>6 DEF IInv, TypeOK, tokVars, Parsing
<1>. QED
  BY <1>4, <1>6, <1>7 DEF IInv, CallSound, ArraysSound, tokVars, Parsing

LEMMA CompressEndsSound == IInv /\ CompressEnds => IInv'
<1>. SUFFICES ASSUME IInv, CompressEnds PROVE IInv'
  OBVIOUS
<1>1. Len(argv) \in Nat /\ i \in 0..Len(argv) /\ newArgc \in 0..i
  BY LenProperties DEF IInv, TypeOK, ArraysSound
<1>2. UNCHANGED <<call, tokVars, delim, inner, a, argv, i, newArgc, ret>>
      /\ argc' = newArgc /\ pc' = "returned"
  BY DEF CompressEnds
<1>3. argc' \in 0..Len(argv)
  BY <1>1, <1>2
<1>4. TypeOK'
  BY <1>2, <1>3 DEF IInv, TypeOK, tokVars, Parsing
<1>. QED
  BY <1>2, <1>4 DEF IInv, CallSound, ArraysSound, tokVars, Parsing

-----------------------------------------------------------------------------
LEMMA NextSound == IInv /\ [Next]_vars => IInv'
<1>. SUFFICES ASSUME IInv, [Next]_vars PROVE IInv'
  OBVIOUS
<1>1. CASE Next
  BY <1>1, SkipSpaceSound, KeepCharSound, EndTokenSound, ParserEndsSound, StoreSound,
     CompressSound, CompressEndsSound DEF Next
<1>2. CASE UNCHANGED vars
  BY <1>2 DEF IInv, TypeOK, CallSound, ArraysSound, vars, tokVars, argVars, Parsing
<1>. QED
  BY <1>1, <1>2

\* No text, buffer length or size makes the scanner write outside tokBuf or read
\* past the text's NUL, a parser fill more than sz elements, or compressArgs
\* write where it has not read.
THEOREM TypeCorrect == Spec => []TypeOK
<1>1. IInv => TypeOK
  BY DEF IInv
<1>. QED
  BY <1>1, InitSound, NextSound, PTL DEF Spec

-----------------------------------------------------------------------------
(* CmdLine: the invariant of the parsers and of compressArgs.              *)

\* The last token before k is in a vector that is still open.
Open(c, k) ==
  /\ c.kind = "vectors" /\ Before(c.text, k) # {}
  /\ c.text[Max(Before(c.text, k))] # ":"

\* getToken is in a token: what it has read of it, as much as there is room for, is
\* in the buffer, and the tokens before it are in the array.
Scanning ==
  pc = "scan" =>
    /\ a = ElementsOf(call, Before(call.text, s))
    /\ inner = Open(call, s)
    /\ p = Len(Cut(Token(call.text, s)))
    /\ \A k \in 1..p : buf[k - 1] = Token(call.text, s)[k]

\* The place of the delimiter getToken has returned.
At == IF delim = NUL THEN s ELSE s - 1

\* getToken has returned a token.
Scanned ==
  pc = "token" /\ delim # Nothing =>
    /\ At \in Ends(call.text)
    /\ delim = IF At <= Len(call.text) THEN call.text[At] ELSE NUL
    /\ a = ElementsOf(call, Before(call.text, At))
    /\ inner = Open(call, At)
    /\ CString(buf) = Cut(Token(call.text, At))

\* What the caller gets, once there are no more tokens.
Delivered ==
  /\ pc = "token" /\ delim = Nothing => a = Elements(call)
  /\ pc = "returned" => a = Elements(call) /\ ret = Len(a)
  /\ pc = "thrown" =>
       Len(Elements(call)) > call.sz /\ a = SubSeq(Elements(call), 1, call.sz)

\* The arguments that are not null.
Kept == {k \in DOMAIN call.text : call.text[k] # Nothing}

\* Of m arguments t, the first j are dealt with, n of which are in K and kept.
Turned(m, K, t, j, n, v) ==
  /\ n = Rank(K, j)
  /\ \A k \in K : k <= j => v[Rank(K, k)] = t[k]
  /\ \A k \in (n + 1)..m : v[k] = t[k]

\* compressArgs has dealt with the first i arguments.
Compressing ==
  /\ call.text \in Seq(Arg) /\ Len(argv) = Len(call.text)
  /\ pc \in {"compress", "returned"}
  /\ Turned(Len(argv), Kept, call.text, i, newArgc, argv)
  /\ argc = IF pc = "compress" THEN Len(argv) ELSE newArgc
  /\ pc = "returned" => i = Len(argv)

LineInv ==
  /\ IInv
  /\ Parsing => pc # "compress" /\ Scanning /\ Scanned /\ Delivered
  /\ call.kind = "compress" => Compressing

-----------------------------------------------------------------------------
(* Ranks: counting through a set of numbers up to a bound.                 *)

LEMMA Finite ==
  ASSUME NEW m \in Nat, NEW S \in SUBSET (1..m)
  PROVE  /\ IsFiniteSet(S) /\ Cardinality(S) \in Nat
         /\ \A k \in Int : /\ IsFiniteSet({j \in S : j <= k})
                          /\ Rank(S, k) \in Nat /\ Rank(S, k) <= Cardinality(S)
<1>1. IsFiniteSet(1..m)
  BY FS_Interval
<1>2. IsFiniteSet(S) /\ Cardinality(S) \in Nat
  BY <1>1, FS_Subset, FS_CardinalityType
<1>3. ASSUME NEW k \in Int
      PROVE  /\ IsFiniteSet({j \in S : j <= k})
             /\ Rank(S, k) \in Nat /\ Rank(S, k) <= Cardinality(S)
  <2>1. {j \in S : j <= k} \in SUBSET S
    OBVIOUS
  <2>. QED
    BY <1>2, <2>1, FS_Subset, FS_CardinalityType DEF Rank
<1>. QED
  BY <1>2, <1>3

\* The rank counts one more at each element.
LEMMA RankNext ==
  ASSUME NEW m \in Nat, NEW S \in SUBSET (1..m), NEW k \in Int
  PROVE  Rank(S, k) = Rank(S, k - 1) + IF k \in S THEN 1 ELSE 0
<1>1. k - 1 \in Int /\ IsFiniteSet({j \in S : j <= k - 1}) /\ Rank(S, k - 1) \in Nat
  <2>1. k - 1 \in Int
    OBVIOUS
  <2>2. Rank(S, k - 1) \in Nat /\ IsFiniteSet({j \in S : j <= k - 1})
    BY <2>1, Finite
  <2>. QED
    BY <2>1, <2>2
<1>0. \A j \in S : j \in Int /\ (j <= k - 1 <=> j <= k /\ j # k)
  OBVIOUS
<1>2. CASE k \in S
  <2>0. k <= k
    OBVIOUS
  <2>1. {j \in S : j <= k} = {j \in S : j <= k - 1} \cup {k} /\ k \notin {j \in S : j <= k - 1}
    BY <1>0, <1>2, <2>0
  <2>. QED
    BY <1>1, <1>2, <2>1, FS_AddElement DEF Rank
<1>3. CASE k \notin S
  <2>1. {j \in S : j <= k} = {j \in S : j <= k - 1}
    BY <1>0, <1>3
  <2>2. Rank(S, k) = Rank(S, k - 1)
    BY <2>1 DEF Rank
  <2>. QED
    BY <1>1, <1>3, <2>2
<1>. QED
  BY <1>2, <1>3

LEMMA RankGrows ==
  ASSUME NEW m \in Nat, NEW S \in SUBSET (1..m), NEW j \in Int, NEW k \in S, j < k
  PROVE  Rank(S, j) < Rank(S, k)
<1>0. k \in Int /\ k - 1 \in Int /\ \A x \in S : x \in Int
  OBVIOUS
<1>1. {x \in S : x <= j} \in SUBSET {x \in S : x <= k - 1}
  <2>1. \A x \in S : x <= j => x <= k - 1
    BY <1>0
  <2>. QED
    BY <2>1
<1>2. IsFiniteSet({x \in S : x <= k - 1}) /\ Rank(S, j) \in Nat /\ Rank(S, k - 1) \in Nat
  BY <1>0, Finite
<1>3. Rank(S, j) <= Rank(S, k - 1)
  BY <1>1, <1>2, FS_Subset DEF Rank
<1>4. Rank(S, k) = Rank(S, k - 1) + 1
  BY <1>0, RankNext
<1>. QED
  BY <1>2, <1>3, <1>4

LEMMA NthOfRank ==
  ASSUME NEW m \in Nat, NEW S \in SUBSET (1..m), NEW k \in S
  PROVE  Nth(S, Rank(S, k)) = k
<1>1. ASSUME NEW x \in S, Rank(S, x) = Rank(S, k) PROVE x = k
  <2>0. x \in Int /\ k \in Int
    OBVIOUS
  <2>1. Rank(S, x) \in Nat
    BY <2>0, Finite
  <2>. QED
    <3>1. x < k => Rank(S, x) < Rank(S, k)
      BY <2>0, RankGrows
    <3>2. k < x => Rank(S, k) < Rank(S, x)
      BY <2>0, RankGrows
    <3>. QED
      BY <1>1, <2>0, <2>1, <3>1, <3>2
<1>. QED
  BY <1>1 DEF Nth

LEMMA RankAtBound ==
  ASSUME NEW m \in Nat, NEW S \in SUBSET (1..m)
  PROVE  Rank(S, m) = Cardinality(S) /\ Rank(S, 0) = 0
<1>1. {j \in S : j <= m} = S /\ {j \in S : j <= 0} = {}
  <2>1. \A j \in S : j \in Int /\ j <= m /\ ~(j <= 0)
    OBVIOUS
  <2>. QED
    BY <2>1
<1>. QED
  BY <1>1, FS_EmptySet DEF Rank

\* Every place is taken.
LEMMA RankOfNth ==
  ASSUME NEW m \in Nat, NEW S \in SUBSET (1..m), NEW n \in 1..Cardinality(S)
  PROVE  Nth(S, n) \in S /\ Rank(S, Nth(S, n)) = n
<1>. DEFINE T == {k \in Nat : n <= Rank(S, k)}
<1>0. Cardinality(S) \in Nat
  BY Finite
<1>1. Cardinality(S) \in Nat /\ n \in Nat /\ n >= 1 /\ \A k \in Int : Rank(S, k) \in Nat
  <2>1. \A k \in Int : Rank(S, k) \in Nat
    BY Finite
  <2>. QED
    BY <1>0, <2>1
<1>2. m \in T
  BY <1>1, RankAtBound
<1>3. PICK k \in T : \A j \in Nat : j < k => j \notin T
  <2>. HIDE DEF T
  <2>1. T \in SUBSET Nat
    BY DEF T
  <2>. QED
    BY <1>2, <2>1, Least
<1>4. k # 0
  <2>1. n <= Rank(S, k)
    BY <1>3
  <2>2. Rank(S, 0) = 0
    BY RankAtBound
  <2>. QED
    BY <1>1, <2>1, <2>2
<1>5. k - 1 \in Nat /\ Rank(S, k - 1) < n
  <2>1. k - 1 \in Nat /\ k - 1 < k
    BY <1>3, <1>4
  <2>. QED
    BY <1>1, <1>3, <2>1
<1>6. Rank(S, k) = Rank(S, k - 1) + IF k \in S THEN 1 ELSE 0
  <2>1. k \in Int
    BY <1>3
  <2>. QED
    BY <2>1, RankNext
<1>7. k \in S /\ Rank(S, k) = n
  BY <1>1, <1>3, <1>5, <1>6
<1>. QED
  BY <1>7 DEF Nth

\* The elements below k are the first ones.
LEMMA NthBelow ==
  ASSUME NEW m \in Nat, NEW S \in SUBSET (1..m), NEW k \in Int
  PROVE  /\ Cardinality({e \in S : e < k}) = Rank(S, k - 1)
         /\ \A n \in 1..Rank(S, k - 1) : Nth({e \in S : e < k}, n) = Nth(S, n)
<1>. DEFINE B == {e \in S : e < k}
<1>0. \A e \in S : e \in Int /\ (e < k <=> e <= k - 1)
  OBVIOUS
<1>1. B = {e \in S : e <= k - 1} /\ B \in SUBSET (1..m)
  BY <1>0
<1>2. Cardinality(B) = Rank(S, k - 1)
  BY <1>1 DEF Rank
<1>3. ASSUME NEW n \in 1..Cardinality(B) PROVE Nth(B, n) = Nth(S, n)
  <2>1. PICK x : x = Nth(B, n)
    OBVIOUS
  <2>2. x \in B /\ Rank(B, x) = n
    BY <1>1, <2>1, RankOfNth
  <2>3. {j \in B : j <= x} = {j \in S : j <= x}
    <3>1. \A j \in S : j <= x => j < k
      BY <1>0, <2>2
    <3>. QED
      BY <3>1
  <2>4. x \in S /\ Rank(S, x) = n
    BY <2>2, <2>3 DEF Rank
  <2>. QED
    BY <2>1, <2>4, NthOfRank
<1>. QED
  BY <1>2, <1>3

LEMMA NthGrows ==
  ASSUME NEW m \in Nat, NEW S \in SUBSET (1..m), NEW k \in 1..m, \A e \in S : e < k
  PROVE  /\ Cardinality(S \cup {k}) = Cardinality(S) + 1 /\ Cardinality(S) \in Nat
         /\ \A n \in 1..Cardinality(S) : Nth(S \cup {k}, n) = Nth(S, n)
         /\ Nth(S \cup {k}, Cardinality(S) + 1) = k
<1>. DEFINE R == S \cup {k}
<1>1. R \in SUBSET (1..m) /\ k \in R /\ {e \in R : e < k} = S /\ k \in Int
  <2>1. ~(k < k) /\ k \in Int
    OBVIOUS
  <2>. QED
    BY <2>1
<1>2. Cardinality(S) = Rank(R, k - 1) /\ \A n \in 1..Rank(R, k - 1) : Nth(S, n) = Nth(R, n)
  <2>. HIDE DEF R
  <2>. QED
    BY <1>1, NthBelow
<1>3. Rank(R, k) = Cardinality(S) + 1
  <2>. HIDE DEF R
  <2>. QED
    BY <1>1, <1>2, RankNext
<1>4. {j \in R : j <= k} = R
  <2>1. \A j \in R : j <= k
    OBVIOUS
  <2>. QED
    BY <2>1
<1>5. Cardinality(R) = Cardinality(S) + 1
  BY <1>3, <1>4 DEF Rank
<1>6. Nth(R, Cardinality(S) + 1) = k
  BY <1>1, <1>3, NthOfRank
<1>7. Cardinality(S) \in Nat
  BY Finite
<1>. QED
  BY <1>2, <1>5, <1>6, <1>7

LEMMA MaxIs ==
  ASSUME NEW S \in SUBSET Int, NEW x \in S, \A y \in S : y <= x
  PROVE  Max(S) = x
<1>1. \A y \in S : y \in Int /\ x \in Int /\ (x >= y <=> y <= x)
  OBVIOUS
<1>2. \A y \in S : y >= x => y = x
  BY <1>1
<1>. QED
  BY <1>1, <1>2 DEF Max

LEMMA MaxExists ==
  ASSUME NEW m \in Nat, NEW S \in SUBSET (0..m), S # {}
  PROVE  Max(S) \in S /\ \A y \in S : y <= Max(S)
<1>. DEFINE T == {n \in 0..m : m - n \in S}
<1>1. PICK y : y \in S
  OBVIOUS
<1>2. m - y \in T /\ T \in SUBSET Nat
  <2>1. m - (m - y) = y /\ m - y \in 0..m
    BY <1>1
  <2>. QED
    BY <1>1, <2>1
<1>3. PICK n \in T : \A j \in Nat : j < n => j \notin T
  <2>. HIDE DEF T
  <2>. QED
    BY <1>2, Least
<1>4. PICK x : x = m - n /\ x \in S /\ n \in 0..m
  BY <1>3
<1>5. ASSUME NEW z \in S PROVE z <= x
  <2>1. m - z \in 0..m /\ m - (m - z) = z
    OBVIOUS
  <2>2. m - z \in T /\ m - z \in Nat
    BY <2>1
  <2>3. ~(m - z < n)
    BY <1>3, <2>2
  <2>. QED
    BY <1>4, <2>1, <2>3
<1>. QED
  BY <1>4, <1>5, MaxIs

-----------------------------------------------------------------------------
(* Sequences, and what is left of one.                                     *)

LEMMA SequencesEqual ==
  ASSUME NEW q, ASequence(q), NEW r, ASequence(r), Len(q) = Len(r),
         \A n \in 1..Len(q) : q[n] = r[n]
  PROVE  q = r
<1>1. q \in [1..Len(q) -> {q[k] : k \in DOMAIN q}] /\ r \in [1..Len(r) -> {r[k] : k \in DOMAIN r}]
  BY LenProperties DEF ASequence
<1>2. q = [n \in 1..Len(q) |-> q[n]]
  BY <1>1
<1>3. r = [n \in 1..Len(r) |-> r[n]]
  BY <1>1
<1>4. [n \in 1..Len(q) |-> q[n]] = [n \in 1..Len(r) |-> r[n]]
  OBVIOUS
<1>. QED
  BY <1>2, <1>3, <1>4

LEMMA SeqIsSequence ==
  ASSUME NEW T, NEW q \in Seq(T)
  PROVE  ASequence(q)
<1>1. q \in [1..Len(q) -> T] /\ DOMAIN q = 1..Len(q) /\ Len(q) \in Nat
  BY LenProperties
<1>2. q \in [1..Len(q) -> {q[k] : k \in DOMAIN q}]
  BY <1>1
<1>. QED
  BY <1>1, <1>2, FunctionIsSeq DEF ASequence

Remaining(q, out) == {k \in DOMAIN q : q[k] # out}

LEMMA RemainingType ==
  ASSUME NEW T, NEW q \in Seq(T), NEW out
  PROVE  /\ Remaining(q, out) \in SUBSET (1..Len(q)) /\ Len(q) \in Nat
         /\ DOMAIN q = 1..Len(q)
BY LenProperties DEF Remaining

LEMMA WithoutDef ==
  ASSUME NEW T, NEW q \in Seq(T), NEW out
  PROVE  Without(q, out) = [n \in 1..Cardinality(Remaining(q, out)) |-> q[Nth(Remaining(q, out), n)]]
BY DEF Without, Remaining

LEMMA WithoutType ==
  ASSUME NEW T, NEW q \in Seq(T), NEW out
  PROVE  /\ Without(q, out) \in Seq(T)
         /\ Len(Without(q, out)) = Cardinality(Remaining(q, out))
         /\ Len(Without(q, out)) \in Nat
         /\ \A n \in 1..Len(Without(q, out)) : Without(q, out)[n] = q[Nth(Remaining(q, out), n)]
<1>. DEFINE K == Remaining(q, out)
            c == Cardinality(K)
            f == [n \in 1..c |-> q[Nth(K, n)]]
<1>1. K \in SUBSET (1..Len(q)) /\ Len(q) \in Nat
  BY RemainingType
<1>2. c \in Nat
  BY <1>1, Finite
<1>3. ASSUME NEW n \in 1..c PROVE q[Nth(K, n)] \in T
  <2>1. Nth(K, n) \in K
    BY <1>1, RankOfNth
  <2>2. Nth(K, n) \in 1..Len(q)
    BY <1>1, <2>1
  <2>. QED
    BY <2>2, ElementOfSeq
<1>. HIDE DEF K, c
<1>4. f \in [1..c -> T]
  BY <1>3
<1>5. f \in Seq(T) /\ Len(f) = c
  BY <1>2, <1>4, FunctionIsSeq
<1>6. Without(q, out) = f
  BY WithoutDef DEF K, c
<1>. QED
  BY <1>2, <1>5, <1>6 DEF K, c

\* Nothing is left if nothing else is there.
LEMMA WithoutEmpty ==
  ASSUME NEW T, NEW q \in Seq(T), NEW out
  PROVE  Len(Without(q, out)) = 0 <=> \A k \in DOMAIN q : q[k] = out
<1>1. IsFiniteSet(Remaining(q, out))
  BY RemainingType, Finite
<1>2. Cardinality(Remaining(q, out)) = 0 <=> Remaining(q, out) = {}
  BY <1>1, FS_EmptySet
<1>3. Remaining(q, out) = {} <=> \A k \in DOMAIN q : q[k] = out
  BY DEF Remaining
<1>. QED
  BY <1>2, <1>3, WithoutType

\* One more element stays or does not.
LEMMA WithoutGrows ==
  ASSUME NEW T, NEW q \in Seq(T), NEW out, NEW r \in Seq(T), Len(r) = Len(q) + 1,
         \A k \in 1..Len(q) : r[k] = q[k]
  PROVE  /\ r[Len(r)] = out => Without(r, out) = Without(q, out)
         /\ r[Len(r)] # out => Without(r, out) = Append(Without(q, out), r[Len(r)])
<1>. DEFINE K == Remaining(q, out)
            R == Remaining(r, out)
            m == Len(r)
            w == Without(q, out)
            v == Without(r, out)
<1>1. /\ K \in SUBSET (1..Len(q)) /\ R \in SUBSET (1..m) /\ Len(q) \in Nat /\ m \in Nat
      /\ DOMAIN q = 1..Len(q) /\ DOMAIN r = 1..m /\ m = Len(q) + 1
  BY RemainingType
<1>2. /\ w \in Seq(T) /\ Len(w) = Cardinality(K) /\ Len(w) \in Nat
      /\ \A n \in 1..Len(w) : w[n] = q[Nth(K, n)]
  BY WithoutType
<1>3. /\ v \in Seq(T) /\ Len(v) = Cardinality(R) /\ Len(v) \in Nat
      /\ \A n \in 1..Len(v) : v[n] = r[Nth(R, n)]
  BY WithoutType
<1>4. ASSUME NEW n \in 1..Len(w) PROVE Nth(K, n) \in 1..Len(q) /\ r[Nth(K, n)] = w[n]
  <2>1. Nth(K, n) \in K
    BY <1>1, <1>2, RankOfNth
  <2>2. Nth(K, n) \in 1..Len(q)
    BY <1>1, <2>1
  <2>. QED
    BY <1>2, <2>2
<1>5. CASE r[m] = out
  <2>1. R = K
    <3>1. \A k \in 1..m : k = m \/ k \in 1..Len(q)
      BY <1>1
    <3>2. \A k \in 1..Len(q) : k \in 1..m
      BY <1>1
    <3>. QED
      BY <1>1, <1>5, <3>1, <3>2 DEF Remaining
  <2>. HIDE DEF K, R, w, v
  <2>2. Len(v) = Len(w) /\ \A n \in 1..Len(w) : v[n] = w[n]
    BY <1>2, <1>3, <1>4, <2>1
  <2>. QED
    BY <1>2, <1>3, <1>5, <2>2, SequencesEqual, SeqIsSequence DEF w, v
<1>6. CASE r[m] # out
  <2>1. R = K \cup {m}
    <3>1. \A k \in 1..m : k = m \/ k \in 1..Len(q)
      BY <1>1
    <3>2. m \in 1..m /\ \A k \in 1..Len(q) : k \in 1..m
      BY <1>1
    <3>. QED
      BY <1>1, <1>6, <3>1, <3>2 DEF Remaining
  <2>2. K \in SUBSET (1..m) /\ m \in 1..m /\ \A e \in K : e < m
    BY <1>1
  <2>9. m \in Nat
    BY <1>1
  <2>. DEFINE u == Append(w, r[m])
  <2>3. r[m] \in T
    BY <1>1, <2>2, ElementOfSeq
  <2>. HIDE DEF K, R, w, v, m
  <2>4. /\ Cardinality(R) = Cardinality(K) + 1
        /\ \A n \in 1..Cardinality(K) : Nth(R, n) = Nth(K, n)
        /\ Nth(R, Cardinality(K) + 1) = m
    <3>1. /\ Cardinality(K \cup {m}) = Cardinality(K) + 1
          /\ \A n \in 1..Cardinality(K) : Nth(K \cup {m}, n) = Nth(K, n)
          /\ Nth(K \cup {m}, Cardinality(K) + 1) = m
      BY <2>2, <2>9, NthGrows
    <3>. QED
      BY <2>1, <3>1
  <2>5. /\ u \in Seq(T) /\ Len(u) = Len(w) + 1
        /\ \A n \in 1..Len(w) : u[n] = w[n]
        /\ u[Len(w) + 1] = r[m]
    BY <1>2, <2>3, AppendProperties
  <2>6. Len(v) = Len(u)
    BY <1>2, <1>3, <2>4, <2>5
  <2>7. ASSUME NEW n \in 1..Len(v) PROVE v[n] = u[n]
    <3>1. n \in 1..Len(w) \/ n = Len(w) + 1
      BY <1>2, <2>5, <2>6
    <3>2. v[n] = r[Nth(R, n)]
      BY <1>3
    <3>3. CASE n \in 1..Len(w)
      BY <1>2, <1>4, <2>4, <2>5, <3>2, <3>3
    <3>4. CASE n = Len(w) + 1
      BY <1>2, <2>4, <2>5, <3>2, <3>4
    <3>. QED
      BY <3>1, <3>3, <3>4
  <2>8. v = u
    BY <1>3, <2>5, <2>6, <2>7, SequencesEqual, SeqIsSequence
  <2>. QED
    BY <1>6, <2>8 DEF w, v, m
<1>. QED
  BY <1>5, <1>6

-----------------------------------------------------------------------------
(* compressArgs.                                                           *)

LEMMA RankLess ==
  ASSUME NEW m \in Nat, NEW S \in SUBSET (1..m), NEW j \in Int, NEW k \in Int, j <= k
  PROVE  Rank(S, j) <= Rank(S, k)
<1>1. {x \in S : x <= j} \in SUBSET {x \in S : x <= k}
  <2>1. \A x \in S : x <= j => x <= k
    OBVIOUS
  <2>. QED
    BY <2>1
<1>2. IsFiniteSet({x \in S : x <= k})
  BY Finite
<1>. QED
  BY <1>1, <1>2, FS_Subset DEF Rank

LEMMA RankPositive ==
  ASSUME NEW m \in Nat, NEW S \in SUBSET (1..m), NEW k \in S
  PROVE  Rank(S, k) >= 1 /\ Rank(S, k) \in Nat
<1>1. k \in Int /\ k - 1 \in Int
  OBVIOUS
<1>2. Rank(S, k - 1) \in Nat
  BY <1>1, Finite
<1>3. Rank(S, k) = Rank(S, k - 1) + 1
  BY <1>1, RankNext
<1>. QED
  BY <1>2, <1>3

LEMMA KeptType ==
  ASSUME Compressing
  PROVE  /\ Kept \in SUBSET (1..Len(argv)) /\ Len(argv) \in Nat
         /\ Kept = Remaining(call.text, Nothing) /\ call.text \in Seq(Arg)
         /\ DOMAIN call.text = 1..Len(argv)
BY RemainingType DEF Compressing, Kept, Remaining

LEMMA CompressingInit ==
  ASSUME Init, call.kind = "compress"
  PROVE  Compressing
<1>1. call.text \in ArgLists /\ argv = call.text /\ i = 0 /\ newArgc = 0 /\ argc = Len(argv)
      /\ pc = "compress"
  BY DEF Init
<1>2. call.text \in Seq(Arg)
  BY <1>1, ArgListsAreLists
<1>3. Kept \in SUBSET (1..Len(argv)) /\ Len(argv) \in Nat /\ DOMAIN argv = 1..Len(argv)
  BY <1>1, <1>2, RemainingType DEF Kept, Remaining
<1>4. Rank(Kept, 0) = 0
  BY <1>3, RankAtBound
<1>5. \A k \in Kept : ~(k <= 0)
  BY <1>3
<1>. QED
  BY <1>1, <1>2, <1>4, <1>5 DEF Compressing, Turned

\* One turn of the loop, for the kept ones and the others.
LEMMA CompressTurn ==
  ASSUME NEW m \in Nat, NEW K \in SUBSET (1..m), NEW j \in 0..(m - 1), NEW n \in 0..j, NEW t,
         NEW v, DOMAIN v = 1..m, Turned(m, K, t, j, n, v), j + 1 \in K
  PROVE  Turned(m, K, t, j + 1, n + 1, [v EXCEPT ![n + 1] = v[j + 1]])
<1>. DEFINE w == [v EXCEPT ![n + 1] = v[j + 1]]
<1>1. n + 1 \in 1..m /\ j + 1 \in (n + 1)..m /\ j \in Int /\ j + 1 \in Int /\ (j + 1) - 1 = j
  OBVIOUS
<1>2. n + 1 = Rank(K, j + 1)
  <2>1. Rank(K, j + 1) = Rank(K, (j + 1) - 1) + 1
    BY <1>1, RankNext
  <2>. QED
    BY <1>1, <2>1 DEF Turned
<1>3. w[n + 1] = t[j + 1]
  BY <1>1 DEF Turned
<1>4. ASSUME NEW k \in K, k <= j PROVE w[Rank(K, k)] = t[k]
  <2>1. k \in Int
    OBVIOUS
  <2>2. Rank(K, k) <= n
    BY <1>1, <1>4, <2>1, RankLess DEF Turned
  <2>3. Rank(K, k) >= 1 /\ Rank(K, k) \in Nat
    BY RankPositive
  <2>4. Rank(K, k) \in 1..m /\ Rank(K, k) # n + 1
    BY <2>2, <2>3
  <2>5. w[Rank(K, k)] = v[Rank(K, k)]
    BY <2>4
  <2>. QED
    BY <1>4, <2>5 DEF Turned
<1>5. ASSUME NEW k \in K, k <= j + 1 PROVE w[Rank(K, k)] = t[k]
  <2>1. k <= j \/ k = j + 1
    BY <1>5
  <2>. QED
    BY <1>2, <1>3, <1>4, <2>1
<1>6. ASSUME NEW k \in (n + 1 + 1)..m PROVE w[k] = t[k]
  <2>1. k \in (n + 1)..m /\ k # n + 1 /\ k \in 1..m
    OBVIOUS
  <2>. QED
    BY <2>1 DEF Turned
<1>. QED
  BY <1>2, <1>5, <1>6 DEF Turned

LEMMA CompressKeeps == IInv /\ Compressing /\ Compress => Compressing'
<1>. SUFFICES ASSUME IInv, Compressing, Compress PROVE Compressing'
  OBVIOUS
<1>1. PICK m : m = Len(argv)
  OBVIOUS
<1>2. PICK K, t : K = Kept /\ t = call.text
  OBVIOUS
<1>3. PICK j, n, v : j = i /\ n = newArgc /\ v = argv
  OBVIOUS
<1>4. /\ K \in SUBSET (1..m) /\ m \in Nat /\ t \in Seq(Arg) /\ DOMAIN t = 1..m /\ Len(t) = m
      /\ K = {k \in DOMAIN t : t[k] # Nothing}
  BY <1>1, <1>2, KeptType DEF Compressing, Kept
<1>5. argc = m /\ pc = "compress" /\ j < argc
  BY <1>1, <1>3 DEF Compress, Compressing
<1>6. v \in Seq(Arg) /\ Len(v) = m /\ DOMAIN v = 1..m
  BY <1>1, <1>3, LenProperties DEF IInv, ArraysSound
<1>7. n \in 0..j /\ j \in 0..(m - 1) /\ m \in Nat
  BY <1>1, <1>3, <1>4, <1>5 DEF IInv, TypeOK
<1>8. Turned(m, K, t, j, n, v)
  BY <1>1, <1>2, <1>3 DEF Compressing
<1>9. j + 1 \in (n + 1)..m /\ v[j + 1] = t[j + 1] /\ (j + 1 \in K <=> v[j + 1] # Nothing)
  <2>1. j + 1 \in (n + 1)..m /\ j + 1 \in 1..m
    BY <1>7
  <2>. QED
    BY <1>4, <1>8, <2>1 DEF Turned
<1>10. i' = j + 1 /\ call' = call /\ pc' = pc /\ argc' = argc
  BY <1>3 DEF Compress
<1>11. CASE j + 1 \in K
  <2>1. argv' = [v EXCEPT ![n + 1] = v[j + 1]] /\ newArgc' = n + 1
    BY <1>3, <1>9, <1>11 DEF Compress
  <2>2. Turned(m, K, t, j + 1, n + 1, [v EXCEPT ![n + 1] = v[j + 1]])
    BY <1>4, <1>6, <1>7, <1>8, <1>11, CompressTurn
  <2>3. n + 1 \in 1..Len(v) /\ v[j + 1] \in Arg
    <3>1. j + 1 \in 1..Len(v) /\ n + 1 \in 1..Len(v)
      BY <1>6, <1>7
    <3>. QED
      BY <1>6, <3>1, ElementOfSeq
  <2>4. Len(argv') = m
    BY <1>6, <2>1, <2>3, ExceptSeq
  <2>6. Kept' = K
    BY <1>2, <1>10 DEF Kept
  <2>. QED
    BY <1>2, <1>4, <1>5, <1>10, <2>1, <2>2, <2>4, <2>6 DEF Compressing
<1>12. CASE j + 1 \notin K
  <2>1. argv' = v /\ newArgc' = n
    BY <1>3, <1>9, <1>12 DEF Compress
  <2>2. j + 1 \in Int /\ (j + 1) - 1 = j /\ j \in Int
    BY <1>7
  <2>3. Rank(K, j) \in Nat
    BY <1>4, <2>2, Finite
  <2>4. newArgc' = Rank(K, j + 1)
    <3>1. Rank(K, j + 1) = Rank(K, (j + 1) - 1) + 0
      BY <1>4, <1>12, <2>2, RankNext
    <3>. QED
      BY <1>8, <2>1, <2>2, <2>3, <3>1 DEF Turned
  <2>5. ASSUME NEW k \in K, k <= j + 1 PROVE argv'[Rank(K, k)] = t[k]
    <3>1. k \in Int /\ k # j + 1
      BY <1>4, <1>12
    <3>2. k <= j
      BY <1>7, <2>5, <3>1
    <3>. QED
      BY <1>8, <2>1, <3>2 DEF Turned
  <2>6. Kept' = K
    BY <1>2, <1>10 DEF Kept
  <2>. QED
    <3>1. Turned(m, K, t, j + 1, newArgc', argv')
      BY <1>8, <2>1, <2>4, <2>5 DEF Turned
    <3>. QED
      BY <1>2, <1>4, <1>5, <1>6, <1>10, <2>1, <2>6, <3>1 DEF Compressing
<1>. QED
  BY <1>11, <1>12

LEMMA CompressEndsKeeps == IInv /\ Compressing /\ CompressEnds => Compressing'
<1>. SUFFICES ASSUME IInv, Compressing, CompressEnds PROVE Compressing'
  OBVIOUS
<1>1. /\ call' = call /\ argv' = argv /\ i' = i /\ newArgc' = newArgc /\ argc' = newArgc
      /\ pc' = "returned" /\ i = argc /\ pc = "compress"
  BY DEF CompressEnds
<1>2. Kept' = Kept
  BY <1>1 DEF Kept
<1>3. i = Len(argv)
  BY <1>1 DEF Compressing
<1>. QED
  BY <1>1, <1>2, <1>3 DEF Compressing

LEMMA CompressedIs ==
  ASSUME IInv, Compressing, pc = "returned"
  PROVE  /\ SubSeq(argv, 1, argc) = Without(call.text, Nothing)
         /\ \A k \in (argc + 1)..Len(argv) : argv[k] = call.text[k]
<1>. DEFINE w == Without(call.text, Nothing)
            m == Len(argv)
<1>1. /\ Kept \in SUBSET (1..m) /\ m \in Nat /\ Kept = Remaining(call.text, Nothing)
      /\ call.text \in Seq(Arg)
  BY KeptType
<1>2. argc = Rank(Kept, m) /\ i = m /\ argc = newArgc
  BY DEF Compressing, Turned
<1>3. argc = Cardinality(Kept) /\ argc \in Nat /\ argc <= m
  <2>1. Rank(Kept, m) = Cardinality(Kept)
    BY <1>1, RankAtBound
  <2>2. newArgc \in Nat /\ newArgc <= i
    BY <1>1, <1>2 DEF IInv, TypeOK
  <2>3. argc \in Nat /\ argc <= m
    BY <1>2, <2>2
  <2>. QED
    BY <1>2, <2>1, <2>3
<1>4. /\ w \in Seq(Arg) /\ Len(w) = argc
      /\ \A n \in 1..argc : w[n] = call.text[Nth(Kept, n)]
  BY <1>1, <1>3, WithoutType
<1>5. ASSUME NEW n \in 1..argc PROVE argv[n] = w[n] /\ w[n] \in Arg
  <2>1. Nth(Kept, n) \in Kept /\ Rank(Kept, Nth(Kept, n)) = n
    BY <1>1, <1>3, RankOfNth
  <2>2. Nth(Kept, n) <= i
    BY <1>1, <1>2, <2>1
  <2>3. argv[n] = call.text[Nth(Kept, n)]
    BY <2>1, <2>2 DEF Compressing, Turned
  <2>. QED
    BY <1>4, <2>3, ElementOfSeq
<1>6. /\ SubSeq(argv, 1, argc) \in Seq(Arg)
      /\ Len(SubSeq(argv, 1, argc)) = argc
      /\ \A n \in 1..argc : SubSeq(argv, 1, argc)[n] = argv[n]
  <2>1. \A n \in 1..argc : argv[n] \in Arg
    BY <1>5
  <2>2. /\ SubSeq(argv, 1, argc) \in Seq(Arg)
        /\ Len(SubSeq(argv, 1, argc)) = IF 1 <= argc THEN argc - 1 + 1 ELSE 0
        /\ \A n \in 1..(argc - 1 + 1) : SubSeq(argv, 1, argc)[n] = argv[1 + n - 1]
    BY <1>3, <2>1, SubSeqProperties
  <2>. QED
    BY <1>3, <2>2
<1>7. SubSeq(argv, 1, argc) = w
  <2>. HIDE DEF w
  <2>. QED
    BY <1>4, <1>5, <1>6, SeqEqual
<1>. QED
  BY <1>2, <1>7 DEF Compressing, Turned

-----------------------------------------------------------------------------
(* The tokens of a text.                                                   *)

LEMMA EndsType ==
  ASSUME NEW text \in Seq(Characters)
  PROVE  /\ Len(text) \in Nat /\ DOMAIN text = 1..Len(text)
         /\ Ends(text) \in SUBSET (1..(Len(text) + 1))
         /\ \A k : Before(text, k) \in SUBSET (1..(Len(text) + 1))
         /\ \A k \in 1..Len(text) : k \in Ends(text) <=> text[k] \in Delims
<1>1. Len(text) \in Nat /\ DOMAIN text = 1..Len(text)
  BY LenProperties
<1>2. \A k \in 1..Len(text) : k \in 1..(Len(text) + 1) /\ k <= Len(text)
  BY <1>1
<1>. QED
  BY <1>1, <1>2 DEF Ends, Before

LEMMA BeforeNext ==
  ASSUME NEW text \in Seq(Characters), NEW k \in Int
  PROVE  /\ k \in Ends(text) => Before(text, k + 1) = Before(text, k) \cup {k}
         /\ k \notin Ends(text) => Before(text, k + 1) = Before(text, k)
<1>1. \A e \in Ends(text) : e \in Int
  BY EndsType
<1>2. \A e \in Ends(text) : (e < k + 1 <=> e < k \/ e = k)
  BY <1>1
<1>. QED
  BY <1>2 DEF Before

LEMMA BeforeFirst ==
  ASSUME NEW text \in Seq(Characters)
  PROVE  Before(text, 1) = {} /\ Begin(text, 1) = 1
<1>1. \A e \in Ends(text) : e \in Int /\ ~(e < 1)
  BY EndsType
<1>2. Before(text, 1) = {}
  BY <1>1 DEF Before
<1>3. Max({0}) = 0
  BY MaxIs
<1>4. {0} \cup Before(text, 1) = {0}
  BY <1>2
<1>5. Begin(text, 1) = 0 + 1
  BY <1>3, <1>4 DEF Begin
<1>. QED
  BY <1>2, <1>5

LEMMA BeginType ==
  ASSUME NEW text \in Seq(Characters), NEW k \in 1..(Len(text) + 1)
  PROVE  /\ Begin(text, k) \in 1..k
         /\ Begin(text, k) = 1 \/ Begin(text, k) - 1 \in Before(text, k)
         /\ \A e \in Before(text, k) : e < Begin(text, k)
<1>. DEFINE S == {0} \cup Before(text, k)
<1>1. Len(text) \in Nat /\ Before(text, k) \in SUBSET (1..(Len(text) + 1))
  BY EndsType
<1>2. \A e \in Before(text, k) : e < k
  BY DEF Before
<1>3. S \in SUBSET (0..(Len(text) + 1)) /\ S # {} /\ Len(text) + 1 \in Nat
  BY <1>1
<1>4. Max(S) \in S /\ \A y \in S : y <= Max(S)
  <2>. HIDE DEF S
  <2>. QED
    BY <1>3, MaxExists
<1>5. PICK x : x = Max(S) /\ Begin(text, k) = x + 1
  BY DEF Begin
<1>6. x \in S /\ x \in Nat /\ (x = 0 \/ x < k) /\ \A y \in Before(text, k) : y \in Int /\ y <= x
  <2>1. \A y \in S : y \in Nat
    BY <1>3
  <2>2. x \in S /\ \A y \in S : y <= x
    BY <1>4, <1>5
  <2>5. \A y \in Before(text, k) : y \in S
    OBVIOUS
  <2>6. \A y \in Nat : y \in Int
    OBVIOUS
  <2>3. x \in Nat /\ \A y \in Before(text, k) : y \in Int /\ y <= x
    <3>. HIDE DEF S
    <3>. QED
      BY <2>1, <2>2, <2>5, <2>6
  <2>4. x = 0 \/ x < k
    BY <1>2, <2>2
  <2>. QED
    BY <2>2, <2>3, <2>4
<1>7. x + 1 \in 1..k /\ (x + 1) - 1 = x
  BY <1>6
<1>8. x + 1 = 1 \/ x \in Before(text, k)
  BY <1>6
<1>9. \A e \in Before(text, k) : e < x + 1
  BY <1>6
<1>. QED
  BY <1>5, <1>7, <1>8, <1>9

\* After a delimiter, a token begins; otherwise, it goes on.
LEMMA BeginNext ==
  ASSUME NEW text \in Seq(Characters), NEW k \in 1..Len(text)
  PROVE  /\ k \in Ends(text) => Begin(text, k + 1) = k + 1
         /\ k \notin Ends(text) => Begin(text, k + 1) = Begin(text, k)
<1>1. k \in Int
  OBVIOUS
<1>2. CASE k \notin Ends(text)
  BY <1>1, <1>2, BeforeNext DEF Begin
<1>3. CASE k \in Ends(text)
  <2>. DEFINE S == {0} \cup Before(text, k + 1)
  <2>1. Before(text, k + 1) = Before(text, k) \cup {k}
    BY <1>1, <1>3, BeforeNext
  <2>2. k \in S /\ S \in SUBSET Int
    BY <1>1, <2>1, EndsType
  <2>3. \A y \in S : y <= k
    BY <2>1 DEF Before
  <2>4. Max(S) = k
    <3>. HIDE DEF S
    <3>. QED
      BY <2>2, <2>3, MaxIs
  <2>. QED
    BY <1>3, <2>4 DEF Begin
<1>. QED
  BY <1>2, <1>3

\* The characters between the token's begin and k.
TokenSpan(text, k) == SubSeq(text, Begin(text, k), k - 1)

LEMMA SpanType ==
  ASSUME NEW text \in Seq(Characters), NEW k \in 1..(Len(text) + 1)
  PROVE  /\ TokenSpan(text, k) \in Seq(Characters)
         /\ Len(TokenSpan(text, k)) = k - Begin(text, k)
         /\ \A n \in 1..(k - Begin(text, k)) : TokenSpan(text, k)[n] = text[Begin(text, k) + n - 1]
<1>1. PICK b : b = Begin(text, k)
  OBVIOUS
<1>2. b \in 1..k /\ Len(text) \in Nat
  BY <1>1, BeginType, EndsType
<1>3. ASSUME NEW j \in b..(k - 1) PROVE text[j] \in Characters
  <2>1. j \in 1..Len(text)
    BY <1>2
  <2>. QED
    BY <2>1, ElementOfSeq
<1>4. /\ SubSeq(text, b, k - 1) \in Seq(Characters)
      /\ Len(SubSeq(text, b, k - 1)) = IF b <= k - 1 THEN (k - 1) - b + 1 ELSE 0
      /\ \A n \in 1..((k - 1) - b + 1) : SubSeq(text, b, k - 1)[n] = text[b + n - 1]
  <2>1. b \in Int /\ k - 1 \in Int
    BY <1>2
  <2>. QED
    BY <1>3, <2>1, SubSeqProperties
<1>5. (k - 1) - b + 1 = k - b /\ (IF b <= k - 1 THEN (k - 1) - b + 1 ELSE 0) = k - b
  BY <1>2
<1>. QED
  BY <1>1, <1>4, <1>5 DEF TokenSpan

LEMMA TokenType ==
  ASSUME NEW text \in Seq(Characters), NEW k \in 1..(Len(text) + 1)
  PROVE  Token(text, k) \in Seq(Characters) /\ Len(Token(text, k)) \in Nat
BY SpanType, WithoutType DEF Token, TokenSpan

LEMMA TokenEmpty ==
  ASSUME NEW text \in Seq(Characters), NEW k \in 1..(Len(text) + 1)
  PROVE  Len(Token(text, k)) = 0 <=> \A j \in Begin(text, k)..(k - 1) : text[j] = Space
<1>1. PICK b : b = Begin(text, k)
  OBVIOUS
<1>2. b \in 1..k
  BY <1>1, BeginType
<1>3. /\ TokenSpan(text, k) \in Seq(Characters) /\ Len(TokenSpan(text, k)) = k - b
      /\ \A n \in 1..(k - b) : TokenSpan(text, k)[n] = text[b + n - 1]
  BY <1>1, SpanType
<1>4. DOMAIN TokenSpan(text, k) = 1..(k - b)
  BY <1>3, LenProperties
<1>5. Len(Token(text, k)) = 0 <=> \A n \in 1..(k - b) : TokenSpan(text, k)[n] = Space
  BY <1>3, <1>4, WithoutEmpty DEF Token, TokenSpan
<1>6. ASSUME \A n \in 1..(k - b) : text[b + n - 1] = Space, NEW j \in b..(k - 1)
      PROVE  text[j] = Space
  <2>1. j - b + 1 \in 1..(k - b) /\ b + (j - b + 1) - 1 = j
    BY <1>2
  <2>. QED
    BY <1>6, <2>1
<1>7. ASSUME \A j \in b..(k - 1) : text[j] = Space, NEW n \in 1..(k - b)
      PROVE  text[b + n - 1] = Space
  <2>1. b + n - 1 \in b..(k - 1)
    BY <1>2
  <2>. QED
    BY <1>7, <2>1
<1>. QED
  BY <1>1, <1>3, <1>5, <1>6, <1>7

\* A token gets every character but a space.
LEMMA TokenNext ==
  ASSUME NEW text \in Seq(Characters), NEW k \in 1..Len(text), k \notin Ends(text)
  PROVE  /\ text[k] = Space => Token(text, k + 1) = Token(text, k)
         /\ text[k] # Space => Token(text, k + 1) = Append(Token(text, k), text[k])
<1>1. PICK b : b = Begin(text, k) /\ b = Begin(text, k + 1)
  BY BeginNext
<1>2. k \in 1..(Len(text) + 1) /\ k + 1 \in 1..(Len(text) + 1)
  BY EndsType
<1>3. b \in 1..k
  BY <1>1, <1>2, BeginType
<1>4. PICK q : q = TokenSpan(text, k)
  OBVIOUS
<1>5. PICK r : r = TokenSpan(text, k + 1)
  OBVIOUS
<1>6. q \in Seq(Characters) /\ Len(q) = k - b /\ \A n \in 1..(k - b) : q[n] = text[b + n - 1]
  <2>1. /\ TokenSpan(text, k) \in Seq(Characters)
        /\ Len(TokenSpan(text, k)) = k - Begin(text, k)
        /\ \A n \in 1..(k - Begin(text, k)) : TokenSpan(text, k)[n] = text[Begin(text, k) + n - 1]
    BY <1>2, SpanType
  <2>. QED
    BY <1>1, <1>4, <2>1
<1>7. r \in Seq(Characters) /\ Len(r) = (k + 1) - b /\ \A n \in 1..((k + 1) - b) : r[n] = text[b + n - 1]
  BY <1>1, <1>2, <1>5, SpanType
<1>8. Len(r) = Len(q) + 1 /\ \A n \in 1..Len(q) : n \in 1..((k + 1) - b) /\ n \in 1..(k - b)
  BY <1>3, <1>6, <1>7
<1>9. \A n \in 1..Len(q) : r[n] = q[n]
  BY <1>6, <1>7, <1>8
<1>10. r[Len(r)] = text[k]
  <2>1. Len(r) \in 1..((k + 1) - b) /\ b + Len(r) - 1 = k
    BY <1>3, <1>7
  <2>. QED
    BY <1>7, <2>1
<1>11. /\ r[Len(r)] = Space => Without(r, Space) = Without(q, Space)
       /\ r[Len(r)] # Space => Without(r, Space) = Append(Without(q, Space), r[Len(r)])
  <2>1. q \in Seq(Characters) /\ r \in Seq(Characters) /\ Len(r) = Len(q) + 1
    BY <1>6, <1>7, <1>8
  <2>. QED
    BY <1>9, <2>1, WithoutGrows
<1>. QED
  BY <1>4, <1>5, <1>10, <1>11 DEF Token, TokenSpan

\* The end of the text ends a token unless it would be empty.
LEMMA LastEnd ==
  ASSUME NEW text \in Seq(Characters)
  PROVE  Len(text) + 1 \in Ends(text) <=> Len(Token(text, Len(text) + 1)) # 0
<1>1. PICK n, b : n = Len(text) /\ b = Begin(text, n + 1)
  OBVIOUS
<1>2. /\ n \in Nat /\ DOMAIN text = 1..n /\ n + 1 \in 1..(n + 1)
      /\ \A k \in 1..n : k \in Ends(text) <=> text[k] \in Delims
  BY <1>1, EndsType
<1>3. /\ b \in 1..(n + 1) /\ (b = 1 \/ b - 1 \in Before(text, n + 1))
      /\ \A e \in Before(text, n + 1) : e < b
  BY <1>1, <1>2, BeginType
<1>4. n + 1 \in Ends(text) <=>
        \E j \in 1..n : text[j] # Space /\ \A m \in j..n : text[m] \notin Delims
  BY <1>1, <1>2 DEF Ends
<1>5. Len(Token(text, n + 1)) = 0 <=> \A j \in b..n : text[j] = Space
  <2>1. (n + 1) - 1 = n
    BY <1>2
  <2>. QED
    BY <1>1, <1>2, <2>1, TokenEmpty
<1>6. ASSUME NEW j \in 1..n, text[j] # Space, \A m \in j..n : text[m] \notin Delims
      PROVE  j \in b..n
  <2>1. CASE b = 1
    BY <2>1
  <2>2. CASE b - 1 \in Before(text, n + 1)
    <3>1. b - 1 \in 1..n /\ b - 1 \in Ends(text)
      <4>1. b - 1 \in Ends(text) /\ b - 1 < n + 1 /\ b - 1 \in 1..(Len(text) + 1)
        BY <2>2, EndsType DEF Before
      <4>. QED
        BY <1>2, <4>1
    <3>2. b - 1 \notin j..n
      BY <1>2, <1>6, <3>1
    <3>. QED
      BY <1>2, <1>3, <3>1, <3>2
  <2>. QED
    BY <1>3, <2>1, <2>2
<1>7. ASSUME NEW j \in b..n, text[j] # Space
      PROVE  j \in 1..n /\ \A m \in j..n : text[m] \notin Delims
  <2>1. j \in 1..n
    BY <1>2, <1>3
  <2>2. ASSUME NEW m \in j..n, text[m] \in Delims PROVE FALSE
    <3>1. m \in 1..n /\ m < n + 1 /\ b <= m /\ b \in Int /\ m \in Int
      BY <1>2, <1>3
    <3>2. m \in Before(text, n + 1)
      BY <1>2, <2>2, <3>1 DEF Before
    <3>3. m < b
      BY <1>3, <3>2
    <3>. QED
      BY <3>1, <3>3
  <2>. QED
    BY <2>1, <2>2
<1>8. n + 1 \in Ends(text) <=> \E j \in b..n : text[j] # Space
  BY <1>4, <1>6, <1>7
<1>. QED
  BY <1>1, <1>5, <1>8

-----------------------------------------------------------------------------
(* The elements of an array, as one more token ends.                       *)

LEMMA ArrayIsSequence ==
  ASSUME NEW n \in Nat, NEW f, f = [k \in 1..n |-> f[k]]
  PROVE  ASequence(f) /\ Len(f) = n
<1>1. f \in [1..n -> {f[k] : k \in 1..n}] /\ DOMAIN f = 1..n
  <2>. PICK g : g = [k \in 1..n |-> f[k]]
    OBVIOUS
  <2>1. g \in [1..n -> {f[k] : k \in 1..n}] /\ DOMAIN g = 1..n
    OBVIOUS
  <2>. QED
    BY <2>1
<1>2. f \in Seq({f[k] : k \in 1..n}) /\ Len(f) = n
  BY <1>1, FunctionIsSeq
<1>. QED
  BY <1>1, <1>2 DEF ASequence

LEMMA AppendIs ==
  ASSUME NEW q, ASequence(q), NEW e, NEW r, ASequence(r), Len(r) = Len(q) + 1,
         \A n \in 1..Len(q) : r[n] = q[n], r[Len(q) + 1] = e
  PROVE  r = Append(q, e)
<1>. DEFINE S == {q[k] : k \in DOMAIN q} \cup {e}
            u == Append(q, e)
<1>1. q \in Seq(S) /\ e \in S
  BY SeqMonotonic DEF ASequence
<1>2. /\ Len(u) = Len(q) + 1 /\ Len(q) \in Nat
      /\ \A n \in 1..Len(q) : u[n] = q[n]
      /\ u[Len(q) + 1] = e
  BY <1>1, AppendProperties, LenProperties
<1>3. ASequence(u)
  BY AppendIsSequence
<1>4. \A n \in 1..Len(r) : n \in 1..Len(q) \/ n = Len(q) + 1
  BY <1>2
<1>. HIDE DEF u
<1>5. \A n \in 1..Len(r) : r[n] = u[n]
  BY <1>2, <1>4
<1>6. r = u
  BY <1>2, <1>3, <1>5, SequencesEqual
<1>. QED
  BY <1>6 DEF u

\* The value of the token that ends at k.
Element(c, k) == Value(c.kind, Cut(Token(c.text, k)))

LEMMA ValuesType ==
  ASSUME NEW m \in Nat, NEW D \in SUBSET (1..m), NEW c
  PROVE  /\ ASequence(Values(c, D)) /\ Len(Values(c, D)) = Cardinality(D) /\ Cardinality(D) \in Nat
         /\ \A n \in 1..Cardinality(D) : Values(c, D)[n] = Element(c, Nth(D, n))
<1>1. Cardinality(D) \in Nat
  BY Finite
<1>2. PICK n : n = Cardinality(D)
  OBVIOUS
<1>3. Values(c, D) = [k \in 1..n |-> Element(c, Nth(D, k))]
  BY <1>2 DEF Values, Element
<1>4. \A k \in 1..n : Values(c, D)[k] = Element(c, Nth(D, k))
  BY <1>3
<1>5. Values(c, D) = [k \in 1..n |-> Values(c, D)[k]]
  BY <1>3
<1>. QED
  BY <1>1, <1>2, <1>4, <1>5, ArrayIsSequence

LEMMA ValuesGrow ==
  ASSUME NEW m \in Nat, NEW D \in SUBSET (1..m), NEW k \in 1..m, \A e \in D : e < k, NEW c
  PROVE  Values(c, D \cup {k}) = Append(Values(c, D), Element(c, k))
<1>1. PICK q, r, R : q = Values(c, D) /\ r = Values(c, R) /\ R = D \cup {k}
  OBVIOUS
<1>2. R \in SUBSET (1..m)
  BY <1>1
<1>3. /\ ASequence(q) /\ Len(q) = Cardinality(D) /\ Cardinality(D) \in Nat
      /\ \A n \in 1..Cardinality(D) : q[n] = Element(c, Nth(D, n))
  BY <1>1, ValuesType
<1>4. /\ ASequence(r) /\ Len(r) = Cardinality(R)
      /\ \A n \in 1..Cardinality(R) : r[n] = Element(c, Nth(R, n))
  BY <1>1, <1>2, ValuesType
<1>5. /\ Cardinality(R) = Cardinality(D) + 1
      /\ \A n \in 1..Cardinality(D) : Nth(R, n) = Nth(D, n)
      /\ Nth(R, Cardinality(D) + 1) = k
  BY <1>1, NthGrows
<1>6. /\ \A n \in 1..Cardinality(D) : n \in 1..Cardinality(R)
      /\ Cardinality(D) + 1 \in 1..Cardinality(R)
  BY <1>3, <1>5
<1>7. (\A n \in 1..Len(q) : r[n] = q[n]) /\ r[Len(q) + 1] = Element(c, k)
  BY <1>3, <1>4, <1>5, <1>6
<1>. QED
  BY <1>1, <1>3, <1>4, <1>5, <1>7, AppendIs

LEMMA ValuesOfOne ==
  ASSUME NEW m \in Nat, NEW k \in 1..m, NEW c
  PROVE  Values(c, {k}) = << Element(c, k) >>
<1>1. {} \cup {k} = {k} /\ {} \in SUBSET (1..m)
  OBVIOUS
<1>2. Values(c, {k}) = Append(Values(c, {}), Element(c, k))
  <2>1. \A e \in {} : e < k
    OBVIOUS
  <2>. QED
    BY <1>1, <2>1, ValuesGrow
<1>3. Values(c, {}) = << >>
  <2>1. ASequence(Values(c, {})) /\ Len(Values(c, {})) = 0
    BY <1>1, ValuesType, FS_EmptySet
  <2>2. ASequence(<< >>) /\ Len(<< >>) = 0
    BY EmptyIsSequence, EmptySeq
  <2>3. \A n \in 1..0 : Values(c, {})[n] = << >>[n]
    OBVIOUS
  <2>. QED
    BY <2>1, <2>2, <2>3, SequencesEqual
<1>4. PICK e : e = Element(c, k)
  OBVIOUS
<1>5. Append(<< >>, e) = << e >>
  <2>1. << >> \in Seq({e}) /\ << e >> \in Seq({e}) /\ e \in {e}
    BY EmptySeq
  <2>. QED
    BY <2>1, AppendIsConcat, ConcatEmptySeq
<1>. QED
  BY <1>2, <1>3, <1>4, <1>5

Colons(text, D) == {e \in D : text[e] = ":"}

\* In D, the tokens after the last colon.
AfterColon(text, D) == {d \in D : \A f \in Colons(text, D) : f < d}

\* The tokens between the colon before e, and e.
Part(text, D, e) == {d \in D : d <= e /\ \A f \in Colons(text, D) : f < e => f < d}

\* The vectors of a set of ends and one more end.
LEMMA VectorsGrow ==
  ASSUME NEW m \in Nat, NEW D \in SUBSET (1..m), NEW k \in 1..m, \A e \in D : e < k, NEW text
  PROVE  /\ VectorEnds(text, D \cup {k}) = Colons(text, D) \cup {k}
         /\ \A e \in Colons(text, D) : OfVector(text, D \cup {k}, e) = Part(text, D, e)
         /\ OfVector(text, D \cup {k}, k) = AfterColon(text, D) \cup {k}
<1>. DEFINE R == D \cup {k}
            C == Colons(text, D)
<1>1. Max(R) = k
  <2>1. R \in SUBSET Int /\ k \in R /\ \A e \in R : e <= k
    OBVIOUS
  <2>. HIDE DEF R
  <2>. QED
    BY <2>1, MaxIs
<1>2. \A e \in D : e \in Int /\ e # k /\ ~(k <= e) /\ ~(k < e) /\ e <= k
  OBVIOUS
<1>3. VectorEnds(text, R) = C \cup {k}
  BY <1>1, <1>2 DEF VectorEnds, Colons
<1>4. C \subseteq D /\ k <= k /\ ~(k < k)
  BY DEF Colons
<1>5. ASSUME NEW e \in C PROVE OfVector(text, R, e) = Part(text, D, e)
  <2>1. e \in D /\ ~(k < e) /\ ~(k <= e)
    BY <1>2, <1>4
  <2>. QED
    BY <1>3, <2>1 DEF OfVector, Part
<1>6. OfVector(text, R, k) = AfterColon(text, D) \cup {k}
  <2>1. \A d \in R : d <= k
    BY <1>2, <1>4
  <2>2. \A f \in C \cup {k} : f < k <=> f \in C
    BY <1>4
  <2>3. OfVector(text, R, k) = {d \in R : \A f \in C : f < d}
    BY <1>3, <2>1, <2>2 DEF OfVector
  <2>4. \A f \in C : f < k
    BY <1>4
  <2>. QED
    BY <2>3, <2>4 DEF AfterColon
<1>. QED
  BY <1>3, <1>5, <1>6

LEMMA ColonsType ==
  ASSUME NEW m \in Nat, NEW D \in SUBSET (1..m), NEW text
  PROVE  /\ Colons(text, D) \in SUBSET (1..m)
         /\ VectorEnds(text, D) \in SUBSET (1..m)
         /\ \A e : OfVector(text, D, e) \in SUBSET (1..m)
         /\ \A e : Part(text, D, e) \in SUBSET (1..m)
         /\ AfterColon(text, D) \in SUBSET (1..m)
BY DEF Colons, VectorEnds, OfVector, Part, AfterColon

\* The elements of these vectors.
Vectors(c, D, V, f) ==
  /\ ASequence(f) /\ Len(f) = Cardinality(V)
  /\ \A n \in 1..Cardinality(V) : f[n] = Values(c, OfVector(c.text, D, Nth(V, n)))

LEMMA VectorsType ==
  ASSUME NEW m \in Nat, NEW D \in SUBSET (1..m), NEW c, c.kind = "vectors"
  PROVE  Vectors(c, D, VectorEnds(c.text, D), ElementsOf(c, D))
<1>1. PICK V, n, f : V = VectorEnds(c.text, D) /\ n = Cardinality(V) /\ f = ElementsOf(c, D)
  OBVIOUS
<1>2. n \in Nat
  <2>1. V \in SUBSET (1..m)
    BY <1>1, ColonsType
  <2>. QED
    BY <1>1, <2>1, Finite
<1>3. f = [k \in 1..n |-> Values(c, OfVector(c.text, D, Nth(V, k)))]
  BY <1>1 DEF ElementsOf
<1>4. \A k \in 1..n : f[k] = Values(c, OfVector(c.text, D, Nth(V, k)))
  BY <1>3
<1>5. f = [k \in 1..n |-> f[k]]
  BY <1>3
<1>. QED
  BY <1>1, <1>2, <1>4, <1>5, ArrayIsSequence DEF Vectors

\* The last of the ends is not a colon.
Unfinished(text, D) == D # {} /\ text[Max(D)] # ":"

\* What the vectors of D are, if the last is closed and if it is not.
LEMMA VectorsClosed ==
  ASSUME NEW m \in Nat, NEW D \in SUBSET (1..m), NEW text, ~Unfinished(text, D)
  PROVE  /\ VectorEnds(text, D) = Colons(text, D)
         /\ \A e \in Colons(text, D) : OfVector(text, D, e) = Part(text, D, e)
         /\ AfterColon(text, D) = {}
<1>1. CASE D = {}
  BY <1>1 DEF VectorEnds, Colons, OfVector, Part, AfterColon
<1>2. CASE D # {}
  <2>1. PICK x : x = Max(D)
    OBVIOUS
  <2>2. x \in D /\ \A y \in D : y <= x
    <3>1. D \in SUBSET (0..m)
      OBVIOUS
    <3>. QED
      BY <1>2, <2>1, <3>1, MaxExists
  <2>3. text[x] = ":"
    BY <1>2, <2>1 DEF Unfinished
  <2>4. VectorEnds(text, D) = Colons(text, D)
    BY <2>1, <2>3 DEF VectorEnds, Colons
  <2>5. x \in Colons(text, D)
    BY <2>2, <2>3 DEF Colons
  <2>6. \A y \in D : ~(x < y)
    BY <2>2
  <2>7. AfterColon(text, D) = {}
    BY <2>5, <2>6 DEF AfterColon
  <2>. QED
    BY <2>4, <2>7 DEF OfVector, Part
<1>. QED
  BY <1>1, <1>2

LEMMA VectorsUnfinished ==
  ASSUME NEW m \in Nat, NEW D \in SUBSET (1..m), NEW text, Unfinished(text, D)
  PROVE  \E x \in D : /\ \A e \in Colons(text, D) : e < x
                      /\ VectorEnds(text, D) = Colons(text, D) \cup {x}
                      /\ \A e \in Colons(text, D) : OfVector(text, D, e) = Part(text, D, e)
                      /\ OfVector(text, D, x) = AfterColon(text, D)
<1>1. PICK x : x = Max(D)
  OBVIOUS
<1>2. x \in D /\ \A y \in D : y <= x
  <2>1. D \in SUBSET (0..m) /\ D # {}
    BY DEF Unfinished
  <2>. QED
    BY <1>1, <2>1, MaxExists
<1>3. text[x] # ":"
  BY <1>1 DEF Unfinished
<1>4. \A e \in Colons(text, D) : e \in D /\ e < x /\ ~(x < e)
  <2>1. \A e \in Colons(text, D) : e \in D /\ e # x
    BY <1>3 DEF Colons
  <2>2. \A e \in D : e \in Int /\ x \in Int
    BY <1>2
  <2>3. \A e \in D : e # x => e < x /\ ~(x < e)
    BY <1>2, <2>2
  <2>. QED
    BY <2>1, <2>3
<1>5. VectorEnds(text, D) = Colons(text, D) \cup {x}
  BY <1>1, <1>2 DEF VectorEnds, Colons
<1>6. \A e \in Colons(text, D) : OfVector(text, D, e) = Part(text, D, e)
  BY <1>4, <1>5 DEF OfVector, Part
<1>7. OfVector(text, D, x) = AfterColon(text, D)
  <2>1. ~(x < x)
    BY <1>2
  <2>2. \A f \in Colons(text, D) \cup {x} : f < x <=> f \in Colons(text, D)
    BY <1>4, <2>1
  <2>. QED
    BY <1>2, <1>5, <2>2 DEF OfVector, AfterColon
<1>. QED
  BY <1>2, <1>4, <1>5, <1>6, <1>7

\* The token that ends at k is a vector of its own, or the last of the last vector.
LEMMA VectorsOneMore ==
  ASSUME NEW m \in Nat, NEW D \in SUBSET (1..m), NEW k \in 1..m, \A e \in D : e < k,
         NEW c, c.kind = "vectors"
  PROVE  LET q == ElementsOf(c, D)
         IN  /\ ~Unfinished(c.text, D) => ElementsOf(c, D \cup {k}) = Append(q, << Element(c, k) >>)
             /\ Unfinished(c.text, D) =>
                  ElementsOf(c, D \cup {k}) = [q EXCEPT ![Len(q)] = Append(@, Element(c, k))]
<1>1. PICK R, V, U, C, n, q, r, text, v :
        /\ R = D \cup {k} /\ text = c.text /\ V = VectorEnds(text, D) /\ U = VectorEnds(text, R)
        /\ C = Colons(text, D) /\ n = Cardinality(C) /\ q = ElementsOf(c, D) /\ r = ElementsOf(c, R)
        /\ v = Element(c, k)
  OBVIOUS
<1>2. R \in SUBSET (1..m) /\ C \in SUBSET (1..m) /\ C \in SUBSET D
  BY <1>1 DEF Colons
<1>3. n \in Nat
  BY <1>1, <1>2, Finite
<1>4. /\ U = C \cup {k}
      /\ \A e \in C : OfVector(text, R, e) = Part(text, D, e)
      /\ OfVector(text, R, k) = AfterColon(text, D) \cup {k}
  <2>1. /\ VectorEnds(text, D \cup {k}) = Colons(text, D) \cup {k}
        /\ \A e \in Colons(text, D) : OfVector(text, D \cup {k}, e) = Part(text, D, e)
        /\ OfVector(text, D \cup {k}, k) = AfterColon(text, D) \cup {k}
    BY VectorsGrow
  <2>. QED
    BY <1>1, <2>1
<1>5. /\ Cardinality(U) = n + 1
      /\ \A j \in 1..n : Nth(U, j) = Nth(C, j)
      /\ Nth(U, n + 1) = k
  <2>1. \A e \in C : e < k
    BY <1>2
  <2>2. /\ Cardinality(C \cup {k}) = Cardinality(C) + 1
        /\ \A j \in 1..Cardinality(C) : Nth(C \cup {k}, j) = Nth(C, j)
        /\ Nth(C \cup {k}, Cardinality(C) + 1) = k
    BY <1>2, <2>1, NthGrows
  <2>. QED
    BY <1>1, <1>4, <2>2
<1>6. /\ ASequence(r) /\ Len(r) = n + 1
      /\ \A j \in 1..(n + 1) : r[j] = Values(c, OfVector(text, R, Nth(U, j)))
  <2>1. Vectors(c, R, U, r)
    BY <1>1, <1>2, VectorsType
  <2>. QED
    BY <1>1, <1>5, <2>1 DEF Vectors
<1>7. \A j \in 1..n : r[j] = Values(c, Part(text, D, Nth(C, j)))
  <2>1. \A j \in 1..n : Nth(C, j) \in C
    BY <1>1, <1>2, RankOfNth
  <2>2. \A j \in 1..n : j \in 1..(n + 1)
    BY <1>3
  <2>. QED
    BY <1>4, <1>5, <1>6, <2>1, <2>2
<1>8. r[n + 1] = Values(c, AfterColon(text, D) \cup {k})
  <2>1. n + 1 \in 1..(n + 1)
    BY <1>3
  <2>. QED
    BY <1>4, <1>5, <1>6, <2>1
<1>9. /\ ASequence(q) /\ Len(q) = Cardinality(V)
      /\ \A j \in 1..Cardinality(V) : q[j] = Values(c, OfVector(text, D, Nth(V, j)))
  <2>1. Vectors(c, D, V, q)
    BY <1>1, VectorsType
  <2>. QED
    BY <1>1, <2>1 DEF Vectors
<1>10. ASSUME ~Unfinished(text, D) PROVE r = Append(q, << v >>)
  <2>1. V = C /\ AfterColon(text, D) = {} /\ \A e \in C : OfVector(text, D, e) = Part(text, D, e)
    BY <1>1, <1>10, VectorsClosed
  <2>2. \A j \in 1..n : Nth(C, j) \in C
    BY <1>1, <1>2, RankOfNth
  <2>3. Len(q) = n /\ \A j \in 1..n : q[j] = Values(c, Part(text, D, Nth(C, j)))
    BY <1>1, <1>9, <2>1, <2>2
  <2>4. r[n + 1] = << v >>
    <3>1. AfterColon(text, D) \cup {k} = {k}
      BY <2>1
    <3>. QED
      BY <1>1, <1>8, <3>1, ValuesOfOne
  <2>. QED
    BY <1>6, <1>7, <1>9, <2>3, <2>4, AppendIs
<1>11. ASSUME Unfinished(text, D) PROVE r = [q EXCEPT ![Len(q)] = Append(@, v)]
  <2>1. PICK x \in D : /\ \A e \in C : e < x
                       /\ V = C \cup {x}
                       /\ \A e \in C : OfVector(text, D, e) = Part(text, D, e)
                       /\ OfVector(text, D, x) = AfterColon(text, D)
    BY <1>1, <1>11, VectorsUnfinished
  <2>2. /\ Cardinality(V) = n + 1
        /\ \A j \in 1..n : Nth(V, j) = Nth(C, j)
        /\ Nth(V, n + 1) = x
    <3>1. x \in 1..m
      OBVIOUS
    <3>2. /\ Cardinality(C \cup {x}) = Cardinality(C) + 1
          /\ \A j \in 1..Cardinality(C) : Nth(C \cup {x}, j) = Nth(C, j)
          /\ Nth(C \cup {x}, Cardinality(C) + 1) = x
      BY <1>2, <2>1, <3>1, NthGrows
    <3>. QED
      BY <1>1, <2>1, <3>2
  <2>3. \A j \in 1..n : Nth(C, j) \in C
    BY <1>1, <1>2, RankOfNth
  <2>4. Len(q) = n + 1
    BY <1>9, <2>2
  <2>5. \A j \in 1..n : q[j] = Values(c, Part(text, D, Nth(C, j)))
    <3>1. \A j \in 1..n : j \in 1..(n + 1)
      BY <1>3
    <3>. QED
      BY <1>9, <2>1, <2>2, <2>3, <3>1
  <2>6. q[n + 1] = Values(c, AfterColon(text, D))
    <3>1. n + 1 \in 1..(n + 1)
      BY <1>3
    <3>. QED
      BY <1>9, <2>1, <2>2, <3>1
  <2>7. r[n + 1] = Append(q[n + 1], v)
    <3>1. AfterColon(text, D) \in SUBSET (1..m) /\ \A e \in AfterColon(text, D) : e < k
      BY DEF AfterColon
    <3>. QED
      BY <1>1, <1>8, <2>6, <3>1, ValuesGrow
  <2>8. PICK w : w = [q EXCEPT ![Len(q)] = Append(@, v)]
    OBVIOUS
  <2>9. ASequence(w) /\ Len(w) = n + 1
    BY <1>9, <2>4, <2>8, ExceptIsSequence
  <2>10. DOMAIN q = 1..(n + 1)
    BY <1>9, <2>4, LenProperties DEF ASequence
  <2>11. ASSUME NEW j \in 1..(n + 1) PROVE r[j] = w[j]
    <3>1. CASE j = n + 1
      BY <2>4, <2>7, <2>8, <2>10, <3>1
    <3>2. CASE j # n + 1
      <4>1. j \in 1..n
        BY <1>3, <3>2
      <4>2. w[j] = q[j]
        BY <2>4, <2>8, <2>10, <3>2
      <4>. QED
        BY <1>7, <2>5, <4>1, <4>2
    <3>. QED
      BY <3>1, <3>2
  <2>12. r = w
    BY <1>6, <2>9, <2>11, SequencesEqual
  <2>. QED
    BY <2>8, <2>12
<1>. QED
  BY <1>1, <1>10, <1>11

\* The array of the tokens before k is the beginning of the whole one.
LEMMA BeforeVectors ==
  ASSUME NEW text \in Seq(Characters), NEW k \in Ends(text),
         ~Unfinished(text, Before(text, k))
  PROVE  LET V == VectorEnds(text, Ends(text))
         IN  /\ VectorEnds(text, Before(text, k)) = {e \in V : e < k}
             /\ \E x \in V : k <= x
             /\ \A e \in V : e < k => OfVector(text, Before(text, k), e) = OfVector(text, Ends(text), e)
<1>1. PICK E, D, V, C, m : E = Ends(text) /\ D = Before(text, k) /\ V = VectorEnds(text, E)
                           /\ C = Colons(text, D) /\ m = Len(text) + 1
  OBVIOUS
<1>2. m \in Nat /\ E \in SUBSET (1..m) /\ D \in SUBSET (1..m) /\ D = {e \in E : e < k} /\ k \in E
  BY <1>1, EndsType DEF Before
<1>3. PICK x : x = Max(E)
  OBVIOUS
<1>4. x \in E /\ \A y \in E : y <= x
  <2>1. E \in SUBSET (0..m) /\ E # {}
    BY <1>2
  <2>. QED
    BY <1>2, <1>3, <2>1, MaxExists
<1>5. \A e \in E : e \in Int /\ (e < k => e # x)
  BY <1>2, <1>4
<1>6. VectorEnds(text, D) = C /\ \A e \in C : OfVector(text, D, e) = Part(text, D, e)
  <2>1. ~Unfinished(text, D)
    BY <1>1
  <2>. QED
    BY <1>1, <1>2, <2>1, VectorsClosed
<1>7. C = {e \in V : e < k}
  BY <1>1, <1>2, <1>3, <1>5 DEF VectorEnds, Colons
<1>8. x \in V /\ k <= x
  BY <1>1, <1>2, <1>3, <1>4 DEF VectorEnds
<1>9. ASSUME NEW e \in V, e < k PROVE OfVector(text, D, e) = OfVector(text, E, e)
  <2>1. e \in C /\ V \subseteq E /\ e \in E
    BY <1>1, <1>7, <1>9 DEF VectorEnds
  <2>2. \A f \in V : f < e => f < k
    BY <1>5, <1>9, <2>1, <1>2
  <2>3. \A f \in V : (f < e) <=> (f \in C /\ f < e)
    BY <1>7, <2>2
  <2>4. \A d \in E : d <= e => d < k
    BY <1>5, <1>9, <2>1, <1>2
  <2>5. \A d : d \in D /\ d <= e <=> d \in E /\ d <= e
    BY <1>2, <2>4
  <2>6. OfVector(text, E, e) = {d \in E : d <= e /\ \A f \in V : f < e => f < d}
    BY <1>1 DEF OfVector
  <2>7. Part(text, D, e) = {d \in D : d <= e /\ \A f \in C : f < e => f < d}
    BY <1>1 DEF Part
  <2>8. C \subseteq V
    BY <1>7
  <2>9. {d \in E : d <= e /\ \A f \in V : f < e => f < d} = {d \in D : d <= e /\ \A f \in C : f < e => f < d}
    BY <2>3, <2>5, <2>8
  <2>. QED
    BY <1>6, <2>1, <2>6, <2>7, <2>9
<1>. QED
  BY <1>1, <1>6, <1>7, <1>8, <1>9

LEMMA ElementsType ==
  ASSUME NEW m \in Nat, NEW D \in SUBSET (1..m), NEW c
  PROVE  ASequence(ElementsOf(c, D)) /\ Len(ElementsOf(c, D)) \in Nat
<1>1. CASE c.kind # "vectors"
  <2>1. ElementsOf(c, D) = Values(c, D)
    BY <1>1 DEF ElementsOf
  <2>. QED
    BY <2>1, ValuesType
<1>2. CASE c.kind = "vectors"
  <2>1. VectorEnds(c.text, D) \in SUBSET (1..m)
    BY ColonsType
  <2>2. Cardinality(VectorEnds(c.text, D)) \in Nat
    BY <2>1, Finite
  <2>. QED
    BY <1>2, <2>2, VectorsType DEF Vectors
<1>. QED
  BY <1>1, <1>2

LEMMA PrefixIs ==
  ASSUME NEW q, ASequence(q), NEW r, ASequence(r), Len(q) \in Nat, Len(r) \in Nat,
         Len(q) <= Len(r), \A n \in 1..Len(q) : q[n] = r[n]
  PROVE  q = SubSeq(r, 1, Len(q))
<1>1. PICK T, n, s0 : T = {r[k] : k \in DOMAIN r} /\ n = Len(q) /\ s0 = SubSeq(r, 1, n)
  OBVIOUS
<1>2. r \in Seq(T)
  BY <1>1 DEF ASequence
<1>3. \A k \in 1..n : r[k] \in T
  <2>1. \A k \in 1..n : k \in 1..Len(r)
    BY <1>1
  <2>. QED
    BY <1>2, <2>1, ElementOfSeq
<1>4. /\ s0 \in Seq(T) /\ Len(s0) = (IF 1 <= n THEN n - 1 + 1 ELSE 0)
      /\ \A k \in 1..(n - 1 + 1) : s0[k] = r[1 + k - 1]
  BY <1>1, <1>3, SubSeqProperties
<1>5. Len(s0) = n /\ \A k \in 1..n : s0[k] = r[k]
  <2>1. n - 1 + 1 = n /\ (IF 1 <= n THEN n - 1 + 1 ELSE 0) = n /\ \A k \in 1..n : 1 + k - 1 = k
    BY <1>1
  <2>. QED
    BY <1>4, <2>1
<1>6. ASequence(s0)
  BY <1>4, SeqIsSequence
<1>7. q = s0
  BY <1>1, <1>5, <1>6, SequencesEqual
<1>. QED
  BY <1>1, <1>7

LEMMA ElementsPrefix ==
  ASSUME NEW c, c.text \in Seq(Characters), NEW k \in Ends(c.text), ~Open(c, k)
  PROVE  LET q == ElementsOf(c, Before(c.text, k))
         IN  Len(Elements(c)) > Len(q) /\ q = SubSeq(Elements(c), 1, Len(q))
<1>1. PICK text, E, D, m, q, r : /\ text = c.text /\ E = Ends(text) /\ D = Before(text, k)
                                 /\ m = Len(text) + 1 /\ q = ElementsOf(c, D) /\ r = ElementsOf(c, E)
  OBVIOUS
<1>2. m \in Nat /\ E \in SUBSET (1..m) /\ D \in SUBSET (1..m) /\ D = {e \in E : e < k} /\ k \in E
      /\ text \in Seq(Characters)
  BY <1>1, EndsType DEF Before
<1>3. ASequence(q) /\ ASequence(r) /\ Len(q) \in Nat /\ Len(r) \in Nat
  BY <1>1, <1>2, ElementsType
<1>4. k \in Int /\ k - 1 \in Int /\ k - 1 < k
  BY <1>2
<1>5. ASSUME c.kind # "vectors" PROVE Len(q) < Len(r) /\ \A n \in 1..Len(q) : q[n] = r[n]
  <2>1. q = Values(c, D) /\ r = Values(c, E)
    BY <1>1, <1>5 DEF ElementsOf
  <2>2. /\ Len(q) = Cardinality(D) /\ \A n \in 1..Cardinality(D) : q[n] = Element(c, Nth(D, n))
        /\ Len(r) = Cardinality(E) /\ \A n \in 1..Cardinality(E) : r[n] = Element(c, Nth(E, n))
    BY <1>2, <2>1, ValuesType
  <2>3. Cardinality(D) = Rank(E, k - 1) /\ \A n \in 1..Rank(E, k - 1) : Nth(D, n) = Nth(E, n)
    BY <1>2, <1>4, NthBelow
  <2>4. Rank(E, k - 1) < Rank(E, k)
    BY <1>2, <1>4, RankGrows
  <2>5. Rank(E, k) \in Nat /\ Rank(E, k) <= Cardinality(E)
    BY <1>2, <1>4, Finite
  <2>6. Len(q) < Len(r)
    BY <1>3, <2>2, <2>3, <2>4, <2>5
  <2>7. \A n \in 1..Len(q) : n \in 1..Len(r)
    BY <1>3, <2>6
  <2>8. \A n \in 1..Len(q) : q[n] = r[n]
    BY <2>2, <2>3, <2>7
  <2>. QED
    BY <2>6, <2>8
<1>6. ASSUME c.kind = "vectors" PROVE Len(q) < Len(r) /\ \A n \in 1..Len(q) : q[n] = r[n]
  <2>1. ~Unfinished(text, D)
    BY <1>1, <1>6 DEF Open, Unfinished
  <2>2. PICK U, V : U = VectorEnds(text, D) /\ V = VectorEnds(text, E)
    OBVIOUS
  <2>3. /\ U = {e \in V : e < k}
        /\ \E x \in V : k <= x
        /\ \A e \in V : e < k => OfVector(text, D, e) = OfVector(text, E, e)
    <3>1. /\ VectorEnds(text, Before(text, k)) = {e \in VectorEnds(text, Ends(text)) : e < k}
          /\ \E x \in VectorEnds(text, Ends(text)) : k <= x
          /\ \A e \in VectorEnds(text, Ends(text)) :
               e < k => OfVector(text, Before(text, k), e) = OfVector(text, Ends(text), e)
      BY <1>1, <1>2, <2>1, BeforeVectors
    <3>. QED
      BY <1>1, <2>2, <3>1
  <2>4. V \in SUBSET (1..m) /\ U \in SUBSET (1..m)
    BY <1>2, <2>2, ColonsType
  <2>5. Vectors(c, D, U, q) /\ Vectors(c, E, V, r)
    BY <1>1, <1>2, <1>6, <2>2, VectorsType
  <2>6. Cardinality(U) = Rank(V, k - 1) /\ \A n \in 1..Rank(V, k - 1) : Nth(U, n) = Nth(V, n)
    BY <1>2, <1>4, <2>3, <2>4, NthBelow
  <2>7. PICK x \in V : k <= x
    BY <2>3
  <2>8. x \in Int /\ k - 1 < x
    BY <1>4, <2>4, <2>7
  <2>9. Rank(V, k - 1) < Rank(V, x)
    BY <1>2, <1>4, <2>4, <2>8, RankGrows
  <2>10. Rank(V, x) \in Nat /\ Rank(V, x) <= Cardinality(V)
    BY <1>2, <2>4, <2>8, Finite
  <2>11. Len(q) < Len(r)
    BY <1>3, <2>5, <2>6, <2>9, <2>10 DEF Vectors
  <2>12. \A n \in 1..Len(q) : n \in 1..Len(r)
    BY <1>3, <2>11
  <2>13. ASSUME NEW n \in 1..Len(q) PROVE q[n] = r[n]
    <3>1. n \in 1..Cardinality(U) /\ n \in 1..Cardinality(V)
      BY <2>5, <2>12 DEF Vectors
    <3>2. Nth(U, n) = Nth(V, n) /\ Nth(U, n) \in U
      BY <1>2, <2>4, <2>6, <3>1, RankOfNth
    <3>3. q[n] = Values(c, OfVector(text, D, Nth(U, n)))
      BY <1>1, <2>5, <3>1 DEF Vectors
    <3>4. r[n] = Values(c, OfVector(text, E, Nth(V, n)))
      BY <1>1, <2>5, <3>1 DEF Vectors
    <3>. QED
      BY <2>3, <3>2, <3>3, <3>4
  <2>. QED
    BY <2>11, <2>13
<1>7. Len(q) < Len(r) /\ \A n \in 1..Len(q) : q[n] = r[n]
  BY <1>5, <1>6
<1>8. Len(r) > Len(q) /\ q = SubSeq(r, 1, Len(q))
  BY <1>3, <1>7, PrefixIs
<1>. QED
  BY <1>1, <1>8 DEF Elements

\* The token that ends at k makes an element or goes into the last one.
LEMMA ElementsOneMore ==
  ASSUME NEW c, c.text \in Seq(Characters), NEW k \in Ends(c.text),
         NEW q, q = ElementsOf(c, Before(c.text, k)), NEW v, v = Element(c, k)
  PROVE  ElementsOf(c, Before(c.text, k + 1)) =
           IF Open(c, k) THEN [q EXCEPT ![Len(q)] = Append(@, v)]
           ELSE Append(q, IF c.kind = "vectors" THEN << v >> ELSE v)
<1>1. PICK text, D, m : text = c.text /\ D = Before(text, k) /\ m = Len(text) + 1
  OBVIOUS
<1>2. m \in Nat /\ D \in SUBSET (1..m) /\ k \in 1..m /\ \A e \in D : e < k
  BY <1>1, EndsType DEF Before
<1>3. k \in Int
  BY <1>2
<1>4. Before(c.text, k + 1) = D \cup {k}
  BY <1>1, <1>3, BeforeNext
<1>5. CASE c.kind # "vectors"
  <2>1. ~Open(c, k)
    BY <1>5 DEF Open
  <2>2. ElementsOf(c, D \cup {k}) = Values(c, D \cup {k}) /\ q = Values(c, D)
    BY <1>1, <1>5 DEF ElementsOf
  <2>3. Values(c, D \cup {k}) = Append(Values(c, D), Element(c, k))
    BY <1>2, ValuesGrow
  <2>. QED
    BY <1>4, <1>5, <2>1, <2>2, <2>3
<1>6. CASE c.kind = "vectors"
  <2>1. Open(c, k) <=> Unfinished(c.text, D)
    BY <1>1, <1>6 DEF Open, Unfinished
  <2>2. /\ ~Unfinished(c.text, D) => ElementsOf(c, D \cup {k}) = Append(ElementsOf(c, D), << Element(c, k) >>)
        /\ Unfinished(c.text, D) =>
             ElementsOf(c, D \cup {k}) =
               [ElementsOf(c, D) EXCEPT ![Len(ElementsOf(c, D))] = Append(@, Element(c, k))]
    BY <1>2, <1>6, VectorsOneMore
  <2>3. q = ElementsOf(c, D)
    BY <1>1
  <2>. QED
    BY <1>4, <1>6, <2>1, <2>2, <2>3
<1>. QED
  BY <1>5, <1>6

LEMMA ElementsOfNone ==
  ASSUME NEW c
  PROVE  ElementsOf(c, {}) = << >>
<1>1. ASequence(ElementsOf(c, {})) /\ Len(ElementsOf(c, {})) = 0
  <2>1. {} \in SUBSET (1..0) /\ 0 \in Nat
    OBVIOUS
  <2>2. CASE c.kind # "vectors"
    <3>1. ElementsOf(c, {}) = Values(c, {})
      BY <2>2 DEF ElementsOf
    <3>. QED
      BY <2>1, <3>1, ValuesType, FS_EmptySet
  <2>3. CASE c.kind = "vectors"
    <3>1. VectorEnds(c.text, {}) = {}
      BY DEF VectorEnds
    <3>2. Vectors(c, {}, {}, ElementsOf(c, {}))
      BY <2>1, <2>3, <3>1, VectorsType
    <3>. QED
      BY <3>2, FS_EmptySet DEF Vectors
  <2>. QED
    BY <2>2, <2>3
<1>2. ASequence(<< >>) /\ Len(<< >>) = 0
  BY EmptyIsSequence, EmptySeq
<1>3. \A n \in 1..0 : ElementsOf(c, {})[n] = << >>[n]
  OBVIOUS
<1>. QED
  BY <1>1, <1>2, <1>3, SequencesEqual

\* Whether the last vector is open is up to the last delimiter.
LEMMA OpenNext ==
  ASSUME NEW c, c.text \in Seq(Characters), NEW k \in 1..Len(c.text)
  PROVE  /\ k \in Ends(c.text) => Open(c, k + 1) = (c.kind = "vectors" /\ c.text[k] # ":")
         /\ k \notin Ends(c.text) => Open(c, k + 1) = Open(c, k)
<1>1. k \in Int
  OBVIOUS
<1>2. CASE k \notin Ends(c.text)
  <2>1. Before(c.text, k + 1) = Before(c.text, k)
    BY <1>1, <1>2, BeforeNext
  <2>. QED
    BY <1>2, <2>1 DEF Open
<1>3. CASE k \in Ends(c.text)
  <2>1. Before(c.text, k + 1) = Before(c.text, k) \cup {k}
    BY <1>1, <1>3, BeforeNext
  <2>2. Begin(c.text, k + 1) = k + 1
    BY <1>3, BeginNext
  <2>3. Max(Before(c.text, k + 1)) = k
    <3>1. PICK S : S = Before(c.text, k + 1)
      OBVIOUS
    <3>2. S \in SUBSET Int /\ k \in S
      BY <1>1, <2>1, <3>1, EndsType
    <3>3. \A y \in S : y <= k
      <4>1. \A y \in Before(c.text, k) : y \in Int /\ y < k
        BY EndsType DEF Before
      <4>2. \A y \in Before(c.text, k) : y <= k
        BY <1>1, <4>1
      <4>. QED
        BY <1>1, <2>1, <3>1, <4>2
    <3>. QED
      BY <3>1, <3>2, <3>3, MaxIs
  <2>. QED
    BY <1>3, <2>1, <2>3 DEF Open
<1>. QED
  BY <1>2, <1>3

\* Nothing is left when the end of the text has been dealt with.
LEMMA BeforeLast ==
  ASSUME NEW text \in Seq(Characters), NEW n, n = Len(text) + 1
  PROVE  /\ n \in Ends(text) => Before(text, n + 1) = Ends(text)
         /\ n \notin Ends(text) => Before(text, n) = Ends(text)
<1>1. n \in Nat /\ Ends(text) \in SUBSET (1..n)
  BY EndsType
<1>2. \A e \in Ends(text) : e \in Int /\ e <= n /\ e < n + 1 /\ (e # n => e < n)
  BY <1>1
<1>. QED
  BY <1>2 DEF Before

-----------------------------------------------------------------------------
(* The buffer.                                                             *)

LEMMA CStringIs ==
  ASSUME NEW b, NEW n \in 0..(BLEN - 1), b[n] = NUL, \A k \in 0..(n - 1) : b[k] # NUL
  PROVE  CString(b) = [k \in 1..n |-> b[k - 1]]
<1>. DEFINE End(m) == b[m] = NUL /\ \A k \in 0..(m - 1) : b[k] # NUL
<1>1. \A m \in 0..(BLEN - 1) : m \in Int /\ n \in Int
  BY CharacterFacts
<1>2. ASSUME NEW m \in 0..(BLEN - 1), End(m) PROVE m = n
  <2>1. m < n => m \in 0..(n - 1)
    BY CharacterFacts
  <2>2. n < m => n \in 0..(m - 1)
    BY CharacterFacts
  <2>. QED
    BY <1>1, <1>2, <2>1, <2>2
<1>3. End(n)
  OBVIOUS
<1>4. (CHOOSE m \in 0..(BLEN - 1) : End(m)) = n
  <2>. HIDE DEF End
  <2>. QED
    BY <1>2, <1>3
<1>. QED
  BY <1>4 DEF CString

LEMMA CutType ==
  ASSUME NEW tok \in Seq(Characters)
  PROVE  /\ Cut(tok) \in Seq(Characters) /\ Len(tok) \in Nat
         /\ Len(Cut(tok)) = IF Len(tok) < BLEN THEN Len(tok) ELSE BLEN - 1
         /\ Len(Cut(tok)) \in 0..(BLEN - 1) /\ Len(Cut(tok)) <= Len(tok)
         /\ \A k \in 1..Len(Cut(tok)) : Cut(tok)[k] = tok[k]
<1>1. PICK l : l = IF Len(tok) < BLEN THEN Len(tok) ELSE BLEN - 1
  OBVIOUS
<1>2. Len(tok) \in Nat
  BY LenProperties
<1>3. l \in 0..(BLEN - 1) /\ l <= Len(tok)
  BY <1>1, <1>2, CharacterFacts
<1>4. \A k \in 1..l : tok[k] \in Characters
  <2>1. \A k \in 1..l : k \in 1..Len(tok)
    BY <1>2, <1>3
  <2>. QED
    BY <2>1, ElementOfSeq
<1>5. /\ SubSeq(tok, 1, l) \in Seq(Characters)
      /\ Len(SubSeq(tok, 1, l)) = (IF 1 <= l THEN l - 1 + 1 ELSE 0)
      /\ \A k \in 1..(l - 1 + 1) : SubSeq(tok, 1, l)[k] = tok[1 + k - 1]
  <2>1. 1 \in Int /\ l \in Int
    BY <1>3
  <2>. QED
    BY <1>4, <2>1, SubSeqProperties
<1>6. l - 1 + 1 = l /\ (IF 1 <= l THEN l - 1 + 1 ELSE 0) = l /\ \A k \in 1..l : 1 + k - 1 = k
  BY <1>3
<1>7. Cut(tok) = SubSeq(tok, 1, l)
  BY <1>1 DEF Cut
<1>8. Len(Cut(tok)) = l /\ \A k \in 1..l : Cut(tok)[k] = tok[k]
  BY <1>5, <1>6, <1>7
<1>. QED
  BY <1>1, <1>2, <1>3, <1>5, <1>7, <1>8

LEMMA BufferIsToken ==
  ASSUME NEW tok \in Seq(Characters), NEW n, n = Len(Cut(tok)), NEW b, b[n] = NUL,
         \A k \in 1..n : b[k - 1] = tok[k]
  PROVE  CString(b) = Cut(tok)
<1>1. /\ Cut(tok) \in Seq(Characters) /\ Len(tok) \in Nat
      /\ n \in 0..(BLEN - 1) /\ n <= Len(tok) /\ \A k \in 1..n : Cut(tok)[k] = tok[k]
  BY CutType
<1>2. n \in Nat
  BY <1>1
<1>3. ASSUME NEW k \in 0..(n - 1) PROVE b[k] # NUL
  <2>1. k + 1 \in 1..n /\ (k + 1) - 1 = k /\ k + 1 \in 1..Len(tok)
    BY <1>1, <1>2
  <2>2. tok[k + 1] \in Characters
    BY <2>1, ElementOfSeq
  <2>3. b[k] = tok[k + 1]
    BY <2>1
  <2>. QED
    BY <2>2, <2>3, CharacterFacts
<1>4. CString(b) = [k \in 1..n |-> b[k - 1]]
  BY <1>1, <1>3, CStringIs
<1>5. Cut(tok) \in [1..n -> Characters]
  BY <1>1, LenProperties
<1>6. Cut(tok) = [k \in 1..n |-> Cut(tok)[k]]
  BY <1>5
<1>7. \A k \in 1..n : b[k - 1] = Cut(tok)[k]
  BY <1>1
<1>. QED
  BY <1>4, <1>6, <1>7

\* In the buffer are the first n characters of the token, as many as there is room for.
Buffered(b, n, tok) ==
  DOMAIN b = 0..(BLEN - 1) /\ n = Len(Cut(tok)) /\ \A k \in 1..n : b[k - 1] = tok[k]

\* One more character, if there is room for it.
LEMMA BufferGrows ==
  ASSUME NEW tok \in Seq(Characters), NEW c \in Characters, NEW n, NEW b, Buffered(b, n, tok)
  PROVE  Buffered([b EXCEPT ![n] = c], IF n < BLEN - 1 THEN n + 1 ELSE n, Append(tok, c))
<1>. DEFINE more == Append(tok, c)
            n2 == IF n < BLEN - 1 THEN n + 1 ELSE n
<1>0. DOMAIN b = 0..(BLEN - 1) /\ n = Len(Cut(tok)) /\ \A k \in 1..n : b[k - 1] = tok[k]
  BY DEF Buffered
<1>1. /\ Len(tok) \in Nat /\ n = (IF Len(tok) < BLEN THEN Len(tok) ELSE BLEN - 1)
      /\ n \in 0..(BLEN - 1) /\ n <= Len(tok)
  BY <1>0, CutType
<1>2. /\ more \in Seq(Characters) /\ Len(more) = Len(tok) + 1
      /\ \A k \in 1..Len(tok) : more[k] = tok[k]
      /\ more[Len(tok) + 1] = c
  BY AppendProperties
<1>3. Len(Cut(more)) = IF Len(more) < BLEN THEN Len(more) ELSE BLEN - 1
  BY <1>2, CutType
<1>4. n2 = Len(Cut(more))
  BY <1>1, <1>2, <1>3, CharacterFacts
<1>5. ASSUME NEW k \in 1..n2 PROVE [b EXCEPT ![n] = c][k - 1] = more[k]
  <2>1. CASE k <= n
    <3>1. k \in 1..n /\ k \in 1..Len(tok) /\ k - 1 \in 0..(BLEN - 1) /\ k - 1 # n
      BY <1>1, <2>1, CharacterFacts
    <3>2. [b EXCEPT ![n] = c][k - 1] = b[k - 1]
      BY <1>0, <3>1
    <3>. QED
      BY <1>0, <1>2, <3>1, <3>2
  <2>2. CASE ~(k <= n)
    <3>1. k = n + 1 /\ n < BLEN - 1
      BY <1>1, <2>2, CharacterFacts
    <3>2. n = Len(tok) /\ k - 1 = n /\ n \in DOMAIN b /\ k = Len(tok) + 1
      BY <1>0, <1>1, <3>1, CharacterFacts
    <3>3. [b EXCEPT ![n] = c][k - 1] = c
      BY <3>2
    <3>. QED
      BY <1>2, <3>2, <3>3
  <2>. QED
    BY <2>1, <2>2
<1>6. DOMAIN [b EXCEPT ![n] = c] = 0..(BLEN - 1)
  BY <1>0
<1>. QED
  BY <1>4, <1>5, <1>6 DEF Buffered

LEMMA TokenBegins ==
  ASSUME NEW text \in Seq(Characters), NEW k \in 1..(Len(text) + 1), Begin(text, k) = k
  PROVE  Len(Cut(Token(text, k))) = 0
<1>1. \A j \in Begin(text, k)..(k - 1) : text[j] = Space
  OBVIOUS
<1>2. Len(Token(text, k)) = 0
  BY <1>1, TokenEmpty
<1>. QED
  BY <1>2, TokenType, CutType, CharacterFacts

-----------------------------------------------------------------------------
(* The parsers' steps.                                                     *)

Parses == IInv /\ Parsing /\ pc # "compress" /\ Scanning /\ Scanned /\ Delivered

\* Where getToken is.
LEMMA ScanFacts ==
  ASSUME Parses, pc = "scan"
  PROVE  /\ call.text \in Seq(Characters) /\ Len(call.text) \in Nat
         /\ s \in 1..(Len(call.text) + 1)
         /\ Char # NUL => s \in 1..Len(call.text) /\ Char = call.text[s] /\ Char \in Characters
         /\ Char = NUL => s = Len(call.text) + 1
         /\ Space \notin Delims /\ Space # NUL
<1>1. call.text \in Seq(Characters) /\ s \in 1..(Len(call.text) + 1)
  BY DEF Parses, IInv, TypeOK, CallSound
<1>2. Len(call.text) \in Nat
  BY <1>1, LenProperties
<1>3. s <= Len(call.text) => s \in 1..Len(call.text) /\ call.text[s] \in Characters
  BY <1>1, <1>2, ElementOfSeq
<1>4. Space \notin Delims /\ Space # NUL
  BY DEF Space, Delims, NUL
<1>. QED
  BY <1>1, <1>2, <1>3, <1>4, CharacterFacts DEF Char

LEMMA SkipSpaceKeeps == Parses /\ SkipSpace => (pc # "compress" /\ Scanning /\ Scanned /\ Delivered)'
<1>. SUFFICES ASSUME Parses, SkipSpace PROVE (pc # "compress" /\ Scanning /\ Scanned /\ Delivered)'
  OBVIOUS
<1>1. PICK c, k, text : c = call /\ k = s /\ text = call.text
  OBVIOUS
<1>2. pc = "scan" /\ Char = Space /\ s' = k + 1
      /\ UNCHANGED <<call, pc, buf, p, delim, inner, a>>
  BY <1>1 DEF SkipSpace
<1>3. text \in Seq(Characters) /\ k \in 1..Len(text) /\ text[k] = Space /\ Space \notin Delims
  BY <1>1, <1>2, ScanFacts
<1>4. k \notin Ends(text) /\ k \in Int
  BY <1>3, EndsType
<1>5. /\ Before(text, k + 1) = Before(text, k)
      /\ Token(text, k + 1) = Token(text, k)
      /\ Open(c, k + 1) = Open(c, k)
  BY <1>1, <1>3, <1>4, BeforeNext, TokenNext, OpenNext
<1>6. /\ a = ElementsOf(c, Before(text, k)) /\ inner = Open(c, k)
      /\ p = Len(Cut(Token(text, k))) /\ \A j \in 1..p : buf[j - 1] = Token(text, k)[j]
  BY <1>1, <1>2 DEF Parses, Scanning
<1>7. c = call' /\ text = call'.text /\ k + 1 = s'
  BY <1>1, <1>2
<1>8. Scanning'
  BY <1>2, <1>5, <1>6, <1>7 DEF Scanning
<1>. QED
  BY <1>2, <1>8 DEF Scanned, Delivered

LEMMA KeepCharKeeps == Parses /\ KeepChar => (pc # "compress" /\ Scanning /\ Scanned /\ Delivered)'
<1>. SUFFICES ASSUME Parses, KeepChar PROVE (pc # "compress" /\ Scanning /\ Scanned /\ Delivered)'
  OBVIOUS
<1>1. PICK c, k, text, n, b : c = call /\ k = s /\ text = call.text /\ n = p /\ b = buf
  OBVIOUS
<1>2. /\ pc = "scan" /\ Char # Space /\ ~IsDelim(Char) /\ s' = k + 1
      /\ buf' = [b EXCEPT ![n] = Char] /\ p' = IF n < BLEN - 1 THEN n + 1 ELSE n
      /\ UNCHANGED <<call, pc, delim, inner, a>>
  BY <1>1 DEF KeepChar, plim
<1>3. /\ text \in Seq(Characters) /\ k \in 1..Len(text) /\ Char = text[k] /\ Char \in Characters
      /\ text[k] \notin Delims /\ text[k] # Space
  BY <1>1, <1>2, ScanFacts DEF IsDelim
<1>4. k \notin Ends(text) /\ k \in Int
  BY <1>3, EndsType
<1>5. /\ Before(text, k + 1) = Before(text, k)
      /\ Token(text, k + 1) = Append(Token(text, k), text[k])
      /\ Open(c, k + 1) = Open(c, k)
  BY <1>1, <1>3, <1>4, BeforeNext, TokenNext, OpenNext
<1>6. /\ a = ElementsOf(c, Before(text, k)) /\ inner = Open(c, k)
      /\ n = Len(Cut(Token(text, k))) /\ \A j \in 1..n : b[j - 1] = Token(text, k)[j]
  BY <1>1, <1>2 DEF Parses, Scanning
<1>7. DOMAIN b = 0..(BLEN - 1)
  BY <1>1 DEF Parses, IInv, TypeOK
<1>8. PICK n2 : n2 = IF n < BLEN - 1 THEN n + 1 ELSE n
  OBVIOUS
<1>9. Token(text, k) \in Seq(Characters)
  <2>1. k \in 1..(Len(text) + 1)
    BY <1>3, EndsType
  <2>. QED
    BY <1>3, <2>1, TokenType
<1>10. /\ n2 = Len(Cut(Token(text, k + 1)))
       /\ \A j \in 1..n2 : [b EXCEPT ![n] = text[k]][j - 1] = Token(text, k + 1)[j]
  <2>1. Buffered(b, n, Token(text, k))
    BY <1>6, <1>7 DEF Buffered
  <2>2. Buffered([b EXCEPT ![n] = text[k]], n2, Append(Token(text, k), text[k]))
    BY <1>3, <1>8, <1>9, <2>1, BufferGrows
  <2>. QED
    BY <1>5, <2>2 DEF Buffered
<1>11. c = call' /\ text = call'.text /\ k + 1 = s' /\ n2 = p' /\ buf' = [b EXCEPT ![n] = text[k]]
  BY <1>1, <1>2, <1>3, <1>8
<1>12. Scanning'
  BY <1>2, <1>5, <1>6, <1>10, <1>11 DEF Scanning
<1>. QED
  BY <1>2, <1>12 DEF Scanned, Delivered

LEMMA EndTokenKeeps == Parses /\ EndToken => (pc # "compress" /\ Scanning /\ Scanned /\ Delivered)'
<1>. SUFFICES ASSUME Parses, EndToken PROVE (pc # "compress" /\ Scanning /\ Scanned /\ Delivered)'
  OBVIOUS
<1>1. PICK c, k, text, n, b : c = call /\ k = s /\ text = call.text /\ n = p /\ b = buf
  OBVIOUS
<1>2. /\ pc = "scan" /\ IsDelim(Char) /\ pc' = "token"
      /\ buf' = [b EXCEPT ![n] = NUL] /\ s' = (IF Char = NUL THEN k ELSE k + 1)
      /\ delim' = IF Char = NUL /\ n = 0 THEN Nothing ELSE Char
      /\ UNCHANGED <<call, p, inner, a>>
  BY <1>1 DEF EndToken
<1>3. /\ text \in Seq(Characters) /\ Len(text) \in Nat /\ k \in 1..(Len(text) + 1)
      /\ Char # NUL => k \in 1..Len(text) /\ Char = text[k] /\ Char \in Characters
      /\ Char = NUL => k = Len(text) + 1
  BY <1>1, <1>2, ScanFacts
<1>4. /\ a = ElementsOf(c, Before(text, k)) /\ inner = Open(c, k)
      /\ n = Len(Cut(Token(text, k))) /\ \A j \in 1..n : b[j - 1] = Token(text, k)[j]
  BY <1>1, <1>2 DEF Parses, Scanning
<1>5. DOMAIN b = 0..(BLEN - 1)
  BY <1>1 DEF Parses, IInv, TypeOK
<1>6. /\ Token(text, k) \in Seq(Characters) /\ n \in 0..(BLEN - 1)
      /\ n = 0 <=> Len(Token(text, k)) = 0
  <2>1. Token(text, k) \in Seq(Characters)
    BY <1>3, TokenType
  <2>2. /\ n = (IF Len(Token(text, k)) < BLEN THEN Len(Token(text, k)) ELSE BLEN - 1)
        /\ n \in 0..(BLEN - 1) /\ Len(Token(text, k)) \in Nat
    BY <1>4, <2>1, CutType
  <2>. QED
    BY <2>1, <2>2, CharacterFacts
<1>7. CString(buf') = Cut(Token(text, k))
  <2>1. PICK b2 : b2 = [b EXCEPT ![n] = NUL]
    OBVIOUS
  <2>2. b2[n] = NUL
    BY <1>5, <1>6, <2>1
  <2>3. \A j \in 1..n : b2[j - 1] = Token(text, k)[j]
    <3>1. \A j \in 1..n : j - 1 \in 0..(BLEN - 1) /\ j - 1 # n
      BY <1>6, CharacterFacts
    <3>2. \A j \in 1..n : b2[j - 1] = b[j - 1]
      BY <1>5, <2>1, <3>1
    <3>. QED
      BY <1>4, <3>2
  <2>4. CString(b2) = Cut(Token(text, k))
    BY <1>4, <1>6, <2>2, <2>3, BufferIsToken
  <2>. QED
    BY <1>2, <2>1, <2>4
<1>8. c = call' /\ text = call'.text /\ a' = a /\ inner' = inner
  BY <1>1, <1>2
<1>9. CASE Char # NUL
  <2>1. /\ k \in 1..Len(text) /\ text[k] \in Delims /\ delim' = text[k] /\ s' = k + 1
        /\ text[k] # NUL /\ text[k] # Nothing
    BY <1>2, <1>3, <1>9, CharacterFacts DEF IsDelim
  <2>2. At' = k
    <3>1. (k + 1) - 1 = k
      BY <1>3
    <3>. QED
      BY <2>1, <3>1 DEF At
  <2>3. k \in Ends(text) /\ k <= Len(text)
    BY <1>3, <2>1, EndsType
  <2>4. Scanned'
    BY <1>4, <1>7, <1>8, <2>1, <2>2, <2>3 DEF Scanned
  <2>. QED
    BY <1>2, <2>1, <2>4 DEF Scanning, Delivered
<1>10. CASE Char = NUL /\ n # 0
  <2>1. k = Len(text) + 1 /\ delim' = NUL /\ s' = k /\ k \in Ends(text) /\ ~(k <= Len(text))
    BY <1>2, <1>3, <1>6, <1>10, LastEnd
  <2>2. At' = k
    BY <2>1 DEF At
  <2>3. Scanned'
    BY <1>4, <1>7, <1>8, <2>1, <2>2 DEF Scanned
  <2>. QED
    BY <1>2, <2>1, <2>3, CharacterFacts DEF Scanning, Delivered
<1>11. CASE Char = NUL /\ n = 0
  <2>1. k = Len(text) + 1 /\ delim' = Nothing /\ k \notin Ends(text)
    BY <1>2, <1>3, <1>6, <1>11, LastEnd
  <2>2. Before(text, k) = Ends(text)
    BY <1>3, <2>1, BeforeLast
  <2>3. a = Elements(c)
    BY <1>1, <1>4, <2>2 DEF Elements
  <2>4. Delivered'
    BY <1>2, <1>8, <2>3 DEF Delivered
  <2>. QED
    BY <1>2, <2>1, <2>4 DEF Scanning, Scanned
<1>. QED
  BY <1>9, <1>10, <1>11

LEMMA StoreKeeps == Parses /\ Store => (pc # "compress" /\ Scanning /\ Scanned /\ Delivered)'
<1>. SUFFICES ASSUME Parses, Store PROVE (pc # "compress" /\ Scanning /\ Scanned /\ Delivered)'
  OBVIOUS
<1>1. PICK c, k, text, q, v, d : /\ c = call /\ k = At /\ text = call.text /\ q = a
                                 /\ v = Value(call.kind, CString(buf)) /\ d = delim
  OBVIOUS
<1>2. /\ pc = "token" /\ d # Nothing /\ UNCHANGED <<call, s, buf, delim>>
      /\ a' = IF inner THEN [q EXCEPT ![Len(q)] = Append(@, v)]
              ELSE Append(q, IF c.kind = "vectors" THEN << v >> ELSE v)
      /\ inner' = (c.kind = "vectors" /\ d # ":")
      /\ IF d = NUL THEN pc' = "returned" /\ ret' = Len(a') ELSE pc' = "scan" /\ p' = 0
  BY <1>1 DEF Store
<1>3. text \in Seq(Characters) /\ Len(text) \in Nat /\ s \in 1..(Len(text) + 1)
  <2>1. text \in Seq(Characters) /\ s \in 1..(Len(text) + 1)
    BY <1>1 DEF Parses, IInv, TypeOK, CallSound
  <2>. QED
    BY <2>1, LenProperties
<1>4. /\ k \in Ends(text) /\ d = (IF k <= Len(text) THEN text[k] ELSE NUL)
      /\ q = ElementsOf(c, Before(text, k)) /\ inner = Open(c, k)
      /\ CString(buf) = Cut(Token(text, k))
  BY <1>1, <1>2 DEF Parses, Scanned
<1>5. k \in 1..(Len(text) + 1)
  BY <1>3, <1>4, EndsType
<1>6. v = Element(c, k)
  BY <1>1, <1>4 DEF Element
<1>7. a' = ElementsOf(c, Before(text, k + 1))
  <2>1. ElementsOf(c, Before(c.text, k + 1)) =
          IF Open(c, k) THEN [q EXCEPT ![Len(q)] = Append(@, v)]
          ELSE Append(q, IF c.kind = "vectors" THEN << v >> ELSE v)
    <3>1. c.text \in Seq(Characters) /\ k \in Ends(c.text) /\ q = ElementsOf(c, Before(c.text, k))
      BY <1>1, <1>3, <1>4
    <3>. QED
      BY <1>6, <3>1, ElementsOneMore
  <2>. QED
    BY <1>1, <1>2, <1>4, <2>1
<1>8. c = call' /\ text = call'.text
  BY <1>1, <1>2
<1>9. CASE d = NUL
  <2>1. k = Len(text) + 1
    <3>1. k <= Len(text) => k \in 1..Len(text)
      BY <1>3, <1>5
    <3>2. \A j \in 1..Len(text) : text[j] # NUL
      BY <1>3, ElementOfSeq, CharacterFacts
    <3>3. ~(k <= Len(text))
      BY <1>4, <1>9, <3>1, <3>2
    <3>. QED
      BY <1>3, <1>5, <3>3
  <2>2. Before(text, k + 1) = Ends(text)
    BY <1>3, <1>4, <2>1, BeforeLast
  <2>3. a' = Elements(c)
    BY <1>1, <1>7, <2>2 DEF Elements
  <2>4. pc' = "returned" /\ ret' = Len(a')
    BY <1>2, <1>9
  <2>5. Delivered'
    BY <1>8, <2>3, <2>4 DEF Delivered
  <2>. QED
    BY <2>4, <2>5 DEF Scanning, Scanned
<1>10. CASE d # NUL
  <2>1. k \in 1..Len(text) /\ d = text[k] /\ pc' = "scan" /\ p' = 0
    BY <1>2, <1>3, <1>4, <1>5, <1>10
  <2>2. s' = k + 1
    <3>1. k = s - 1
      BY <1>1, <1>10 DEF At
    <3>. QED
      BY <1>2, <1>3, <3>1
  <2>3. inner' = Open(c, k + 1)
    <3>1. c.text \in Seq(Characters) /\ k \in 1..Len(c.text) /\ k \in Ends(c.text)
      BY <1>1, <1>3, <1>4, <2>1
    <3>2. Open(c, k + 1) = (c.kind = "vectors" /\ c.text[k] # ":")
      BY <3>1, OpenNext
    <3>. QED
      BY <1>1, <1>2, <2>1, <3>2
  <2>4. Len(Cut(Token(text, k + 1))) = 0
    <3>1. Begin(text, k + 1) = k + 1
      BY <1>3, <1>4, <2>1, BeginNext
    <3>2. k + 1 \in 1..(Len(text) + 1)
      BY <1>3, <2>1
    <3>. QED
      BY <1>3, <3>1, <3>2, TokenBegins
  <2>5. Scanning'
    <3>1. \A j \in 1..0 : FALSE
      OBVIOUS
    <3>2. \A j \in 1..p' : buf'[j - 1] = Token(text, k + 1)[j]
      BY <2>1, <3>1
    <3>. QED
      BY <1>7, <1>8, <2>1, <2>2, <2>3, <2>4, <3>2 DEF Scanning
  <2>. QED
    BY <2>1, <2>5 DEF Scanned, Delivered
<1>. QED
  BY <1>9, <1>10

LEMMA ParserEndsKeeps ==
  Parses /\ (NoMoreTokens \/ TooManyValues) => (pc # "compress" /\ Scanning /\ Scanned /\ Delivered)'
<1>. SUFFICES ASSUME Parses, NoMoreTokens \/ TooManyValues
              PROVE  (pc # "compress" /\ Scanning /\ Scanned /\ Delivered)'
  OBVIOUS
<1>1. PICK c : c = call
  OBVIOUS
<1>2. CASE NoMoreTokens
  <2>1. /\ pc = "token" /\ delim = Nothing /\ pc' = "returned" /\ ret' = Len(a)
        /\ a' = a /\ c = call'
    BY <1>1, <1>2 DEF NoMoreTokens
  <2>2. a = Elements(c)
    BY <1>1, <2>1 DEF Parses, Delivered
  <2>3. Delivered'
    BY <2>1, <2>2 DEF Delivered
  <2>. QED
    BY <2>1, <2>3 DEF Scanning, Scanned
<1>3. CASE TooManyValues
  <2>1. /\ pc = "token" /\ delim # Nothing /\ ~inner /\ Len(a) >= call.sz /\ pc' = "thrown"
        /\ a' = a /\ c = call'
    BY <1>1, <1>3 DEF TooManyValues
  <2>2. PICK k : k = At
    OBVIOUS
  <2>3. k \in Ends(c.text) /\ a = ElementsOf(c, Before(c.text, k)) /\ inner = Open(c, k)
    BY <1>1, <2>1, <2>2 DEF Parses, Scanned
  <2>4. c.text \in Seq(Characters)
    BY <1>1 DEF Parses, IInv, CallSound
  <2>5. Len(a) = c.sz
    <3>1. Len(a) \in Nat
      BY LenOfArray DEF Parses
    <3>2. Len(a) <= call.sz /\ call.sz \in Nat
      BY CharacterFacts DEF Parses, IInv, TypeOK, CallSound
    <3>. QED
      BY <1>1, <2>1, <3>1, <3>2
  <2>6. Len(Elements(c)) > Len(a) /\ a = SubSeq(Elements(c), 1, Len(a))
    BY <2>1, <2>3, <2>4, ElementsPrefix
  <2>7. Delivered'
    BY <2>1, <2>5, <2>6 DEF Delivered
  <2>. QED
    BY <2>1, <2>7 DEF Scanning, Scanned
<1>. QED
  BY <1>2, <1>3

LEMMA ParsesInit ==
  ASSUME Init, Parsing
  PROVE  pc # "compress" /\ Scanning /\ Scanned /\ Delivered
<1>1. IInv
  BY InitSound
<1>2. call.text \in Seq(Characters)
  BY <1>1 DEF IInv, CallSound
<1>3. /\ pc = "scan" /\ s = 1 /\ a = << >> /\ inner = FALSE /\ p = 0
  BY DEF Init, Parsing
<1>4. Before(call.text, 1) = {} /\ Begin(call.text, 1) = 1
  BY <1>2, BeforeFirst
<1>5. ElementsOf(call, Before(call.text, 1)) = << >> /\ ~Open(call, 1)
  BY <1>4, ElementsOfNone DEF Open
<1>6. Len(Cut(Token(call.text, 1))) = 0
  <2>1. 1 \in 1..(Len(call.text) + 1)
    BY <1>2, LenProperties
  <2>. QED
    BY <1>2, <1>4, <2>1, TokenBegins
<1>7. Open(call, 1) = FALSE
  BY <1>5 DEF Open
<1>8. \A k \in 1..0 : FALSE
  OBVIOUS
<1>9. Scanning
  BY <1>3, <1>5, <1>6, <1>7, <1>8 DEF Scanning
<1>. QED
  BY <1>3, <1>9 DEF Scanned, Delivered

-----------------------------------------------------------------------------
LEMMA LineInit == Init => LineInv
BY InitSound, CompressingInit, ParsesInit DEF LineInv

LEMMA LineNext == LineInv /\ [Next]_vars => LineInv'
<1>. SUFFICES ASSUME LineInv, [Next]_vars PROVE LineInv'
  OBVIOUS
<1>1. IInv'
  BY NextSound DEF LineInv
<1>2. CASE UNCHANGED vars
  <2>1. /\ call' = call /\ pc' = pc /\ s' = s /\ buf' = buf /\ p' = p /\ delim' = delim
        /\ inner' = inner /\ a' = a /\ argv' = argv /\ argc' = argc /\ i' = i
        /\ newArgc' = newArgc /\ ret' = ret
    BY <1>2 DEF vars
  <2>2. Parsing' = Parsing /\ Scanning' = Scanning /\ Scanned' = Scanned /\ Delivered' = Delivered
    BY <2>1 DEF Parsing, Scanning, Scanned, Delivered, At
  <2>3. Compressing' = Compressing
    BY <2>1 DEF Compressing, Kept
  <2>. QED
    BY <1>1, <2>1, <2>2, <2>3 DEF LineInv
<1>3. CASE Next
  <2>1. call' = call
    BY <1>3 DEF Next, SkipSpace, KeepChar, EndToken, NoMoreTokens, TooManyValues, Store, Compress,
       CompressEnds
  <2>2. Parsing' = Parsing
    BY <2>1 DEF Parsing
  <2>3. ASSUME Parsing PROVE (pc # "compress" /\ Scanning /\ Scanned /\ Delivered)'
    <3>1. Parses
      BY <2>3 DEF LineInv, Parses
    <3>2. ~Compress /\ ~CompressEnds
      BY <3>1 DEF Parses, Compress, CompressEnds
    <3>. QED
      BY <1>3, <3>1, <3>2, SkipSpaceKeeps, KeepCharKeeps, EndTokenKeeps, StoreKeeps, ParserEndsKeeps
      DEF Next
  <2>4. ASSUME call.kind = "compress" PROVE Compressing'
    <3>1. IInv /\ Compressing
      BY <2>4 DEF LineInv
    <3>2. Compress \/ CompressEnds
      BY <1>3, <3>1 DEF Compressing, Next, SkipSpace, KeepChar, EndToken, NoMoreTokens, TooManyValues,
         Store
    <3>. QED
      BY <3>1, <3>2, CompressKeeps, CompressEndsKeeps
  <2>. QED
    BY <1>1, <2>1, <2>2, <2>3, <2>4 DEF LineInv
<1>. QED
  BY <1>2, <1>3

\* What is in the buffer and in the array, and which arguments have been dealt with,
\* is at every step what the part of the call that has been read stands for.
THEOREM LineInvariance == Spec => []LineInv
BY LineInit, LineNext, PTL DEF Spec

\* For every text, buffer length and size, each parser returns the elements the text
\* stands for, and throws only if there are more than the caller has room for, with the
\* first of them in place.
THEOREM ParsersCorrect == Spec => []ArraysAreElements
<1>1. LineInv => ArraysAreElements
  BY DEF LineInv, ArraysAreElements, Delivered
<1>. QED
  BY <1>1, LineInvariance, PTL

\* For every list of arguments, compressArgs keeps those that are not null, in their
\* order, and leaves what is behind them as it was.
THEOREM CompressCorrect == Spec => []ArgsCompressed
<1>1. LineInv => ArgsCompressed
  BY CompressedIs DEF LineInv, ArgsCompressed
<1>. QED
  BY <1>1, LineInvariance, PTL

=============================================================================
