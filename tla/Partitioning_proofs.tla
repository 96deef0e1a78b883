------------------------ MODULE Partitioning_proofs ------------------------
(***************************************************************************)
(* localeRange and the chunk loop of the generated program split the items *)
(* among the locales, for every number of locales, items and every grain.  *)
(***************************************************************************)
EXTENDS Partitioning, WellFoundedInduction, TLAPS

(* Arithmetic: what integer division gives, and that products are          *)
(* monotone.                                                               *)
LEMMA DivMod ==
  ASSUME NEW n \in Nat, NEW k \in Nat \ {0}
  PROVE  /\ n \div k \in Nat
         /\ n % k \in 0 .. k - 1
         /\ n = k * (n \div k) + (n % k)
  OBVIOUS

LEMMA MulMono ==
  ASSUME NEW a \in Nat, NEW b \in Nat, NEW c \in Nat, a <= b
  PROVE  a * c <= b * c
  OBVIOUS

(* A set of numbers that is not empty has a least one: what a recursive    *)
(* definition computes is shown by the least argument where it would not.  *)
LEMMA LeastNatural ==
  ASSUME NEW S \in SUBSET Nat, S # {}
  PROVE  \E m \in S : \A k \in S : m <= k
<1>1. PICK m \in S : \A k \in S : <<k, m>> \notin OpToRel(<, Nat)
  BY WFMin, NatLessThanWellFounded, Zenon
<1>2. \A k \in S : ~(k < m)
  BY <1>1, Zenon DEF OpToRel
<1> QED
  BY <1>2

(* Two functions on 0 .. n - 1 that begin alike, and go on alike wherever  *)
(* they agreed one step before, are the same.                              *)
LEMMA StepwiseEqual ==
  ASSUME NEW n \in Nat, NEW f, NEW g,
         \A k \in Indices(n) : k = 0 => f[k] = g[k],
         \A k \in Indices(n) : k # 0 /\ f[k - 1] = g[k - 1] => f[k] = g[k]
  PROVE  \A k \in Indices(n) : f[k] = g[k]
<1> DEFINE Differ == {k \in Indices(n) : f[k] # g[k]}
<1>1. SUFFICES ASSUME Differ # {} PROVE FALSE
  OBVIOUS
<1>2. Differ \in SUBSET Nat
  BY DEF Indices
<1> HIDE DEF Differ
<1>3. PICK m \in Differ : \A k \in Differ : m <= k
  BY <1>1, <1>2, LeastNatural
<1>4. m \in Indices(n) /\ f[m] # g[m]
  BY DEF Differ
<1>5. m # 0 /\ m - 1 \in Indices(n)
  BY <1>4 DEF Indices
<1>6. f[m - 1] = g[m - 1]
  BY <1>3, <1>5 DEF Differ, Indices
<1> QED
  BY <1>4, <1>5, <1>6

(* A quotient is below every bound that the divisor multiplies above the   *)
(* dividend.                                                               *)
LEMMA QuotientBound ==
  ASSUME NEW d \in Nat, NEW b \in Nat \ {0}, NEW c \in Nat, d < c * b
  PROVE  d \div b < c
<1> DEFINE q == d \div b
<1>1. q \in Nat /\ q * b <= d
  BY DivMod
<1>2. SUFFICES ASSUME c <= q PROVE FALSE
  BY <1>1
<1>3. c * b <= q * b
  BY <1>1, <1>2, MulMono
<1> QED
  BY <1>1, <1>3

-----------------------------------------------------------------------------
(* localeRange                                                             *)

(* The bounds of a locale's range are natural numbers and in order.        *)
LEMMA LocaleBounds ==
  ASSUME NEW L \in Nat \ {0}, NEW n \in Nat, NEW l \in 0 .. L
  PROVE  /\ LocaleLo(l, L, n) \in Nat
         /\ LocaleHi(l, L, n) \in Nat
         /\ LocaleLo(l, L, n) <= LocaleHi(l, L, n)
<1> DEFINE b == n \div L
           r == n % L
<1>1. b \in Nat /\ r \in Nat /\ l * b \in Nat
  BY DivMod
<1>2. LocaleLo(l, L, n) = l * b + Lesser(l, r)
  BY DEF LocaleLo
<1>3. LocaleHi(l, L, n) = LocaleLo(l, L, n) + b + (IF l < r THEN 1 ELSE 0)
  BY DEF LocaleHi
<1> HIDE DEF b, r
<1> QED
  BY <1>1, <1>2, <1>3 DEF Lesser

(* The ranges are laid end to end: one ends where the next begins, the     *)
(* first begins at 0 and the last ends at n.                               *)
LEMMA LocaleRangesAbut ==
  ASSUME NEW L \in Nat \ {0}, NEW n \in Nat
  PROVE  /\ \A l \in Indices(L) : LocaleHi(l, L, n) = LocaleLo(l + 1, L, n)
         /\ LocaleLo(0, L, n) = 0
         /\ LocaleLo(L, L, n) = n
<1> DEFINE b == n \div L
           r == n % L
<1>1. b \in Nat /\ r \in 0 .. L - 1 /\ n = L * b + r
  BY DivMod
<1>2. \A l : LocaleLo(l, L, n) = l * b + Lesser(l, r)
  BY DEF LocaleLo
<1>3. \A l : LocaleHi(l, L, n) =
               LocaleLo(l, L, n) + b + (IF l < r THEN 1 ELSE 0)
  BY DEF LocaleHi
<1> HIDE DEF b, r
<1>4. ASSUME NEW l \in Indices(L)
      PROVE  LocaleHi(l, L, n) = LocaleLo(l + 1, L, n)
  <2>1. l \in Nat /\ (l + 1) * b = l * b + b /\ l * b \in Nat
    BY <1>1 DEF Indices
  <2>2. Lesser(l, r) + (IF l < r THEN 1 ELSE 0) = Lesser(l + 1, r)
    BY <1>1, <2>1 DEF Lesser
  <2>3. Lesser(l, r) \in Nat /\ Lesser(l + 1, r) \in Nat
    BY <1>1, <2>1 DEF Lesser
  <2>4. LocaleHi(l, L, n) = l * b + Lesser(l, r) + b + (IF l < r THEN 1 ELSE 0)
    BY <1>2, <1>3
  <2>5. LocaleLo(l + 1, L, n) = (l + 1) * b + Lesser(l + 1, r)
    BY <1>2
  <2> QED
    BY <1>1, <2>1, <2>2, <2>3, <2>4, <2>5
<1>5. LocaleLo(0, L, n) = 0
  BY <1>1, <1>2 DEF Lesser
<1>6. LocaleLo(L, L, n) = n
  BY <1>1, <1>2 DEF Lesser
<1> QED
  BY <1>4, <1>5, <1>6

LEMMA LocaleLoMono ==
  ASSUME NEW L \in Nat \ {0}, NEW n \in Nat,
         NEW k \in 0 .. L, NEW l \in 0 .. L, k <= l
  PROVE  LocaleLo(k, L, n) <= LocaleLo(l, L, n)
<1> DEFINE b == n \div L
           r == n % L
<1>1. b \in Nat /\ r \in Nat
  BY DivMod
<1>2. k * b <= l * b /\ k * b \in Nat /\ l * b \in Nat
  BY <1>1, MulMono
<1>3. Lesser(k, r) <= Lesser(l, r) /\ Lesser(k, r) \in Nat /\ Lesser(l, r) \in Nat
  BY <1>1 DEF Lesser
<1>4. /\ LocaleLo(k, L, n) = k * b + Lesser(k, r)
      /\ LocaleLo(l, L, n) = l * b + Lesser(l, r)
  BY DEF LocaleLo
<1> HIDE DEF b, r
<1> QED
  BY <1>2, <1>3, <1>4

(* The locale that localeRange gives item i to, in closed form.            *)
LEMMA LocaleRangesCover ==
  ASSUME NEW L \in Nat \ {0}, NEW n \in Nat, NEW i \in Indices(n)
  PROVE  \E l \in Indices(L) :
           LocaleLo(l, L, n) <= i /\ i < LocaleHi(l, L, n)
<1> DEFINE b == n \div L
           r == n % L
<1>0. i \in Nat /\ i < n
  BY DEF Indices
<1>1. b \in Nat /\ r \in 0 .. L - 1 /\ n = L * b + r /\ i \in Nat /\ i < n
  <2>1. b \in Nat /\ r \in 0 .. L - 1 /\ n = L * b + r
    BY DivMod
  <2> QED
    BY <1>0, <2>1
<1>2. \A l : LocaleLo(l, L, n) = l * b + Lesser(l, r)
  BY DEF LocaleLo
<1>3. \A l : LocaleHi(l, L, n) =
               LocaleLo(l, L, n) + b + (IF l < r THEN 1 ELSE 0)
  BY DEF LocaleHi
<1> HIDE DEF b, r
<1>4. CASE i < r * (b + 1)
  <2> DEFINE l == i \div (b + 1)
             m == i % (b + 1)
  <2>1. b + 1 \in Nat \ {0}
    BY <1>1
  <2>2. l \in Nat /\ m \in 0 .. b /\ i = (b + 1) * l + m
    <3> DEFINE k == b + 1
    <3>1. k \in Nat \ {0}
      BY <2>1
    <3> HIDE DEF k
    <3>2. i \div k \in Nat /\ i % k \in 0 .. k - 1 /\ i = k * (i \div k) + (i % k)
      BY <1>1, <3>1, DivMod
    <3>3. i \div k \in Nat /\ i % k \in 0 .. b /\ i = k * (i \div k) + (i % k)
      BY <1>1, <3>2 DEF k
    <3> QED
      BY <3>3 DEF k
  <2>3. l < r
    BY <1>1, <1>4, <2>1, QuotientBound
  <2> HIDE DEF l, m
  <2>4. LocaleLo(l, L, n) = l * b + l
    BY <1>1, <1>2, <2>2, <2>3 DEF Lesser
  <2>5. LocaleHi(l, L, n) = l * b + l + b + 1
    BY <1>1, <1>3, <2>2, <2>3, <2>4
  <2>6. (b + 1) * l = l * b + l
    BY <1>1, <2>2
  <2>7. LocaleLo(l, L, n) <= i /\ i < LocaleHi(l, L, n)
    BY <1>1, <2>2, <2>4, <2>5, <2>6
  <2> QED
    BY <1>1, <2>2, <2>3, <2>7 DEF Indices
<1>5. CASE ~(i < r * (b + 1))
  <2> DEFINE d == i - r * (b + 1)
             q == d \div b
             m == d % b
             l == r + q
  <2>1. d \in Nat /\ r * (b + 1) = r * b + r /\ r * b \in Nat
    BY <1>1, <1>5
  <2>2. b # 0
    BY <1>1, <2>1
  <2>3. d < (L - r) * b /\ L - r \in Nat
    BY <1>1, <2>1
  <2>4. q < L - r
    BY <1>1, <2>1, <2>2, <2>3, QuotientBound
  <2>5. q \in Nat /\ m \in 0 .. b - 1 /\ d = b * q + m
    BY <1>1, <2>1, <2>2, DivMod
  <2>6. i = r * b + r + d
    BY <1>1, <2>1
  <2> HIDE DEF d, q, m
  <2>7. l \in Nat /\ l < L /\ l >= r /\ l * b = r * b + b * q
    BY <1>1, <2>4, <2>5
  <2> HIDE DEF l
  <2>8. LocaleLo(l, L, n) = l * b + r
    BY <1>1, <1>2, <2>7 DEF Lesser
  <2>9. LocaleHi(l, L, n) = l * b + r + b
    BY <1>1, <1>3, <2>7, <2>8
  <2>10. LocaleLo(l, L, n) <= i /\ i < LocaleHi(l, L, n)
    BY <1>1, <2>1, <2>5, <2>6, <2>7, <2>8, <2>9
  <2> QED
    BY <2>7, <2>10 DEF Indices
<1> QED
  BY <1>4, <1>5
(* Per-item partitioning: every item is in the range of exactly one        *)
(* locale.  This is what lets the locales of a coforall write resultData,  *)
(* resultSizes and resultOk without a lock.                                *)
THEOREM LocaleRangesPartition ==
  ASSUME NEW L \in Nat \ {0}, NEW n \in Nat
  PROVE  LET Share(l) == LocaleRange(l, L, n)
         IN  IsPartition(Share, L, n)
<1>1. ASSUME NEW l \in Indices(L)
      PROVE  /\ LocaleLo(l, L, n) \in 0 .. n
             /\ LocaleHi(l, L, n) \in 0 .. n
             /\ LocaleRange(l, L, n) =
                  LocaleLo(l, L, n) .. LocaleHi(l, L, n) - 1
  <2>1. l \in 0 .. L /\ l + 1 \in 0 .. L /\ L \in 0 .. L
    BY DEF Indices
  <2>2. LocaleHi(l, L, n) <= n
    BY <2>1, LocaleRangesAbut, LocaleLoMono
  <2>3. /\ LocaleLo(l, L, n) \in Nat
        /\ LocaleHi(l, L, n) \in Nat
        /\ LocaleLo(l, L, n) <= LocaleHi(l, L, n)
    BY <2>1, LocaleBounds
  <2> QED
    BY <2>2, <2>3 DEF LocaleRange, Counted
<1>2. \A l \in Indices(L) : LocaleRange(l, L, n) \subseteq Indices(n)
  BY <1>1 DEF Indices
<1>3. \A i \in Indices(n) : \E l \in Indices(L) : i \in LocaleRange(l, L, n)
  <2> TAKE i \in Indices(n)
  <2>1. PICK l \in Indices(L) : LocaleLo(l, L, n) <= i /\ i < LocaleHi(l, L, n)
    BY LocaleRangesCover
  <2>2. i \in LocaleRange(l, L, n)
    BY <1>1, <2>1 DEF Indices
  <2> QED
    BY <2>2
<1>4. ASSUME NEW k \in Indices(L), NEW l \in Indices(L), k < l
      PROVE  LocaleRange(k, L, n) \cap LocaleRange(l, L, n) = {}
  <2>1. LocaleHi(k, L, n) = LocaleLo(k + 1, L, n)
    BY LocaleRangesAbut
  <2>2. k + 1 \in 0 .. L /\ l \in 0 .. L /\ k + 1 <= l
    BY <1>4 DEF Indices
  <2>3. LocaleHi(k, L, n) <= LocaleLo(l, L, n)
    BY <2>1, <2>2, LocaleLoMono
  <2> QED
    BY <1>1, <2>3
<1>5. \A k, l \in Indices(L) :
        k # l => LocaleRange(k, L, n) \cap LocaleRange(l, L, n) = {}
  <2> TAKE k, l \in Indices(L)
  <2>1. k \in Int /\ l \in Int
    BY DEF Indices
  <2> QED
    BY <1>4, <2>1
<1> QED
  BY <1>2, <1>3, <1>5 DEF IsPartition

-----------------------------------------------------------------------------
(* The chunk loop                                                          *)

(* A dividend determines its quotient and its remainder.                   *)
LEMMA DivModUnique ==
  ASSUME NEW k \in Nat \ {0}, NEW q \in Nat, NEW m \in 0 .. k - 1
  PROVE  /\ q * k + m \in Nat
         /\ (q * k + m) \div k = q
         /\ (q * k + m) % k = m
<1> DEFINE n == q * k + m
           d == n \div k
           e == n % k
<1>1. n \in Nat /\ q * k \in Nat
  OBVIOUS
<1>2. d \in Nat /\ e \in 0 .. k - 1 /\ n = k * d + e
  BY <1>1, DivMod
<1>3. n = q * k + m
  OBVIOUS
<1> HIDE DEF n, d, e
<1>4. k * d = d * k /\ d * k \in Nat /\ (d + 1) * k = d * k + k /\ (q + 1) * k = q * k + k
  BY <1>2
<1>5. ~(d + 1 <= q)
  <2>1. SUFFICES ASSUME d + 1 <= q PROVE FALSE
    OBVIOUS
  <2>2. (d + 1) * k <= q * k
    BY <1>2, <2>1, MulMono
  <2> QED
    BY <1>1, <1>2, <1>3, <1>4, <2>2
<1>6. ~(q + 1 <= d)
  <2>1. SUFFICES ASSUME q + 1 <= d PROVE FALSE
    OBVIOUS
  <2>2. (q + 1) * k <= d * k
    BY <1>2, <2>1, MulMono
  <2> QED
    BY <1>1, <1>2, <1>3, <1>4, <2>2
<1>7. d = q
  BY <1>2, <1>5, <1>6
<1>8. e = m
  BY <1>1, <1>2, <1>3, <1>4, <1>7
<1> QED
  BY <1>1, <1>7, <1>8 DEF n, d, e

(* The chunks are enough to hold every item.                               *)
LEMMA ChunksReach ==
  ASSUME NEW n \in Nat, NEW g \in Nat \ {0}
  PROVE  NumChunks(n, g) \in Nat /\ n <= NumChunks(n, g) * g
<1> DEFINE x == n + g - 1
<1>1. x \in Nat
  OBVIOUS
<1>2. x \div g \in Nat /\ x % g \in 0 .. g - 1 /\ x = g * (x \div g) + (x % g)
  BY <1>1, DivMod
<1>3. NumChunks(n, g) = x \div g
  BY DEF NumChunks
<1>4. x = n + g - 1
  OBVIOUS
<1> HIDE DEF x
<1> QED
  BY <1>2, <1>3, <1>4

(* The chunks a locale visits below numChunks are those with its number    *)
(* modulo numLocales, and an item belongs to the chunk i / grainSize.      *)
LEMMA ChunkOwner ==
  ASSUME NEW L \in Nat \ {0}, NEW n \in Nat, NEW g \in Nat \ {0},
         NEW l \in Indices(L), NEW i
  PROVE  i \in ChunkItems(l, L, n, g)
           <=> i \in Indices(n) /\ (i \div g) % L = l
<1> DEFINE N == NumChunks(n, g)
<1>1. N \in Nat /\ n <= N * g
  BY ChunksReach
<1>2. l \in 0 .. L - 1
  BY DEF Indices
<1>3. ASSUME i \in ChunkItems(l, L, n, g)
      PROVE  i \in Indices(n) /\ (i \div g) % L = l
  <2>1. PICK c \in VisitedChunks(l, L, n, g) : i \in ChunkRange(c, n, g)
    BY <1>3 DEF ChunkItems
  <2>2. c \in l .. l + N - 1 /\ (c - l) % L = 0
    BY <2>1 DEF VisitedChunks, Counted
  <2>3. c \in Nat /\ c - l \in Nat
    BY <1>1, <1>2, <2>2
  <2>4. c * g \in Nat /\ i \in Int /\ c * g <= i /\ i < c * g + g /\ i < n
    BY <2>1, <2>3 DEF ChunkRange, Counted, ChunkCount, ChunkLo, Lesser
  <2>5. i \div g = c
    <3> DEFINE m == i - c * g
    <3>1. m \in 0 .. g - 1 /\ i = c * g + m
      BY <2>4
    <3> HIDE DEF m
    <3> QED
      BY <2>3, <3>1, DivModUnique
  <2>6. c % L = l
    <3> DEFINE q == (c - l) \div L
    <3>1. q \in Nat /\ c - l = L * q + ((c - l) % L)
      BY <2>3, DivMod
    <3> HIDE DEF q
    <3>2. c = q * L + l
      BY <1>2, <2>2, <2>3, <3>1
    <3> QED
      BY <1>2, <3>1, <3>2, DivModUnique
  <2> QED
    BY <2>4, <2>5, <2>6, <2>3 DEF Indices
<1>4. ASSUME i \in Indices(n), (i \div g) % L = l
      PROVE  i \in ChunkItems(l, L, n, g)
  <2> DEFINE c == i \div g
             q == c \div L
  <2>1. i \in Nat /\ i < n
    BY <1>4 DEF Indices
  <2>2. c \in Nat /\ (i % g) \in 0 .. g - 1 /\ i = g * c + (i % g)
    BY <2>1, DivMod
  <2>3. c < N
    <3> HIDE DEF N
    <3>1. i < N * g
      BY <1>1, <2>1
    <3> QED
      BY <1>1, <2>1, <3>1, QuotientBound
  <2>4. q \in Nat /\ c = L * q + l
    BY <1>4, <2>2, DivMod
  <2> HIDE DEF c, q
  <2>5. c - l = q * L + 0 /\ q * L \in Nat
    BY <1>2, <2>2, <2>4
  <2>6. (c - l) % L = 0
    <3>0. 0 \in 0 .. L - 1
      OBVIOUS
    <3>1. (q * L + 0) % L = 0
      BY <2>4, <3>0, DivModUnique
    <3> QED
      BY <2>5, <3>1
  <2>7. c \in VisitedChunks(l, L, n, g)
    BY <1>1, <1>2, <2>2, <2>3, <2>5, <2>6 DEF VisitedChunks, Counted
  <2>8. c * g \in Nat /\ c * g <= i /\ i < c * g + g
    BY <2>2
  <2>9. ChunkCount(c, n, g) >= 0 /\ i \in ChunkRange(c, n, g)
    BY <2>1, <2>8 DEF ChunkRange, Counted, ChunkCount, ChunkLo, Lesser
  <2> QED
    BY <2>7, <2>9 DEF ChunkItems
<1> QED
  BY <1>3, <1>4

(* Chunk partitioning: whatever the grain, the chunks with a count that is *)
(* not negative give every item to exactly one locale.                     *)
THEOREM ChunkItemsPartition ==
  ASSUME NEW L \in Nat \ {0}, NEW n \in Nat, NEW g \in Nat \ {0}
  PROVE  LET Share(l) == ChunkItems(l, L, n, g)
         IN  IsPartition(Share, L, n)
<1>1. \A l \in Indices(L) : ChunkItems(l, L, n, g) \subseteq Indices(n)
  BY ChunkOwner
<1>2. ASSUME NEW i \in Indices(n)
      PROVE  \E l \in Indices(L) : i \in ChunkItems(l, L, n, g)
  <2>1. i \div g \in Nat
    BY DivMod DEF Indices
  <2>2. (i \div g) % L \in Indices(L)
    BY <2>1, DivMod DEF Indices
  <2> QED
    BY <2>2, ChunkOwner
<1>3. \A k, l \in Indices(L) :
        k # l => ChunkItems(k, L, n, g) \cap ChunkItems(l, L, n, g) = {}
  BY ChunkOwner
<1> QED
  BY <1>1, <1>2, <1>3 DEF IsPartition

(* When the number of locales divides the number of chunks, no locale      *)
(* walks past the last chunk, so no count is negative.                     *)
THEOREM EvenChunksNeverNegative ==
  ASSUME NEW L \in Nat \ {0}, NEW n \in Nat, NEW g \in Nat \ {0},
         NEW l \in Indices(L), NumChunks(n, g) % L = 0
  PROVE  ~NegativeChunk(l, L, n, g)
<1> DEFINE N == NumChunks(n, g)
           p == N \div L
<1>1. SUFFICES ASSUME NEW c \in VisitedChunks(l, L, n, g),
                      ChunkCount(c, n, g) < 0
               PROVE  FALSE
  BY DEF NegativeChunk
<1>2. l \in 0 .. L - 1
  BY DEF Indices
<1>3. N \in Nat
  BY ChunksReach
<1>4. p \in Nat /\ N = L * p
  <2>1. p \in Nat /\ N % L = 0 /\ N = L * p + (N % L)
    BY <1>3, DivMod
  <2> HIDE DEF N, p
  <2> QED
    BY <1>3, <2>1
<1>5. c \in l .. l + N - 1 /\ (c - l) % L = 0
  BY <1>1 DEF VisitedChunks, Counted
<1> DEFINE q == (c - l) \div L
<1>6. c - l \in Nat /\ c \in Nat
  BY <1>2, <1>3, <1>5
<1>7. q \in Nat /\ c - l = L * q
  <2>1. q \in Nat /\ c - l = L * q + ((c - l) % L)
    BY <1>6, DivMod
  <2> HIDE DEF q
  <2> QED
    BY <1>5, <1>6, <2>1
<1>8. q < p
  <2>1. c - l < p * L
    <3> HIDE DEF N, p, q
    <3>1. c - l < N
      BY <1>2, <1>3, <1>5
    <3> QED
      BY <1>3, <1>4, <3>1
  <2> QED
    BY <1>4, <1>6, <2>1, QuotientBound
<1>9. n + g - 1 \in Nat /\ N * g <= n + g - 1
  <2>1. n + g - 1 \in Nat
    OBVIOUS
  <2>2. n + g - 1 = g * N + ((n + g - 1) % g) /\ (n + g - 1) % g \in 0 .. g - 1
    BY <2>1, DivMod DEF NumChunks
  <2>3. g * N = N * g
    BY <1>3
  <2> HIDE DEF N
  <2> QED
    BY <2>1, <2>2, <2>3, <1>3
<1> HIDE DEF N, p, q
<1>10. c < N
  <2>1. (q + 1) * L <= p * L
    BY <1>4, <1>7, <1>8, MulMono
  <2>2. c = q * L + l /\ q * L \in Nat /\ (q + 1) * L = q * L + L
    BY <1>2, <1>6, <1>7
  <2> QED
    BY <1>2, <1>4, <2>1, <2>2
<1>11. (c + 1) * g <= N * g
  BY <1>3, <1>6, <1>10, MulMono
<1>12. c * g \in Nat /\ (c + 1) * g = c * g + g
  BY <1>6
<1>13. c * g < n
  BY <1>3, <1>9, <1>11, <1>12
<1> QED
  BY <1>1, <1>12, <1>13 DEF ChunkCount, ChunkLo, Lesser
=============================================================================
