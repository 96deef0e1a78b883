------------------------ MODULE MCPartitioning_proofs ------------------------
(***************************************************************************)
(* What the sweep checks up to its bounds, for every bound: the index      *)
(* arithmetic of the generated program, the partitions and the memory      *)
(* budget that the library computes for it, and what its verify tells.     *)
(***************************************************************************)
EXTENDS MCPartitioning, Partitioning_proofs, FiniteSetTheorems

Positive == nLocs \in Nat \ {0} /\ grain \in Nat \ {0} /\ nItems \in Nat \ {0}

LEMMA SweepPositive == Spec => []Positive
<1>1. Init => Positive
  BY SweepAssumption DEF Init, Positive
<1>2. Positive /\ [Next]_<<nLocs, grain, nItems>> => Positive'
  BY DEF Positive, Next, OneMoreItem
<1> QED
  BY <1>1, <1>2, PTL DEF Spec

(* A locale's share is the quotient, and one more for the first locales.   *)
LEMMA ShareSize ==
  ASSUME NEW L \in Nat \ {0}, NEW n \in Nat, NEW l \in Indices(L)
  PROVE  Cardinality(LocaleRange(l, L, n)) =
           (n \div L) + (IF l < n % L THEN 1 ELSE 0)
<1> DEFINE b == n \div L
           r == n % L
           lo == LocaleLo(l, L, n)
           size == b + (IF l < r THEN 1 ELSE 0)
<1>1. b \in Nat /\ r \in Nat
  <2>1. n % L \in 0 .. L - 1
    BY DivMod
  <2>2. n \div L \in Nat
    BY DivMod
  <2> QED
    BY <2>1, <2>2
<1>2. l \in 0 .. L
  BY DEF Indices
<1>3. lo \in Nat /\ size \in Nat /\ LocaleHi(l, L, n) - lo = size
  <2>1. lo \in Nat
    BY <1>2, LocaleBounds
  <2>2. LocaleHi(l, L, n) = lo + b + (IF l < r THEN 1 ELSE 0)
    BY DEF LocaleHi
  <2> HIDE DEF lo, b, r
  <2> QED
    BY <1>1, <2>1, <2>2
<1>4. LocaleRange(l, L, n) = lo .. lo + size - 1
  BY <1>3 DEF LocaleRange, Counted
<1> HIDE DEF lo, size
<1>5. Cardinality(lo .. lo + size - 1) = size
  <2>1. lo \in Int /\ lo + size - 1 \in Int
    BY <1>3
  <2>2. Cardinality(lo .. lo + size - 1) =
          IF lo > lo + size - 1 THEN 0 ELSE (lo + size - 1) - lo + 1
    BY <2>1, FS_Interval
  <2> QED
    BY <1>3, <2>2
<1> QED
  BY <1>4, <1>5 DEF size, b, r

LEMMA ShareIsCounted ==
  ASSUME NEW L \in Nat \ {0}, NEW n \in Nat, NEW l \in Indices(L)
  PROVE  Cardinality(LocaleRange(l, L, n)) = LocaleHi(l, L, n) - LocaleLo(l, L, n)
<1>1. LocaleLo(l, L, n) \in Nat /\ (n \div L) \in Nat
  BY LocaleBounds, DivMod DEF Indices
<1> QED
  BY <1>1, ShareSize DEF LocaleHi

(* localeRange gives every item to exactly one locale.                     *)
THEOREM LocalesSplit == Spec => []LocalesSplitItems
<1>1. Positive => LocalesSplitItems
  BY LocaleRangesPartition DEF Positive, LocalesSplitItems
<1> QED
  BY <1>1, SweepPositive, PTL

(* The chunk loops give every item to exactly one locale.                  *)
THEOREM ChunksSplit == Spec => []ChunksSplitItems
<1>1. Positive => ChunksSplitItems
  BY ChunkItemsPartition DEF Positive, ChunksSplitItems
<1> QED
  BY <1>1, SweepPositive, PTL

(* The locales' shares differ by one item at most.                         *)
THEOREM SharesBalanced == Spec => []LocalesBalanced
<1>1. Positive => LocalesBalanced
  <2> SUFFICES ASSUME Positive, NEW k \in Locales, NEW l \in Locales
               PROVE  Cardinality(LocaleRange(k, nLocs, nItems))
                        - Cardinality(LocaleRange(l, nLocs, nItems)) <= 1
    BY DEF LocalesBalanced
  <2>1. nLocs \in Nat \ {0} /\ nItems \in Nat
    BY DEF Positive
  <2>2. k \in Indices(nLocs) /\ l \in Indices(nLocs)
    BY DEF Locales
  <2> DEFINE b == nItems \div nLocs
             r == nItems % nLocs
  <2>3. b \in Nat /\ r \in Nat
    BY <2>1, DivMod
  <2>4. /\ Cardinality(LocaleRange(k, nLocs, nItems)) = b + (IF k < r THEN 1 ELSE 0)
        /\ Cardinality(LocaleRange(l, nLocs, nItems)) = b + (IF l < r THEN 1 ELSE 0)
    BY <2>1, <2>2, ShareSize
  <2> HIDE DEF b, r
  <2> QED
    BY <2>1, <2>2, <2>3, <2>4 DEF Indices
<1> QED
  BY <1>1, SweepPositive, PTL

(* What fits in an integer is not wrapped.                                 *)
LEMMA Unwrapped ==
  ASSUME NEW w \in Nat \ {0}, NEW x \in Nat, x < w
  PROVE  x % w = x
<1>1. x = 0 * w + x /\ x \in 0 .. w - 1
  OBVIOUS
<1> QED
  BY <1>1, DivModUnique

(* A budget that fits is the sum of its parts.                             *)
LEMMA BudgetThatFits ==
  ASSUME NEW m \in Nat, NEW b \in Nat, BytesFor(m, b) < Width,
         NEW total, NEW L, ItemsPerLocale(total, L) = m
  PROVE  Budget(total, L, b, Width).totalBytes = BytesFor(m, b)
<1>1. BytesFor(m, b) = m * b + m * b + m * 9
  BY DEF BytesFor, MetadataBytesPerItem
<1>2. m * b \in Nat /\ m * 9 \in Nat /\ Width \in Nat \ {0}
  BY SweepAssumption
<1>3. m < Width /\ m * b < Width /\ m * 9 < Width
  BY <1>1, <1>2
<1>4. m % Width = m /\ (m * b) % Width = m * b /\ (m * 9) % Width = m * 9
  BY <1>2, <1>3, Unwrapped
<1>5. (m * b + m * b + m * 9) % Width = m * b + m * b + m * 9
  BY <1>1, <1>2, Unwrapped
<1> QED
  BY <1>1, <1>4, <1>5 DEF Budget, MetadataBytesPerItem

(* The estimate covers what any locale holds under per-item, as long as it *)
(* fits in an integer.                                                     *)
THEOREM BudgetSufficient == Spec => []BudgetCoversPerItem
<1>1. Positive => BudgetCoversPerItem
  <2> SUFFICES ASSUME Positive, NEW b \in 0 .. MaxItemBytes, NEW l \in Locales,
                      ~(BytesFor((nItems \div nLocs) + 1, b) >= Width)
               PROVE  Budget(nItems, nLocs, b, Width).totalBytes
                        >= BytesFor(Cardinality(LocaleRange(l, nLocs, nItems)), b)
    BY DEF BudgetCoversPerItem
  <2> DEFINE m == (nItems \div nLocs) + 1
             held == Cardinality(LocaleRange(l, nLocs, nItems))
  <2>1. nLocs \in Nat \ {0} /\ nItems \in Nat /\ b \in Nat
    BY SweepAssumption DEF Positive
  <2>2. nItems \div nLocs \in Nat
    BY <2>1, DivMod
  <2>3. m \in Nat /\ held \in Nat /\ held <= m
    BY <2>1, <2>2, ShareSize DEF Locales
  <2>4. BytesFor(m, b) < Width
    BY <2>1, <2>3, SweepAssumption DEF BytesFor, MetadataBytesPerItem
  <2>5. Budget(nItems, nLocs, b, Width).totalBytes = BytesFor(m, b)
    BY <2>1, <2>3, <2>4, BudgetThatFits DEF ItemsPerLocale
  <2> HIDE DEF m, held
  <2>6. BytesFor(held, b) <= BytesFor(m, b)
    <3>1. held * (2 * b + 9) <= m * (2 * b + 9)
      BY <2>1, <2>3, MulMono
    <3> QED
      BY <3>1 DEF BytesFor, MetadataBytesPerItem
  <2>7. BytesFor(held, b) \in Nat /\ BytesFor(m, b) \in Nat
    BY <2>1, <2>3 DEF BytesFor, MetadataBytesPerItem
  <2> QED
    BY <2>5, <2>6, <2>7 DEF held
<1> QED
  BY <1>1, SweepPositive, PTL

-----------------------------------------------------------------------------
(* Sums of counts.                                                         *)

\* How many elements the shares of these indices have together.
Together(Share, s) == Cardinality(UNION {Share[x] : x \in s})

LEMMA OneMoreShare ==
  ASSUME NEW D, IsFiniteSet(D), NEW Share, \A x \in D : IsFiniteSet(Share[x]),
         \A x, y \in D : x # y => Share[x] \cap Share[y] = {},
         NEW s \in SUBSET D, NEW x \in s
  PROVE  Together(Share, s) = Cardinality(Share[x]) + Together(Share, s \ {x})
<1> DEFINE rest == UNION {Share[y] : y \in s \ {x}}
<1>1. IsFiniteSet(rest)
  <2> DEFINE shares == {Share[y] : y \in s \ {x}}
  <2>1. IsFiniteSet(s \ {x})
    BY FS_Subset, FS_RemoveElement
  <2>2. IsFiniteSet(shares)
    <3> DEFINE f == [y \in s \ {x} |-> Share[y]]
    <3>1. f \in Surjection(s \ {x}, shares)
      BY DEF Surjection
    <3> QED
      BY <2>1, <3>1, FS_Surjection
  <2>3. \A T \in shares : IsFiniteSet(T)
    OBVIOUS
  <2> QED
    BY <2>2, <2>3, FS_UNION
<1>2. Share[x] \cup rest = UNION {Share[y] : y \in s}
  OBVIOUS
<1>3. Share[x] \cap rest = {}
  OBVIOUS
<1>4. IsFiniteSet(Share[x])
  OBVIOUS
<1> HIDE DEF rest
<1>5. Cardinality(Share[x] \cup rest) = Cardinality(Share[x]) + Cardinality(rest)
  <2>1. /\ Cardinality(Share[x] \cup rest) =
             Cardinality(Share[x]) + Cardinality(rest) - Cardinality({})
        /\ Cardinality({}) = 0
    BY <1>1, <1>3, <1>4, FS_Union, FS_EmptySet
  <2>2. Cardinality(Share[x]) \in Nat /\ Cardinality(rest) \in Nat
    BY <1>1, <1>4, FS_CardinalityType
  <2> QED
    BY <2>1, <2>2
<1> QED
  BY <1>2, <1>5 DEF Together, rest

(* The counts of shares that do not overlap add up to the number of        *)
(* elements the shares have together, in whatever order they are added.    *)
LEMMA SumOfShares ==
  ASSUME NEW D, IsFiniteSet(D), NEW Share, \A x \in D : IsFiniteSet(Share[x]),
         \A x, y \in D : x # y => Share[x] \cap Share[y] = {},
         NEW count, DOMAIN count = D, \A x \in D : count[x] = Cardinality(Share[x])
  PROVE  SumFunction(count) = Cardinality(UNION {Share[x] : x \in D})
<1> DEFINE First(s) == CHOOSE x \in s : TRUE
           Adds(iter) ==
             iter = [s \in SUBSET D |->
                       IF s = {} THEN 0 ELSE count[First(s)] + iter[s \ {First(s)}]]
           all == [s \in SUBSET D |-> Together(Share, s)]
           sum == CHOOSE iter : Adds(iter)
<1>1. SumFunction(count) = sum[D]
  BY DEF SumFunction, SumFunctionOnSet, FoldFunctionOnSet, MapThenFoldSet
<1>2. \A s \in SUBSET D : s # {} => First(s) \in s
  OBVIOUS
<1>3. Together(Share, {}) = 0
  BY FS_EmptySet DEF Together
<1>4. ASSUME NEW s \in SUBSET D, s # {}
      PROVE  Together(Share, s) = count[First(s)] + Together(Share, s \ {First(s)})
  <2>1. First(s) \in s
    BY <1>2, <1>4
  <2> HIDE DEF First
  <2>2. Together(Share, s) =
          Cardinality(Share[First(s)]) + Together(Share, s \ {First(s)})
    BY <2>1, OneMoreShare
  <2> QED
    BY <2>1, <2>2
<1>5. Adds(all)
  <2>1. ASSUME NEW s \in SUBSET D
        PROVE  all[s] = IF s = {} THEN 0 ELSE count[First(s)] + all[s \ {First(s)}]
    <3>1. s \ {First(s)} \in SUBSET D
      OBVIOUS
    <3> HIDE DEF First
    <3> QED
      BY <1>3, <1>4, <3>1
  <2> QED
    BY <2>1
<1>6. Adds(sum)
  BY <1>5
<1>7. \A s \in SUBSET D :
        sum[s] = IF s = {} THEN 0 ELSE count[First(s)] + sum[s \ {First(s)}]
  BY <1>6
<1> HIDE DEF First, sum, Adds
<1>8. sum[D] = all[D]
  <2> DEFINE Differ == {n \in Nat : \E s \in SUBSET D : Cardinality(s) = n /\ sum[s] # all[s]}
  <2>1. SUFFICES ASSUME sum[D] # all[D] PROVE FALSE
    OBVIOUS
  <2>2. Differ # {}
    <3>1. Cardinality(D) \in Differ
      BY <2>1, FS_CardinalityType
    <3> QED
      BY <3>1
  <2>3. Differ \in SUBSET Nat
    OBVIOUS
  <2>4. PICK m \in Differ : \A k \in Differ : m <= k
    <3> HIDE DEF Differ
    <3> QED
      BY <2>2, <2>3, LeastNatural
  <2>5. PICK s \in SUBSET D : Cardinality(s) = m /\ sum[s] # all[s]
    BY <2>4
  <2>6. CASE s = {}
    BY <1>3, <1>7, <2>5, <2>6
  <2>7. CASE s # {}
    <3> DEFINE less == s \ {First(s)}
    <3>1. IsFiniteSet(s) /\ First(s) \in s
      BY <1>2, <2>7, FS_Subset
    <3>2. Cardinality(less) = m - 1 /\ Cardinality(less) \in Nat
      BY <2>5, <3>1, FS_RemoveElement, FS_CardinalityType
    <3>3. less \in SUBSET D
      OBVIOUS
    <3>4. sum[less] = all[less]
      BY <2>3, <2>4, <3>2, <3>3
    <3>5. sum[s] = count[First(s)] + sum[less]
      BY <1>7, <2>7
    <3>6. all[s] = count[First(s)] + all[less]
      BY <1>4, <2>7, <3>3
    <3> QED
      BY <2>5, <3>4, <3>5, <3>6
  <2> QED
    BY <2>6, <2>7
<1> QED
  BY <1>1, <1>8 DEF Together

-----------------------------------------------------------------------------
(* The slices the library computes.                                        *)

LEMMA FiniteIndices ==
  ASSUME NEW n \in Nat
  PROVE  IsFiniteSet(Indices(n)) /\ Cardinality(Indices(n)) = n
<1>1. IsFiniteSet(0 .. n - 1)
  BY FS_Interval
<1>2. Cardinality(0 .. n - 1) = IF 0 > n - 1 THEN 0 ELSE (n - 1) - 0 + 1
  BY FS_Interval
<1> QED
  BY <1>1, <1>2 DEF Indices

(* Shares of the items that do not overlap count all the items exactly     *)
(* when they cover them.                                                   *)
LEMMA SharesOfPartition ==
  ASSUME NEW D, IsFiniteSet(D), NEW n \in Nat, NEW Share, NEW count,
         \A x \in D : Share[x] \subseteq Indices(n),
         \A x, y \in D : x # y => Share[x] \cap Share[y] = {},
         DOMAIN count = D, \A x \in D : count[x] = Cardinality(Share[x])
  PROVE  SumFunction(count) = n <=>
           \A i \in Indices(n) : \E x \in D : i \in Share[x]
<1> DEFINE all == UNION {Share[x] : x \in D}
<1>1. IsFiniteSet(Indices(n)) /\ Cardinality(Indices(n)) = n
  BY FiniteIndices
<1>2. \A x \in D : IsFiniteSet(Share[x])
  BY <1>1, FS_Subset
<1>3. SumFunction(count) = Cardinality(all)
  BY <1>2, SumOfShares
<1>4. all \in SUBSET Indices(n)
  OBVIOUS
<1> HIDE DEF all
<1>5. Cardinality(all) = n <=> all = Indices(n)
  BY <1>1, <1>4, FS_Subset
<1>6. all = Indices(n) <=> \A i \in Indices(n) : \E x \in D : i \in Share[x]
  BY <1>4 DEF all
<1> QED
  BY <1>3, <1>5, <1>6

(* Partition::per_item begins every slice where localeRange does.          *)
LEMMA PerItemSlices ==
  ASSUME NEW L \in Nat \ {0}, NEW n \in Nat, NEW l \in Indices(L)
  PROVE  PerItem(n, L)[l] =
           Slice(LocaleLo(l, L, n), LocaleHi(l, L, n) - LocaleLo(l, L, n))
<1> DEFINE size(k) == (n \div L) + (IF k < n % L THEN 1 ELSE 0)
           Solves(h) == h = [k \in Indices(L) |->
             Slice(IF k = 0 THEN 0 ELSE SliceEnd(h[k - 1]), size(k))]
           f == CHOOSE h : Solves(h)
           g == [k \in Indices(L) |-> Slice(LocaleLo(k, L, n), size(k))]
<1>1. PerItem(n, L) = f
  BY DEF PerItem, EndToEnd
<1>2. \A k \in Indices(L) : LocaleHi(k, L, n) = LocaleLo(k, L, n) + size(k)
  <2> SUFFICES ASSUME NEW k \in Indices(L)
               PROVE  LocaleHi(k, L, n) = LocaleLo(k, L, n) + size(k)
    OBVIOUS
  <2>1. LocaleLo(k, L, n) \in Nat /\ n \div L \in Nat
    BY LocaleBounds, DivMod DEF Indices
  <2> QED
    BY <2>1 DEF LocaleHi
<1>3. \A k \in Indices(L) :
        g[k] = Slice(IF k = 0 THEN 0 ELSE SliceEnd(g[k - 1]), size(k))
  <2> SUFFICES ASSUME NEW k \in Indices(L)
               PROVE  LocaleLo(k, L, n) = IF k = 0 THEN 0 ELSE SliceEnd(g[k - 1])
    OBVIOUS
  <2>1. CASE k = 0
    BY <2>1, LocaleRangesAbut
  <2>2. CASE k # 0
    <3>1. k - 1 \in Indices(L) /\ (k - 1) + 1 = k
      BY <2>2 DEF Indices
    <3>2. LocaleHi(k - 1, L, n) = LocaleLo((k - 1) + 1, L, n)
      BY <3>1, LocaleRangesAbut
    <3>3. SliceEnd(g[k - 1]) = LocaleHi(k - 1, L, n)
      BY <1>2, <3>1 DEF SliceEnd, Slice
    <3> QED
      BY <2>2, <3>1, <3>2, <3>3
  <2> QED
    BY <2>1, <2>2
<1>4. Solves(g)
  BY <1>3
<1>5. Solves(f)
  BY <1>4
<1>6. \A k \in Indices(L) :
        f[k] = Slice(IF k = 0 THEN 0 ELSE SliceEnd(f[k - 1]), size(k))
  BY <1>5
<1> HIDE DEF f, g
<1>7. f[l] = g[l]
  <2>1. \A k \in Indices(L) : k = 0 => f[k] = g[k]
    BY <1>3, <1>6
  <2>2. \A k \in Indices(L) : k # 0 /\ f[k - 1] = g[k - 1] => f[k] = g[k]
    BY <1>3, <1>6
  <2> QED
    BY <2>1, <2>2, StepwiseEqual
<1>8. g[l] = Slice(LocaleLo(l, L, n), size(l))
  BY DEF g
<1>9. size(l) = LocaleHi(l, L, n) - LocaleLo(l, L, n)
  <2>1. LocaleLo(l, L, n) \in Nat /\ LocaleHi(l, L, n) \in Nat
    BY LocaleBounds DEF Indices
  <2>2. size(l) \in Int
    BY DivMod
  <2> HIDE DEF size
  <2> QED
    BY <1>2, <2>1, <2>2
<1> QED
  BY <1>1, <1>7, <1>8, <1>9

(* The shares that localeRange gives out add up to the items.              *)
LEMMA WorkedConserved ==
  ASSUME NEW L \in Nat \ {0}, NEW n \in Nat
  PROVE  SumFunction([l \in Indices(L) |-> Cardinality(LocaleRange(l, L, n))]) = n
<1> DEFINE share == [l \in Indices(L) |-> LocaleRange(l, L, n)]
           count == [l \in Indices(L) |-> Cardinality(LocaleRange(l, L, n))]
<1>1. DOMAIN count = Indices(L)
  OBVIOUS
<1>2. \A l \in Indices(L) : count[l] = Cardinality(share[l])
  OBVIOUS
<1>3. /\ \A l \in Indices(L) : share[l] \subseteq Indices(n)
      /\ \A k, l \in Indices(L) : k # l => share[k] \cap share[l] = {}
      /\ \A i \in Indices(n) : \E l \in Indices(L) : i \in share[l]
  BY LocaleRangesPartition DEF IsPartition
<1> HIDE DEF share, count
<1>5. SumFunction(count) = n <=>
        \A i \in Indices(n) : \E l \in Indices(L) : i \in share[l]
  BY <1>1, <1>2, <1>3, FiniteIndices, SharesOfPartition
<1>4. SumFunction(count) = n
  BY <1>3, <1>5
<1> QED
  BY <1>4 DEF count

(* The library's slices for per-item are the ranges the generated program  *)
(* walks, and conserve the items.                                          *)
THEOREM LibraryAgrees == Spec => []LibraryAgreesPerItem
<1>1. Positive => LibraryAgreesPerItem
  <2> SUFFICES ASSUME Positive PROVE LibraryAgreesPerItem
    OBVIOUS
  <2> DEFINE slices == PerItem(nItems, nLocs)
             share == [l \in Locales |-> LocaleRange(l, nLocs, nItems)]
             counted == [l \in Locales |-> slices[l].count]
             worked == [l \in Locales |-> Cardinality(LocaleRange(l, nLocs, nItems))]
  <2>1. nLocs \in Nat \ {0} /\ nItems \in Nat /\ Locales = Indices(nLocs)
    BY DEF Positive, Locales
  <2>2. \A l \in Locales :
          slices[l] = Slice(LocaleLo(l, nLocs, nItems),
                            LocaleHi(l, nLocs, nItems) - LocaleLo(l, nLocs, nItems))
    BY <2>1, PerItemSlices
  <2> HIDE DEF slices
  <2>3. ASSUME NEW l \in Locales
        PROVE  /\ SliceItems(slices[l]) = LocaleRange(l, nLocs, nItems)
               /\ slices[l].count = LocaleHi(l, nLocs, nItems) - LocaleLo(l, nLocs, nItems)
    <3>1. slices[l] = Slice(LocaleLo(l, nLocs, nItems),
                            LocaleHi(l, nLocs, nItems) - LocaleLo(l, nLocs, nItems))
      BY <2>2
    <3> QED
      BY <3>1 DEF SliceItems, Slice, LocaleRange
  <2>4. \A l \in Locales : slices[l].count = Cardinality(LocaleRange(l, nLocs, nItems))
    <3> SUFFICES ASSUME NEW l \in Locales
                 PROVE  slices[l].count = Cardinality(LocaleRange(l, nLocs, nItems))
      OBVIOUS
    <3>1. slices[l].count = LocaleHi(l, nLocs, nItems) - LocaleLo(l, nLocs, nItems)
      BY <2>3
    <3>2. LocaleHi(l, nLocs, nItems) - LocaleLo(l, nLocs, nItems)
            = Cardinality(LocaleRange(l, nLocs, nItems))
      BY <2>1, ShareIsCounted
    <3> QED
      BY <3>1, <3>2
  <2>5. /\ \A l \in Locales : share[l] \subseteq Indices(nItems)
        /\ \A k, l \in Locales : k # l => share[k] \cap share[l] = {}
        /\ \A i \in Indices(nItems) : \E l \in Locales : i \in share[l]
    BY <2>1, LocaleRangesPartition DEF IsPartition
  <2>6. counted = worked
    BY <2>4
  <2>7. SumFunction(worked) = nItems
    BY <2>1, WorkedConserved
  <2> QED
    BY <2>3, <2>6, <2>7 DEF LibraryAgreesPerItem, VerifyConservation, slices
<1> QED
  BY <1>1, SweepPositive, PTL

(* A slice counts the items it holds.                                      *)
LEMMA SliceIsCounted ==
  ASSUME NEW start \in Nat, NEW count \in Nat
  PROVE  Cardinality(SliceItems(Slice(start, count))) = count
<1>1. SliceItems(Slice(start, count)) = start .. start + count - 1
  BY DEF SliceItems, Slice, Counted
<1>2. Cardinality(start .. start + count - 1) =
        IF start > start + count - 1 THEN 0 ELSE (start + count - 1) - start + 1
  <2>1. start \in Int /\ start + count - 1 \in Int
    OBVIOUS
  <2> QED
    BY <2>1, FS_Interval
<1> QED
  BY <1>1, <1>2

(* For slices that share no item, verify's sum is right exactly when every *)
(* item is in one of them.                                                 *)
LEMMA CompleteWhenCovered ==
  ASSUME NEW L \in Nat \ {0}, NEW n \in Nat,
         NEW slices \in [Indices(L) -> SlicesWithin(n)],
         \A k, l \in Indices(L) :
           k # l => SliceItems(slices[k]) \cap SliceItems(slices[l]) = {}
  PROVE  VerifyCompleteness(slices, n) <=>
           \A i \in Indices(n) : \E l \in Indices(L) : i \in SliceItems(slices[l])
<1> DEFINE share == [l \in Indices(L) |-> SliceItems(slices[l])]
           count == [l \in Indices(L) |-> slices[l].count]
<1>1. \A l \in Indices(L) : share[l] \subseteq Indices(n)
  <2> SUFFICES ASSUME NEW l \in Indices(L) PROVE SliceItems(slices[l]) \subseteq Indices(n)
    OBVIOUS
  <2>1. /\ slices[l].start \in 0 .. n /\ slices[l].count \in 0 .. n
        /\ slices[l].start + slices[l].count <= n
    BY DEF SlicesWithin, SliceEnd
  <2> QED
    BY <2>1 DEF SliceItems, Counted, Indices
<1>2. \A l \in Indices(L) : count[l] = Cardinality(share[l])
  <2> SUFFICES ASSUME NEW l \in Indices(L)
               PROVE  slices[l].count = Cardinality(SliceItems(slices[l]))
    OBVIOUS
  <2>1. /\ slices[l] = Slice(slices[l].start, slices[l].count)
        /\ slices[l].start \in Nat /\ slices[l].count \in Nat
    BY DEF SlicesWithin, Slice
  <2> QED
    BY <2>1, SliceIsCounted
<1>3. \A k, l \in Indices(L) : k # l => share[k] \cap share[l] = {}
  OBVIOUS
<1>4. DOMAIN count = Indices(L) /\ DOMAIN slices = Indices(L)
  OBVIOUS
<1>5. VerifyCompleteness(slices, n) <=> SumFunction(count) = n
  BY <1>4 DEF VerifyCompleteness
<1>6. \A i \in Indices(n) : \A l \in Indices(L) :
        i \in share[l] <=> i \in SliceItems(slices[l])
  OBVIOUS
<1> HIDE DEF share, count
<1>7. SumFunction(count) = n <=>
        \A i \in Indices(n) : \E l \in Indices(L) : i \in share[l]
  BY <1>1, <1>2, <1>3, <1>4, FiniteIndices, SharesOfPartition
<1> QED
  BY <1>5, <1>6, <1>7

(* Slices that do not overlap share no item, and slices that hold items    *)
(* and share none do not overlap.                                          *)
LEMMA OverlapIsShared ==
  ASSUME NEW n \in Nat, NEW a \in SlicesWithin(n), NEW b \in SlicesWithin(n)
  PROVE  /\ ~Overlap(a, b) => SliceItems(a) \cap SliceItems(b) = {}
         /\ (Overlap(a, b) /\ a.count > 0 /\ b.count > 0) =>
              SliceItems(a) \cap SliceItems(b) # {}
<1>1. /\ a.start \in Nat /\ a.count \in Nat
      /\ b.start \in Nat /\ b.count \in Nat
  BY DEF SlicesWithin
<1>2. ASSUME ~Overlap(a, b), NEW i \in SliceItems(a) \cap SliceItems(b)
      PROVE  FALSE
  BY <1>1, <1>2 DEF Overlap, SliceEnd, SliceItems, Counted
<1>3. ASSUME Overlap(a, b), a.count > 0, b.count > 0
      PROVE  SliceItems(a) \cap SliceItems(b) # {}
  <2> DEFINE i == IF a.start <= b.start THEN b.start ELSE a.start
  <2>1. i \in SliceItems(a) /\ i \in SliceItems(b)
    BY <1>1, <1>3 DEF Overlap, SliceEnd, SliceItems, Counted
  <2> QED
    BY <2>1
<1> QED
  BY <1>2, <1>3

(* verify accepts slices that stay within the items only if they are a     *)
(* partition, and accepts every partition into slices that hold items.     *)
LEMMA VerifyDecides ==
  ASSUME NEW L \in Nat \ {0}, NEW n \in Nat,
         NEW slices \in [Indices(L) -> SlicesWithin(n)]
  PROVE  LET Share(l) == SliceItems(slices[l])
         IN  /\ Verify(slices, n) => IsPartition(Share, L, n)
             /\ (\A l \in Indices(L) : slices[l].count > 0) /\ IsPartition(Share, L, n)
                  => Verify(slices, n)
<1> DEFINE Share(l) == SliceItems(slices[l])
           Apart == \A k, l \in Indices(L) : k # l => Share(k) \cap Share(l) = {}
           Covered == \A i \in Indices(n) : \E l \in Indices(L) : i \in Share(l)
<1>1. \A l \in Indices(L) : Share(l) \subseteq Indices(n)
  <2> SUFFICES ASSUME NEW l \in Indices(L) PROVE Share(l) \subseteq Indices(n)
    OBVIOUS
  <2>1. /\ slices[l].start \in 0 .. n /\ slices[l].count \in 0 .. n
        /\ slices[l].start + slices[l].count <= n
    BY DEF SlicesWithin, SliceEnd
  <2> QED
    BY <2>1 DEF SliceItems, Counted, Indices
<1>2. IsPartition(Share, L, n) <=> Apart /\ Covered
  BY <1>1 DEF IsPartition
<1>3. Apart => (VerifyCompleteness(slices, n) <=> Covered)
  BY CompleteWhenCovered
<1>4. VerifyNoOverlap(slices) => Apart
  <2> SUFFICES ASSUME VerifyNoOverlap(slices), NEW k \in Indices(L), NEW l \in Indices(L),
                      k < l
               PROVE  Share(k) \cap Share(l) = {}
    BY DEF Indices
  <2>1. ~Overlap(slices[k], slices[l])
    BY DEF VerifyNoOverlap
  <2>2. slices[k] \in SlicesWithin(n) /\ slices[l] \in SlicesWithin(n)
    OBVIOUS
  <2> QED
    BY <2>1, <2>2, OverlapIsShared
<1>5. (\A l \in Indices(L) : slices[l].count > 0) /\ Apart => VerifyNoOverlap(slices)
  <2> SUFFICES ASSUME \A l \in Indices(L) : slices[l].count > 0, Apart,
                      NEW k \in Indices(L), NEW l \in Indices(L), k < l,
                      Overlap(slices[k], slices[l])
               PROVE  FALSE
    BY DEF VerifyNoOverlap
  <2>1. k # l
    BY DEF Indices
  <2>2. slices[k] \in SlicesWithin(n) /\ slices[l] \in SlicesWithin(n)
    OBVIOUS
  <2>3. Share(k) \cap Share(l) # {}
    BY <2>2, OverlapIsShared
  <2> QED
    BY <2>1, <2>3
<1> QED
  BY <1>2, <1>3, <1>4, <1>5 DEF Verify

(* Partition::verify tells the partitions from everything else.            *)
THEOREM VerifyIsDecisive == Spec => []VerifyDecidesPartitions
<1>1. Positive => VerifyDecidesPartitions
  <2> SUFFICES ASSUME Positive, NEW slices \in [Locales -> SlicesWithin(nItems)]
               PROVE  LET Share(l) == SliceItems(slices[l])
                      IN  /\ Verify(slices, nItems) => IsPartition(Share, nLocs, nItems)
                          /\ (\A l \in Locales : slices[l].count > 0)
                               /\ IsPartition(Share, nLocs, nItems) => Verify(slices, nItems)
    BY DEF VerifyDecidesPartitions
  <2>1. nLocs \in Nat \ {0} /\ nItems \in Nat /\ Locales = Indices(nLocs)
    BY DEF Positive, Locales
  <2>2. slices \in [Indices(nLocs) -> SlicesWithin(nItems)]
    BY <2>1
  <2> QED
    BY <2>1, <2>2, VerifyDecides
<1> QED
  BY <1>1, SweepPositive, PTL

-----------------------------------------------------------------------------
(* The library's chunked slices.                                           *)

LEMMA DivCeilCovers ==
  ASSUME NEW a \in Nat, NEW b \in Nat \ {0}
  PROVE  DivCeil(a, b) \in Nat /\ a <= DivCeil(a, b) * b
<1> DEFINE q == a \div b
           r == a % b
<1>1. q \in Nat /\ r \in 0 .. b - 1 /\ a = b * q + r
  BY DivMod
<1>2. DivCeil(a, b) = IF r > 0 THEN q + 1 ELSE q
  BY DEF DivCeil
<1> HIDE DEF q, r
<1>3. b * q = q * b /\ (q + 1) * b = q * b + b /\ q * b \in Nat
  BY <1>1
<1> QED
  BY <1>1, <1>2, <1>3

\* How many items the library hands a locale for as long as items are left.
ChunkSpan(L, n, g) == DivCeil(DivCeil(n, g), L) * g

LEMMA SpansCover ==
  ASSUME NEW L \in Nat \ {0}, NEW n \in Nat, NEW g \in Nat \ {0}
  PROVE  ChunkSpan(L, n, g) \in Nat /\ n <= L * ChunkSpan(L, n, g)
<1> DEFINE chunks == DivCeil(n, g)
           each == DivCeil(chunks, L)
<1>1. chunks \in Nat /\ n <= chunks * g
  BY DivCeilCovers
<1> HIDE DEF chunks
<1>2. each \in Nat /\ chunks <= each * L
  BY <1>1, DivCeilCovers
<1>3. ChunkSpan(L, n, g) = each * g
  BY DEF ChunkSpan, each, chunks
<1> HIDE DEF each
<1>4. chunks * g <= (each * L) * g
  <2>1. each * L \in Nat
    BY <1>2
  <2> QED
    BY <1>1, <1>2, <2>1, MulMono
<1>5. (each * L) * g = L * (each * g) /\ each * g \in Nat
  BY <1>2
<1>6. chunks * g \in Nat /\ (each * L) * g \in Nat
  BY <1>1, <1>2
<1> QED
  BY <1>1, <1>3, <1>4, <1>5, <1>6

\* Where the items of a locale begin when every one before takes its span.
Edge(l, w, n) == Lesser(l * w, n)

LEMMA EdgeBounds ==
  ASSUME NEW w \in Nat, NEW n \in Nat, NEW k \in Nat
  PROVE  Edge(k, w, n) \in Nat /\ Edge(k, w, n) <= n
<1>1. k * w \in Nat
  OBVIOUS
<1> QED
  BY <1>1 DEF Edge, Lesser

LEMMA EdgeMono ==
  ASSUME NEW w \in Nat, NEW n \in Nat, NEW k \in Nat, NEW l \in Nat, k <= l
  PROVE  Edge(k, w, n) <= Edge(l, w, n)
<1>1. k * w \in Nat /\ l * w \in Nat /\ k * w <= l * w
  BY MulMono
<1> QED
  BY <1>1 DEF Edge, Lesser

(* Partition::chunked begins slice l after l spans, or where the items     *)
(* end.                                                                    *)
LEMMA ChunkedSlices ==
  ASSUME NEW L \in Nat \ {0}, NEW n \in Nat, NEW g \in Nat \ {0}
  PROVE  LET w == ChunkSpan(L, n, g)
         IN  Chunked(n, L, g) =
               [l \in Indices(L) |-> Slice(Edge(l, w, n), Edge(l + 1, w, n) - Edge(l, w, n))]
<1> DEFINE w == ChunkSpan(L, n, g)
           size(offset) == Lesser(w, SaturatingSub(n, offset))
           Solves(h) == h = [k \in Indices(L) |->
             Slice(IF k = 0 THEN 0 ELSE SliceEnd(h[k - 1]),
                   size(IF k = 0 THEN 0 ELSE SliceEnd(h[k - 1])))]
           f == CHOOSE h : Solves(h)
           g_ == [k \in Indices(L) |-> Slice(Edge(k, w, n), Edge(k + 1, w, n) - Edge(k, w, n))]
<1>1. Chunked(n, L, g) = f
  BY DEF Chunked, EndToEnd, ChunkSpan
<1>2. w \in Nat
  BY SpansCover
<1> HIDE DEF w
<1>3. \A k \in Indices(L) : size(Edge(k, w, n)) = Edge(k + 1, w, n) - Edge(k, w, n)
  <2> SUFFICES ASSUME NEW k \in Indices(L)
               PROVE  size(Edge(k, w, n)) = Edge(k + 1, w, n) - Edge(k, w, n)
    OBVIOUS
  <2>1. k \in Nat /\ k * w \in Nat /\ (k + 1) * w = k * w + w
    BY <1>2 DEF Indices
  <2> QED
    BY <1>2, <2>1 DEF Edge, Lesser, SaturatingSub
<1>4. \A k \in Indices(L) :
        g_[k] = Slice(IF k = 0 THEN 0 ELSE SliceEnd(g_[k - 1]),
                      size(IF k = 0 THEN 0 ELSE SliceEnd(g_[k - 1])))
  <2> SUFFICES ASSUME NEW k \in Indices(L)
               PROVE  Edge(k, w, n) = IF k = 0 THEN 0 ELSE SliceEnd(g_[k - 1])
    BY <1>3
  <2>1. CASE k = 0
    BY <1>2, <2>1 DEF Edge, Lesser
  <2>2. CASE k # 0
    <3>1. k - 1 \in Indices(L) /\ k \in Nat /\ k - 1 \in Nat /\ (k - 1) + 1 = k
      BY <2>2 DEF Indices
    <3>2. Edge(k, w, n) \in Nat /\ Edge(k - 1, w, n) \in Nat
      BY <1>2, <3>1, EdgeBounds
    <3>3. SliceEnd(g_[k - 1]) = Edge(k, w, n)
      BY <3>1, <3>2 DEF SliceEnd, Slice
    <3> QED
      BY <2>2, <3>3
  <2> QED
    BY <2>1, <2>2
<1>5. Solves(g_)
  BY <1>4
<1>6. Solves(f)
  BY <1>5
<1>7. \A k \in Indices(L) :
        f[k] = Slice(IF k = 0 THEN 0 ELSE SliceEnd(f[k - 1]),
                     size(IF k = 0 THEN 0 ELSE SliceEnd(f[k - 1])))
  BY <1>6
<1>8. DOMAIN f = Indices(L) /\ f = [k \in DOMAIN f |-> f[k]]
  BY <1>6
<1>9. g_ = [k \in Indices(L) |-> g_[k]]
  OBVIOUS
<1> HIDE DEF f, g_, size
<1>10. \A k \in Indices(L) : f[k] = g_[k]
  <2> SUFFICES ASSUME NEW l \in Indices(L) PROVE f[l] = g_[l]
    OBVIOUS
  <2>1. \A k \in Indices(L) : k = 0 => f[k] = g_[k]
    BY <1>4, <1>7
  <2>2. \A k \in Indices(L) : k # 0 /\ f[k - 1] = g_[k - 1] => f[k] = g_[k]
    BY <1>4, <1>7
  <2> QED
    BY <2>1, <2>2, StepwiseEqual
<1>11. f = g_
  BY <1>8, <1>9, <1>10
<1> QED
  BY <1>1, <1>11 DEF g_, w

(* The library's chunked slices: a partition that its own verify accepts,  *)
(* and no slice but the last ends inside a chunk.                          *)
LEMMA ChunkedIsPartition ==
  ASSUME NEW L \in Nat \ {0}, NEW n \in Nat, NEW g \in Nat \ {0}
  PROVE  LET slices == Chunked(n, L, g)
             Share(l) == SliceItems(slices[l])
         IN  /\ IsPartition(Share, L, n)
             /\ Verify(slices, n)
             /\ \A l \in Indices(L) :
                  SliceEnd(slices[l]) % g = 0 \/ SliceEnd(slices[l]) = n
<1> DEFINE slices == Chunked(n, L, g)
           w == ChunkSpan(L, n, g)
           Share(l) == SliceItems(slices[l])
           from(l) == Edge(l, w, n)
           to(l) == Edge(l + 1, w, n)
<1>1. w \in Nat /\ n <= L * w
  BY SpansCover
<1>2. slices = [l \in Indices(L) |-> Slice(from(l), to(l) - from(l))]
  BY ChunkedSlices
<1>3. DOMAIN slices = Indices(L)
  BY <1>2
<1> HIDE DEF slices
<1>4. ASSUME NEW l \in Indices(L)
      PROVE  l \in Nat /\ from(l) \in Nat /\ to(l) \in Nat /\ from(l) <= to(l) /\ to(l) <= n
  <2>1. l \in Nat /\ l + 1 \in Nat /\ l <= l + 1
    BY DEF Indices
  <2> HIDE DEF w
  <2> QED
    BY <1>1, <2>1, EdgeBounds, EdgeMono
<1>5. ASSUME NEW k \in Indices(L), NEW l \in Indices(L), k < l
      PROVE  to(k) <= from(l)
  <2>1. k + 1 \in Nat /\ l \in Nat /\ k + 1 <= l
    BY <1>5 DEF Indices
  <2> HIDE DEF w
  <2> QED
    BY <1>1, <2>1, EdgeMono
<1>6. ASSUME NEW i \in Indices(n)
      PROVE  \E l \in Indices(L) : from(l) <= i /\ i < to(l)
  <2> DEFINE l == i \div w
  <2>1. i \in Nat /\ n \in Nat /\ i < n
    BY DEF Indices
  <2>2. i < L * w /\ w \in Nat \ {0}
    <3>1. L * w \in Nat /\ w \in Nat
      BY <1>1
    <3>2. i < L * w
      BY <1>1, <2>1, <3>1
    <3>3. w # 0
      BY <2>1, <3>2
    <3> QED
      BY <3>1, <3>2, <3>3
  <2> HIDE DEF w
  <2>3. l < L
    BY <2>1, <2>2, QuotientBound
  <2> DEFINE rest == i % w
  <2>4. l \in Nat /\ rest \in 0 .. w - 1 /\ i = w * l + rest
    BY <2>1, <2>2, DivMod
  <2> HIDE DEF l, rest
  <2>5. l \in Indices(L)
    BY <2>3, <2>4 DEF Indices
  <2>6. w * l = l * w /\ l * w \in Nat /\ (l + 1) * w = l * w + w
    BY <2>2, <2>4
  <2>7. l * w <= i /\ i < (l + 1) * w
    BY <2>2, <2>4, <2>6
  <2>8. from(l) <= i /\ i < to(l)
    BY <2>1, <2>2, <2>6, <2>7 DEF Edge, Lesser
  <2> QED
    BY <2>5, <2>8
<1>7. ASSUME NEW l \in Indices(L)
      PROVE  to(l) % g = 0 \/ to(l) = n
  <2> DEFINE each == DivCeil(DivCeil(n, g), L)
             m == (l + 1) * each
  <2>1. each \in Nat /\ w = each * g
    BY DivCeilCovers DEF ChunkSpan
  <2>2. l + 1 \in Nat /\ m \in Nat
    BY <1>4, <2>1
  <2>3. (l + 1) * w = m * g
    <3> HIDE DEF each, w
    <3> QED
      BY <2>1, <2>2
  <2>4. m * g \in Nat /\ (m * g + 0) % g = 0
    <3> HIDE DEF m
    <3> QED
      BY <2>2, DivModUnique
  <2> HIDE DEF m, w
  <2> QED
    BY <2>3, <2>4 DEF Edge, Lesser
<1> HIDE DEF w, from, to
<1>8. \A l \in Indices(L) : slices[l] \in SlicesWithin(n)
  <2> SUFFICES ASSUME NEW l \in Indices(L)
               PROVE  Slice(from(l), to(l) - from(l)) \in SlicesWithin(n)
    BY <1>2
  <2> QED
    BY <1>4 DEF Slice, SlicesWithin, SliceEnd
<1>9. \A l \in Indices(L) :
        Share(l) = from(l) .. to(l) - 1 /\ SliceEnd(slices[l]) = to(l)
  <2> SUFFICES ASSUME NEW l \in Indices(L)
               PROVE  Share(l) = from(l) .. to(l) - 1 /\ SliceEnd(slices[l]) = to(l)
    OBVIOUS
  <2>1. from(l) + (to(l) - from(l)) = to(l)
    BY <1>4
  <2>2. slices[l].start = from(l) /\ slices[l].count = to(l) - from(l)
    BY <1>2 DEF Slice
  <2>3. SliceEnd(slices[l]) = to(l)
    BY <2>1, <2>2, Zenon DEF SliceEnd
  <2>4. Share(l) = from(l) .. from(l) + (to(l) - from(l)) - 1
    BY <2>2, Zenon DEF SliceItems, Counted
  <2>5. from(l) .. from(l) + (to(l) - from(l)) - 1 = from(l) .. to(l) - 1
    BY <1>4
  <2>6. Share(l) = from(l) .. to(l) - 1
    BY <2>4, <2>5, Zenon
  <2> QED
    BY <2>3, <2>6, Zenon
<1>10. \A k, l \in Indices(L) : k # l => Share(k) \cap Share(l) = {}
  <2> SUFFICES ASSUME NEW k \in Indices(L), NEW l \in Indices(L), k < l
               PROVE  Share(k) \cap Share(l) = {}
    BY DEF Indices
  <2> QED
    BY <1>4, <1>5, <1>9
<1>11. \A i \in Indices(n) : \E l \in Indices(L) : i \in Share(l)
  <2> SUFFICES ASSUME NEW i \in Indices(n) PROVE \E l \in Indices(L) : i \in Share(l)
    OBVIOUS
  <2>1. PICK l \in Indices(L) : from(l) <= i /\ i < to(l)
    BY <1>6
  <2>2. i \in from(l) .. to(l) - 1
    BY <1>4, <2>1 DEF Indices
  <2> QED
    BY <1>9, <2>2
<1>12. \A l \in Indices(L) : Share(l) \subseteq Indices(n)
  BY <1>4, <1>9 DEF Indices
<1>13. slices \in [Indices(L) -> SlicesWithin(n)]
  BY <1>2, <1>8
<1>14. VerifyCompleteness(slices, n)
  BY <1>10, <1>11, <1>13, CompleteWhenCovered
<1>15. VerifyNoOverlap(slices)
  <2> SUFFICES ASSUME NEW k \in Indices(L), NEW l \in Indices(L), k < l
               PROVE  ~(slices[l].start < SliceEnd(slices[k]))
    BY <1>3 DEF VerifyNoOverlap, Overlap
  <2>1. slices[l].start = from(l)
    BY <1>2 DEF Slice
  <2> QED
    BY <1>4, <1>5, <1>9, <2>1
<1>16. \A l \in Indices(L) : SliceEnd(slices[l]) % g = 0 \/ SliceEnd(slices[l]) = n
  BY <1>7, <1>9
<1>17. IsPartition(Share, L, n)
  BY <1>10, <1>11, <1>12 DEF IsPartition
<1> QED
  BY <1>14, <1>15, <1>16, <1>17 DEF Verify, slices

(* The library's chunked slices are a partition of the items, which its    *)
(* own verify accepts, and only the last that holds items ends inside a    *)
(* chunk.                                                                  *)
THEOREM LibraryChunksSplit == Spec => []LibraryChunksSplitItems
<1>1. Positive => LibraryChunksSplitItems
  <2>1. Positive => /\ nLocs \in Nat \ {0} /\ nItems \in Nat /\ grain \in Nat \ {0}
                    /\ Locales = Indices(nLocs)
    BY DEF Positive, Locales
  <2> QED
    BY <2>1, ChunkedIsPartition DEF LibraryChunksSplitItems
<1> QED
  BY <1>1, SweepPositive, PTL
=============================================================================
