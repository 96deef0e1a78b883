--------------------------- MODULE MCPartitioning ---------------------------
(***************************************************************************)
(* A sweep of the index arithmetic: every number of locales and every      *)
(* grain up to a bound, while the number of items grows one by one; of the *)
(* code generator (Partitioning) and of the library (RuntimePartition).    *)
(***************************************************************************)
EXTENDS RuntimePartition

CONSTANTS
  MaxLocales,   \* bound of the sweep over numLocales
  MaxGrain,     \* bound of the sweep over grainSize
  MaxItems,     \* bound of the sweep over nItems
  MaxSlices,    \* bound on nLocs, and
  MaxSliceEnd,  \* on nItems, where verify is tried on arbitrary slices
  MaxItemBytes, \* bound of the budgets' max_item_bytes
  Width         \* 2^64 in the code, small here so that a budget overflows

ASSUME SweepAssumption ==
  /\ MaxLocales \in Nat /\ MaxGrain \in Nat /\ MaxItems \in Nat
  /\ MaxItemBytes \in Nat /\ Width \in Nat \ {0}

VARIABLES nLocs, grain, nItems

Init ==
  /\ nLocs \in 1 .. MaxLocales
  /\ grain \in 1 .. MaxGrain
  /\ nItems = 1

OneMoreItem ==
  /\ nItems < MaxItems
  /\ nItems' = nItems + 1
  /\ UNCHANGED <<nLocs, grain>>

Next == OneMoreItem

Spec == Init /\ [][Next]_<<nLocs, grain, nItems>>

Locales == Indices(nLocs)

\* localeRange gives every item to exactly one locale.
LocalesSplitItems ==
  LET Share(l) == LocaleRange(l, nLocs, nItems) IN IsPartition(Share, nLocs, nItems)

\* No locale gets two items more than another.
LocalesBalanced ==
  \A k, l \in Locales :
    Cardinality(LocaleRange(k, nLocs, nItems))
      - Cardinality(LocaleRange(l, nLocs, nItems)) <= 1

\* The chunk loops give every item to exactly one locale.
ChunksSplitItems ==
  LET Share(l) == ChunkItems(l, nLocs, nItems, grain) IN IsPartition(Share, nLocs, nItems)

\* The slices the library computes for per-item are those the generated
\* program works on, so that a gather that got one result for each of them
\* conserves the items.
LibraryAgreesPerItem ==
  LET slices == PerItem(nItems, nLocs)
      Worked(l) == Cardinality(LocaleRange(l, nLocs, nItems))
  IN  /\ \A l \in Locales : SliceItems(slices[l]) = LocaleRange(l, nLocs, nItems)
      /\ VerifyConservation([l \in Locales |-> slices[l].count], nItems)
      /\ VerifyConservation([l \in Locales |-> Worked(l)], nItems)

\* The library's chunked slices are a partition of the items, its own verify
\* accepts them, and no slice but the last that has items ends inside a chunk.
LibraryChunksSplitItems ==
  LET slices == Chunked(nItems, nLocs, grain)
      Share(l) == SliceItems(slices[l])
  IN  /\ IsPartition(Share, nLocs, nItems)
      /\ Verify(slices, nItems)
      /\ \A l \in Locales : SliceEnd(slices[l]) % grain = 0 \/ SliceEnd(slices[l]) = nItems

SlicesWithin(total) ==
  {s \in [start : 0 .. total, count : 0 .. total] : SliceEnd(s) <= total}

\* verify tells the partitions from everything else: slices that stay within
\* the items and pass it leave no gap and no overlap, which a sum of counts
\* and a pairwise test see, and a partition into slices that are not empty
\* always passes.
VerifyDecidesPartitions ==
  nItems <= MaxSliceEnd /\ nLocs <= MaxSlices =>
    \A slices \in [Locales -> SlicesWithin(nItems)] :
      LET Share(l) == SliceItems(slices[l])
          NoneEmpty == \A l \in Locales : slices[l].count > 0
      IN  /\ Verify(slices, nItems) => IsPartition(Share, nLocs, nItems)
          /\ NoneEmpty /\ IsPartition(Share, nLocs, nItems) => Verify(slices, nItems)

\* What the buffers of a locale that works on n items take up.
BytesFor(n, itemBytes) == n * (2 * itemBytes + MetadataBytesPerItem)

\* The budget is never below what any locale holds under per-item, whichever
\* locales get the remainder, unless the estimate does not fit in an integer.
BudgetCoversPerItem ==
  \A itemBytes \in 0 .. MaxItemBytes, l \in Locales :
    LET held     == Cardinality(LocaleRange(l, nLocs, nItems))
        estimate == Budget(nItems, nLocs, itemBytes, Width).totalBytes
    IN  \/ estimate >= BytesFor(held, itemBytes)
        \/ BytesFor((nItems \div nLocs) + 1, itemBytes) >= Width
=============================================================================
