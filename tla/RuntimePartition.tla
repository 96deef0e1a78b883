-------------------------- MODULE RuntimePartition --------------------------
(***************************************************************************)
(* The runtime partition types of the command's library: the slices that   *)
(* Partition::per_item and Partition::chunked compute, the checks of       *)
(* Partition::verify and GatherResult::verify_conservation, the estimate   *)
(* of MemoryBudget::calculate.                                             *)
(*                                                                         *)
(* A partition is the function of its slices, one for each locale.  Counts *)
(* of items stay far below 2^64; products with a number of bytes need not. *)
(***************************************************************************)
EXTENDS Partitioning, Functions, FiniteSetsExt

Slice(start, count) == [start |-> start, count |-> count]

SliceItems(slice) == Counted(slice.start, slice.count)

SliceEnd(slice) == slice.start + slice.count

\* The loop of both constructors: slice l starts at the offset, where slice
\* l - 1 ended, and Count says how many items it takes there.
EndToEnd(Count(_, _), numLocales) ==
  LET slice[l \in Indices(numLocales)] ==
        LET offset == IF l = 0 THEN 0 ELSE SliceEnd(slice[l - 1])
        IN  Slice(offset, Count(l, offset))
  IN  slice

\* Mutant: one locale too many gets a remainder item.
PerItem_OneMore(total, numLocales) ==
  LET Count(l, offset) ==
        (total \div numLocales) + (IF l <= total % numLocales THEN 1 ELSE 0)
  IN  EndToEnd(Count, numLocales)

PerItem(total, numLocales) ==
  LET Count(l, offset) ==
        (total \div numLocales) + (IF l < total % numLocales THEN 1 ELSE 0)
  IN  EndToEnd(Count, numLocales)

\* u64 saturating_sub.
SaturatingSub(a, b) == IF a <= b THEN 0 ELSE a - b

DivCeil(a, b) == IF a % b > 0 THEN (a \div b) + 1 ELSE a \div b

\* Mutant: the chunks each locale takes are rounded down.
Chunked_Floor(total, numLocales, grain) ==
  LET chunksPerLocale == DivCeil(total, grain) \div numLocales
      Count(l, offset) == Lesser(chunksPerLocale * grain, SaturatingSub(total, offset))
  IN  EndToEnd(Count, numLocales)

\* Every locale takes the same number of chunks for as long as items are left.
Chunked(total, numLocales, grain) ==
  LET chunksPerLocale == DivCeil(DivCeil(total, grain), numLocales)
      Count(l, offset) == Lesser(chunksPerLocale * grain, SaturatingSub(total, offset))
  IN  EndToEnd(Count, numLocales)

-----------------------------------------------------------------------------

VerifyCompleteness(slices, total) ==
  SumFunction([l \in DOMAIN slices |-> slices[l].count]) = total

\* Mutant: only slices that begin together are taken to overlap.
Overlap_SameStart(a, b) == a.start = b.start /\ a.count > 0 /\ b.count > 0

Overlap(a, b) == a.start < SliceEnd(b) /\ b.start < SliceEnd(a)

VerifyNoOverlap(slices) ==
  \A k, l \in DOMAIN slices : k < l => ~Overlap(slices[k], slices[l])

Verify(slices, total) == VerifyCompleteness(slices, total) /\ VerifyNoOverlap(slices)

\* A gather result, given by its count for each locale, lost nothing.
VerifyConservation(localeCounts, totalResults) == SumFunction(localeCounts) = totalResults

-----------------------------------------------------------------------------
(* The budget, in integers of a width that the caller gives: an optimised  *)
(* build wraps, a debug build panics instead.                              *)

\* A size_t and a bool for each item.
MetadataBytesPerItem == 9

\* Mutant: the locales with a remainder item are forgotten.
ItemsPerLocale_Floor(total, numLocales) == total \div numLocales

ItemsPerLocale(total, numLocales) == (total \div numLocales) + 1

Budget(total, numLocales, maxItemBytes, width) ==
  LET items    == ItemsPerLocale(total, numLocales) % width
      buffers  == (items * maxItemBytes) % width
      metadata == (items * MetadataBytesPerItem) % width
      bytes    == (buffers + buffers + metadata) % width
  IN  [itemsPerLocale |-> items, inputBytes |-> buffers, outputBytes |-> buffers,
       metadataBytes |-> metadata, totalBytes |-> bytes,
       totalMb |-> DivCeil(bytes, 1048576)]
=============================================================================
