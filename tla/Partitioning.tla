---------------------------- MODULE Partitioning ----------------------------
(***************************************************************************)
(* The index arithmetic of a generated program: which item indices a       *)
(* locale walks in the distribution phase.  Every operator takes the       *)
(* parameters of the Chapel procedure (or of the loop header) it stands    *)
(* for; there is no state.                                                 *)
(*                                                                         *)
(* Items and locales are numbered from 0, as in the generated code.        *)
(***************************************************************************)
EXTENDS Integers

Indices(n) == 0 .. n - 1

Lesser(a, b) == IF a <= b THEN a ELSE b

\* Chapel's counted range  lo..#count  for a count that is not negative.
Counted(lo, count) == lo .. lo + count - 1

-----------------------------------------------------------------------------
(* localeRange: an even split, the first nItems % nLocs locales get one    *)
(* item more.                                                              *)

\* Mutant: the remainder items of the locales before are forgotten.
LocaleLo_NoRemainder(locId, nLocs, nItems) == locId * (nItems \div nLocs)

LocaleLo(locId, nLocs, nItems) ==
  locId * (nItems \div nLocs) + Lesser(locId, nItems % nLocs)

\* Mutant: no locale takes a remainder item.
LocaleHi_NoRemainder(locId, nLocs, nItems) ==
  LocaleLo(locId, nLocs, nItems) + (nItems \div nLocs)

LocaleHi(locId, nLocs, nItems) ==
  LocaleLo(locId, nLocs, nItems) + (nItems \div nLocs)
    + (IF locId < nItems % nLocs THEN 1 ELSE 0)

\* Mutant: the last locale takes the whole remainder.
LocaleRange_LastTakesRest(locId, nLocs, nItems) ==
  LET base == nItems \div nLocs
  IN  locId * base .. (IF locId = nLocs - 1 THEN nItems ELSE (locId + 1) * base) - 1

LocaleRange(locId, nLocs, nItems) ==
  Counted(LocaleLo(locId, nLocs, nItems),
          LocaleHi(locId, nLocs, nItems) - LocaleLo(locId, nLocs, nItems))

-----------------------------------------------------------------------------
(* chunkRange and the loop over chunks                                     *)
(*     for chunkIdx in loc.id..#numChunks by numLocales                    *)
(* The loop starts at loc.id and counts numChunks candidates from there,   *)
(* so a locale other than 0 can reach an index that names no chunk.        *)

\* Mutant: the quotient is not rounded up.
NumChunks_Floor(nItems, grain) == nItems \div grain

NumChunks(nItems, grain) == (nItems + grain - 1) \div grain

ChunkLo(chunkIdx, grain) == chunkIdx * grain

\* hi - lo of chunkRange, the count it hands to  lo..#count.
ChunkCount(chunkIdx, nItems, grain) ==
  Lesser(ChunkLo(chunkIdx, grain) + grain, nItems) - ChunkLo(chunkIdx, grain)

ChunkRange(chunkIdx, nItems, grain) ==
  Counted(ChunkLo(chunkIdx, grain), ChunkCount(chunkIdx, nItems, grain))

\* Mutant: the loop header counts one candidate too many.
VisitedChunks_OneMore(locId, nLocs, nItems, grain) ==
  {c \in Counted(locId, NumChunks(nItems, grain) + 1) : (c - locId) % nLocs = 0}

VisitedChunks(locId, nLocs, nItems, grain) ==
  {c \in Counted(locId, NumChunks(nItems, grain)) : (c - locId) % nLocs = 0}

\* The items of the chunks a locale visits; a count of zero adds none.
ChunkItems(locId, nLocs, nItems, grain) ==
  UNION {ChunkRange(c, nItems, grain) :
           c \in {v \in VisitedChunks(locId, nLocs, nItems, grain) :
                    ChunkCount(v, nItems, grain) >= 0}}

\* The loop of this locale evaluates  lo..#count  with count < 0.
NegativeChunk(locId, nLocs, nItems, grain) ==
  \E c \in VisitedChunks(locId, nLocs, nItems, grain) :
    ChunkCount(c, nItems, grain) < 0

-----------------------------------------------------------------------------
(* Keyed routing: the test (h % numLocales) == loc.id.                     *)

KeyOwner(hash, nLocs) == hash % nLocs

(***************************************************************************)
(* A family of index sets, one for each locale, is a partition of the      *)
(* items when every item is in exactly one of them and no set holds an     *)
(* index that names no item.                                               *)
(***************************************************************************)
IsPartition(Share(_), nLocs, nItems) ==
  /\ \A l \in Indices(nLocs) : Share(l) \subseteq Indices(nItems)
  /\ \A i \in Indices(nItems) : \E l \in Indices(nLocs) : i \in Share(l)
  /\ \A k, l \in Indices(nLocs) : k # l => Share(k) \cap Share(l) = {}
=============================================================================
