------------------------------ MODULE Workload ------------------------------
(***************************************************************************)
(* main() of a generated program, from c_init to the exit status: init,    *)
(* item count, load, distribution, gather, store, shutdown.                *)
(*                                                                         *)
(* The program is generated from a manifest that validates; its command    *)
(* line may override the config constants with values validate would not   *)
(* have let through.                                                       *)
(*                                                                         *)
(* The distribution phase is ParallelMap, which Distribution implements,   *)
(* except that it may halt, and that where several tasks may work on one   *)
(* item nothing is said of what they leave in its slot.  Of the gather     *)
(* strategies, merge, stream, reduce and first are the code of this        *)
(* module; tree-reduce is one step: with the outcomes Reduction allows,    *)
(* which TreeReduce implements where the number of locales is a power of   *)
(* two and they can follow each other's pointers, and elsewhere with any.  *)
(* A buffer is the sequence of the items combined in it.                   *)
(***************************************************************************)
EXTENDS Manifest, Partitioning, SequencesExt

CONSTANTS
  NItems,      \* the item count, when it is positive
  Manifests,   \* what the program may be generated from, if it validates
  Arguments,   \* what its command line may override
  LocaleCounts,\* the numbers of locales it may be run on
  CIntBound,   \* 2^31 in the code: C ints are -CIntBound .. CIntBound - 1
  Unknown      \* in a buffer: bytes of which nothing is said

ASSUME WorkloadItemsAssumption == NItems \in Nat \ {0}
ASSUME LocaleCountsAssumption == LocaleCounts \subseteq Nat \ {0}
ASSUME CIntBoundAssumption == CIntBound \in Nat \ {0}
ASSUME GrainsAssumption ==
  /\ \A m \in Manifests : m.grainSize \in Nat
  /\ \A a \in Arguments : "grainSize" \in DOMAIN a => a["grainSize"] \in Nat

Items == 0 .. NItems - 1

NoOutput == <<>>

VARIABLES
  program,       \* the manifest the program was generated from
  args,          \* the config constants its command line names
  numLocales,    \* the number of locales it runs on
  followed,      \* whether c_ptrTo of an element of an array on one locale
                 \* can be followed on another
  phase,         \* how far main is
  status,        \* "running", "exit0" or "halted" (a non-zero exit)
  next,          \* the index of the loop main is in
  outcome,       \* of each item, as ParallelMap has it
  joined,        \* the distribution phase is over
  resultData,    \* resultData and resultSizes
  resultOk,
  accum,         \* accumBuf and accumLen
  haveAccum,
  foundIdx,      \* the match of gather = "first", or -1
  storeFailed,
  matching,      \* the items whose result c_is_match accepts
  stored,        \* history: what c_store_result accepted, <<index, buffer>>
  library,       \* history: the user's library is "down", "up" or "shut"
  usedWhen,      \* history: states the library was in when it was called
  reduceFailed   \* history: a call of c_reduce failed

map     == <<outcome, joined>>
results == <<resultData, resultOk>>
fold    == <<accum, haveAccum, reduceFailed>>
fixed   == <<program, args, numLocales, followed, matching>>
lib     == <<library, usedWhen>>
vars    == <<fixed, phase, status, next, map, results, fold, foundIdx,
             storeFailed, stored, lib>>

Map == INSTANCE ParallelMap

gather == program.gather

Config == Overridden(ConfigConstants(program), args)

Init ==
  /\ program \in {m \in Manifests : Validate(m)}
  /\ args \in Arguments
  /\ numLocales \in LocaleCounts
  /\ followed \in BOOLEAN
  /\ matching \in IF gather = "first" THEN SUBSET Items ELSE {{}}
  /\ phase = "init"
  /\ status = "running"
  /\ next = 0
  /\ Map!Init
  /\ resultData = [i \in Items |-> NoOutput]
  /\ resultOk = [i \in Items |-> FALSE]
  /\ accum = NoOutput
  /\ haveAccum = FALSE
  /\ foundIdx = -1
  /\ storeFailed = FALSE
  /\ stored = <<>>
  /\ library = "down"
  /\ usedWhen = {}
  /\ reduceFailed = FALSE

-----------------------------------------------------------------------------

At(label) == status = "running" /\ phase = label

\* A call of one of the user's c_* functions other than the two below.  The
\* library is the one of locale 0, which alone runs c_init: the processes of
\* the other locales call theirs without one.
CallLibrary == usedWhen' = usedWhen \cup {library} /\ UNCHANGED library

\* c_shutdown(), as the last thing main does before it returns.
ShutDown ==
  /\ usedWhen' = usedWhen \cup {library}
  /\ library' = "shut"

\* main returns, with exit status 0, after a shutdown.
Return ==
  /\ ShutDown
  /\ phase' = "ended"
  /\ status' = "exit0"

-----------------------------------------------------------------------------
(* Init, item count and load.                                              *)

InitSucceeds ==
  /\ At("init")
  /\ library' = "up"
  /\ phase' = "count"
  /\ UNCHANGED <<fixed, status, next, map, results, fold, foundIdx,
                 storeFailed, stored, usedWhen>>

\* c_init returns non-zero: main returns, without a shutdown.
InitFails ==
  /\ At("init")
  /\ phase' = "ended"
  /\ status' = "exit0"
  /\ UNCHANGED <<fixed, next, map, results, fold, foundIdx, storeFailed, stored, lib>>

\* totalItems is positive, or it is not and c_get_total_items() is.
SomeItems ==
  /\ At("count")
  /\ IF Config.totalItems > 0 THEN UNCHANGED lib ELSE CallLibrary
  /\ phase' = "load"
  /\ UNCHANGED <<fixed, status, next, map, results, fold, foundIdx, storeFailed, stored>>

NothingToDo ==
  /\ At("count")
  /\ Config.totalItems <= 0
  /\ Return
  /\ UNCHANGED <<fixed, next, map, results, fold, foundIdx, storeFailed, stored>>

\* i: c_int
CInt(i) == ((i + CIntBound) % (2 * CIntBound)) - CIntBound

\* The buffer that the results of some items make in this order: each is the
\* result of the item that c_load_item gave for the index it saw.
AsLoaded(order) == [k \in DOMAIN order |-> CInt(order[k])]

LoadItem ==
  /\ At("load")
  /\ next < NItems
  /\ CallLibrary
  /\ next' = next + 1
  /\ UNCHANGED <<fixed, phase, status, map, results, fold, foundIdx, storeFailed, stored>>

\* Mutant: the return after the shutdown is left out.
LoadFails_NoReturn ==
  /\ At("load")
  /\ next < NItems
  /\ ShutDown
  /\ phase' = "distribute"
  /\ UNCHANGED <<fixed, status, next, map, results, fold, foundIdx, storeFailed, stored>>

\* c_load_item fails: leave the loop and the on block, shut down, return.
LoadFails ==
  /\ At("load")
  /\ next < NItems
  /\ Return
  /\ UNCHANGED <<fixed, next, map, results, fold, foundIdx, storeFailed, stored>>

EndLoad ==
  /\ At("load")
  /\ next = NItems
  /\ phase' = "distribute"
  /\ UNCHANGED <<fixed, status, next, map, results, fold, foundIdx, storeFailed, stored, lib>>

-----------------------------------------------------------------------------
(* Distribution, by its specification.                                     *)

\* Only these two read grainSize: the one divides by it, the other hands it
\* to the iterator, which asserts that it is positive.
NeedsGrain == program.partition \in {"chunk", "adaptive"}

\* A chunk loop goes past the last chunk: with bounds checks the range it
\* evaluates there halts the program, without them its items are unspecified.
Overruns ==
  /\ program.partition = "chunk"
  /\ Config.grainSize # 0
  /\ \E l \in Indices(numLocales) : NegativeChunk(l, numLocales, NItems, Config.grainSize)

\* Every locale works on the items that are its own: it can read all keys, and
\* no chunk loop goes astray.
SlotsReliable ==
  ~Overruns /\ (program.partition = "keyed" => followed \/ numLocales = 1)

Distributing == At("distribute") /\ ~(NeedsGrain /\ Config.grainSize = 0)

\* With maxRetries = 0 an item fails without a call of c_process_item.  Of an
\* item that several tasks work on only what they leave in the end is seen
\* here; one that no task takes to be its own counts as failed.
ProcessItem ==
  /\ Distributing
  /\ \E i \in Items :
       /\ Map!Decide(i)
       /\ Config.maxRetries = 0 => outcome'[i] = "failed"
  /\ IF Config.maxRetries > 0 \/ program.partition = "keyed"
       THEN CallLibrary
       ELSE UNCHANGED lib
  /\ UNCHANGED <<fixed, phase, status, next, results, fold, foundIdx, storeFailed, stored>>

HasCheckpointHook == program.partition \in {"per-item", "chunk", "keyed"}

Succeeded == {i \in Items : outcome[i] = "ok"}

\* What slot i holds: torn if tasks that shared it mixed their writes.
SlotOf(i, torn) ==
  IF i \in torn THEN <<Unknown>> ELSE IF i \in Succeeded THEN AsLoaded(<<i>>) ELSE NoOutput

\* The coforall is over; the slots hold what the tasks wrote.
EndDistribution ==
  /\ Distributing
  /\ Map!Join
  /\ resultOk' = [i \in Items |-> outcome[i] = "ok"]
  /\ \E torn \in SUBSET Succeeded :
       /\ SlotsReliable => torn = {}
       /\ resultData' = [i \in Items |-> SlotOf(i, torn)]
  /\ next' = 0
  /\ phase' = "gather"
  /\ IF Config.enableCheckpoint /\ HasCheckpointHook THEN CallLibrary ELSE UNCHANGED lib
  /\ UNCHANGED <<fixed, status, fold, foundIdx, storeFailed, stored>>

\* A grain of zero ends the program before any item is processed, a range
\* with a negative count when its locale gets there.
DistributionHalts ==
  /\ At("distribute")
  /\ ~Distributing \/ Overruns
  /\ phase' = "ended"
  /\ status' = "halted"
  /\ UNCHANGED <<fixed, next, map, results, fold, foundIdx, storeFailed, stored, lib>>

-----------------------------------------------------------------------------
(* Gather.                                                                 *)

Gathering(strategy) == At("gather") /\ gather = strategy

ToStore == phase' = "store" /\ next' = 0

\* merge and stream leave the slots as they are.
GatherInPlace ==
  /\ Gathering("merge") \/ Gathering("stream")
  /\ ToStore
  /\ UNCHANGED <<fixed, status, map, results, fold, foundIdx, storeFailed, stored, lib>>

\* Mutant: the loop does not move past a failed item.
FoldSkip_NoAdvance ==
  /\ Gathering("reduce")
  /\ next < NItems
  /\ ~resultOk[next]
  /\ UNCHANGED vars

FoldSkip ==
  /\ Gathering("reduce")
  /\ next < NItems
  /\ ~resultOk[next]
  /\ next' = next + 1
  /\ UNCHANGED <<fixed, phase, status, map, results, fold, foundIdx, storeFailed, stored, lib>>

FoldSeed ==
  /\ Gathering("reduce")
  /\ next < NItems
  /\ resultOk[next]
  /\ ~haveAccum
  /\ accum' = resultData[next]
  /\ haveAccum' = TRUE
  /\ next' = next + 1
  /\ UNCHANGED <<fixed, phase, status, map, results, reduceFailed, foundIdx,
                 storeFailed, stored, lib>>

CanReduce ==
  /\ Gathering("reduce")
  /\ next < NItems
  /\ resultOk[next]
  /\ haveAccum
  /\ CallLibrary

FoldStep ==
  /\ CanReduce
  /\ accum' = accum \o resultData[next]
  /\ next' = next + 1
  /\ UNCHANGED <<fixed, phase, status, map, results, haveAccum, reduceFailed,
                 foundIdx, storeFailed, stored>>

\* Mutant: the loop is left but what was folded so far stays valid.
FoldFails_KeepPartial ==
  /\ CanReduce
  /\ next' = NItems
  /\ reduceFailed' = TRUE
  /\ UNCHANGED <<fixed, phase, status, map, results, accum, haveAccum, foundIdx,
                 storeFailed, stored>>

\* c_reduce fails: forget the accumulator and leave the loop.
FoldFails ==
  /\ CanReduce
  /\ haveAccum' = FALSE
  /\ next' = NItems
  /\ reduceFailed' = TRUE
  /\ UNCHANGED <<fixed, phase, status, map, results, accum, foundIdx, storeFailed, stored>>

EndFold ==
  /\ Gathering("reduce")
  /\ next = NItems
  /\ resultData' = [resultData EXCEPT ![0] = accum]
  /\ resultOk' = [resultOk EXCEPT ![0] = haveAccum]
  /\ ToStore
  /\ UNCHANGED <<fixed, status, map, fold, foundIdx, storeFailed, stored, lib>>

IsPowerOfTwo(n) == \E k \in 0 .. n : n = 2 ^ k

\* What tree-reduce combines is what it is meant to combine: its rounds pair
\* off all accumulators, and each locale reads those and the slots it is given.
TreeSound ==
  IsPowerOfTwo(numLocales) /\ (followed \/ numLocales = 1) /\ SlotsReliable

\* tree-reduce, by its specification: all the successful results in some
\* order, or no result; but where c_reduce fails, which is not noticed, any
\* part of them.
GatherTree ==
  /\ Gathering("tree-reduce")
  /\ TreeSound \/ Succeeded = {}
  /\ \E kept \in SUBSET Succeeded :
       /\ kept = Succeeded \/ Cardinality(Succeeded) > 1
       /\ reduceFailed' = (kept # Succeeded)
       /\ \E order \in SetToSeqs(kept) :
            resultData' = [resultData EXCEPT ![0] = AsLoaded(order)]
  /\ resultOk' = [resultOk EXCEPT ![0] = Succeeded # {}]
  /\ ToStore
  /\ IF Cardinality(Succeeded) > 1 THEN CallLibrary ELSE UNCHANGED lib
  /\ UNCHANGED <<fixed, status, map, accum, haveAccum, foundIdx, storeFailed, stored>>

\* Elsewhere results may be lost or combined twice, and other memory with them,
\* whether c_reduce fails or not.  If it is not a power of two, the number of
\* locales may also make tree-reduce lose the only accumulators there are.
GatherTreeUnsound ==
  /\ Gathering("tree-reduce")
  /\ ~TreeSound
  /\ Succeeded # {}
  /\ resultData' = [resultData EXCEPT ![0] = <<Unknown>>]
  /\ \E valid \in BOOLEAN :
       /\ IsPowerOfTwo(numLocales) => valid
       /\ resultOk' = [resultOk EXCEPT ![0] = valid]
  /\ ToStore
  /\ \/ CallLibrary /\ reduceFailed' \in BOOLEAN
     \/ UNCHANGED <<lib, reduceFailed>>
  /\ UNCHANGED <<fixed, status, map, accum, haveAccum, foundIdx, storeFailed, stored>>

\* Mutant: c_is_match is asked about the slots of failed items too.
IsMatch_Blindly(i) == i \in matching

\* The test of the scan.  What c_is_match says of a slot is fixed.
IsMatch(i) == resultOk[i] /\ i \in matching

ScanNext ==
  /\ Gathering("first")
  /\ next < NItems
  /\ ~IsMatch(next)
  /\ next' = next + 1
  /\ IF resultOk[next] THEN CallLibrary ELSE UNCHANGED lib
  /\ UNCHANGED <<fixed, phase, status, map, results, fold, foundIdx, storeFailed, stored>>

ScanHit ==
  /\ Gathering("first")
  /\ next < NItems
  /\ IsMatch(next)
  /\ foundIdx' = next
  /\ CallLibrary
  /\ ToStore
  /\ UNCHANGED <<fixed, status, map, results, fold, storeFailed, stored>>

\* Mutant: the end of the scan is taken for the place of a match.
ScanEnds_AtEnd ==
  /\ Gathering("first")
  /\ next = NItems
  /\ foundIdx' = next
  /\ ToStore
  /\ UNCHANGED <<fixed, status, map, results, fold, storeFailed, stored, lib>>

ScanEnds ==
  /\ Gathering("first")
  /\ next = NItems
  /\ ToStore
  /\ UNCHANGED <<fixed, status, map, results, fold, foundIdx, storeFailed, stored, lib>>

-----------------------------------------------------------------------------
(* Store and shutdown.                                                     *)

\* c_store_result(index, buffer) succeeds or fails.
Store(index, buffer) ==
  /\ CallLibrary
  /\ \/ /\ stored' = Append(stored, <<index, buffer>>)
        /\ UNCHANGED storeFailed
     \/ /\ storeFailed' = TRUE
        /\ UNCHANGED stored

\* merge and stream: every successful slot, in the order of the indices.
StoreNext ==
  /\ At("store")
  /\ gather \in {"merge", "stream"}
  /\ next < NItems
  /\ IF resultOk[next] THEN Store(CInt(next), resultData[next])
                       ELSE UNCHANGED <<stored, storeFailed, lib>>
  /\ next' = next + 1
  /\ UNCHANGED <<fixed, phase, status, map, results, fold, foundIdx>>

\* The slot the single result of the other strategies is in.
SingleSlot == IF gather = "first" THEN foundIdx ELSE 0

\* reduce, tree-reduce and first: one result, as item 0.
StoreSingle ==
  /\ At("store")
  /\ gather \in {"reduce", "tree-reduce", "first"}
  /\ next < NItems
  /\ IF SingleSlot \in Items /\ resultOk[SingleSlot]
       THEN Store(0, resultData[SingleSlot])
       ELSE UNCHANGED <<stored, storeFailed, lib>>
  /\ next' = NItems
  /\ UNCHANGED <<fixed, phase, status, map, results, fold, foundIdx>>

HaltOnStoreFailure ==
  /\ At("store")
  /\ next = NItems
  /\ storeFailed
  /\ phase' = "ended"
  /\ status' = "halted"
  /\ UNCHANGED <<fixed, next, map, results, fold, foundIdx, storeFailed, stored, lib>>

\* Mutant: a store failure does not keep main from a normal end.
FinalShutdown_Regardless ==
  /\ At("store")
  /\ next = NItems
  /\ Return
  /\ UNCHANGED <<fixed, next, map, results, fold, foundIdx, storeFailed, stored>>

FinalShutdown ==
  /\ At("store")
  /\ next = NItems
  /\ ~storeFailed
  /\ Return
  /\ UNCHANGED <<fixed, next, map, results, fold, foundIdx, storeFailed, stored>>

Ended ==
  /\ status # "running"
  /\ UNCHANGED vars

Step ==
  \/ InitSucceeds \/ InitFails \/ SomeItems \/ NothingToDo
  \/ LoadItem \/ LoadFails \/ EndLoad
  \/ ProcessItem \/ EndDistribution \/ DistributionHalts
  \/ GatherInPlace \/ GatherTree \/ GatherTreeUnsound
  \/ FoldSkip \/ FoldSeed \/ FoldStep \/ FoldFails \/ EndFold
  \/ ScanNext \/ ScanHit \/ ScanEnds
  \/ StoreNext \/ StoreSingle \/ HaltOnStoreFailure \/ FinalShutdown

Next == Step \/ Ended

SafeSpec == Init /\ [][Next]_vars

\* main runs on: the user's functions return and Distribution terminates.
Spec == SafeSpec /\ WF_vars(Step)

-----------------------------------------------------------------------------
(* Properties.                                                             *)

LoadedItems == {CInt(i) : i \in Items}

Contents == LoadedItems \cup {Unknown}

Buffers == SeqOf(Contents, NItems)

\* Types of main's state.
TypeOK ==
  /\ program \in Manifests
  /\ args \in Arguments
  /\ numLocales \in LocaleCounts
  /\ followed \in BOOLEAN
  /\ matching \subseteq Items
  /\ phase \in {"init", "count", "load", "distribute", "gather", "store", "ended"}
  /\ status \in {"running", "exit0", "halted"}
  /\ next \in 0 .. NItems
  /\ outcome \in [Items -> Map!Outcomes]
  /\ joined \in BOOLEAN
  /\ resultData \in [Items -> Buffers]
  /\ resultOk \in [Items -> BOOLEAN]
  /\ accum \in Buffers
  /\ haveAccum \in BOOLEAN
  /\ foundIdx \in -1 .. NItems - 1
  /\ storeFailed \in BOOLEAN
  /\ \A k \in DOMAIN stored : stored[k] \in LoadedItems \X Buffers
  /\ library \in {"down", "up", "shut"}
  /\ usedWhen \subseteq {"down", "up", "shut"}
  /\ reduceFailed \in BOOLEAN

\* On every path the user's functions are called only between a successful
\* c_init and c_shutdown, c_shutdown at most once, and a normal exit does not
\* leave an initialised library behind.
LibraryBracketed ==
  /\ usedWhen \subseteq {"up"}
  /\ status = "exit0" => library # "up"

\* main came to a normal end after the distribution phase.
Completed == status = "exit0" /\ joined

\* merge and stream: exit status 0 means that every successful result was
\* stored under its own index, once and in order, and nothing else was: up to
\* the last index that is a C int, and where no two tasks share an item.
MergeStoresEverySuccess ==
  Completed /\ gather \in {"merge", "stream"} /\ NItems <= CIntBound /\ SlotsReliable =>
    \E order \in SetToSeqs(Succeeded) :
      /\ IsSorted(order, <)
      /\ stored = [k \in DOMAIN order |-> <<order[k], <<order[k]>>>>]

\* The gather strategy combines the slots it should.
ReductionSound == SlotsReliable /\ (gather = "tree-reduce" => TreeSound)

\* reduce and tree-reduce store one result at most.  On locales they are sound
\* on it is the reduction of all successful results, and it is stored unless
\* c_reduce failed; reduce stores nothing after such a failure, and of the
\* result tree-reduce then stores nothing is promised.
ReduceAllOrNothing ==
  gather \in {"reduce", "tree-reduce"} =>
    /\ Len(stored) <= 1
    /\ ReductionSound /\ (gather = "reduce" \/ ~reduceFailed) =>
         \A k \in DOMAIN stored : \E order \in SetToSeqs(Succeeded) :
           stored[k] = <<0, AsLoaded(order)>>
    /\ ReductionSound /\ Completed /\ Succeeded # {} /\ ~reduceFailed => Len(stored) = 1

Hits == Succeeded \cap matching

\* first: exit status 0 means that the matching result with the lowest index
\* was stored as item 0, if any result matches, where no two tasks share an
\* item.
FirstStoresLowestMatch ==
  Completed /\ gather = "first" /\ SlotsReliable =>
    \/ Hits = {} /\ stored = <<>>
    \/ \E i \in Hits :
         /\ \A j \in Hits : i <= j
         /\ stored = <<<<0, <<i>>>>>>

\* A program of a manifest that validates only halts where it could not store
\* a result; where its command line took the grain of its loops away, and then
\* it has not processed a single item; or where the locales do not divide the
\* chunks of its chunk strategy evenly.
HaltsForAReason ==
  status = "halted" =>
    \/ storeFailed
    \/ /\ "grainSize" \in DOMAIN args
       /\ \A i \in Items : outcome[i] = "pending"
    \/ /\ program.partition = "chunk"
       /\ Config.grainSize # 0
       /\ NumChunks(NItems, Config.grainSize) % numLocales # 0

\* main ends, with one status or the other.
Termination == <>(status # "running")
=============================================================================
