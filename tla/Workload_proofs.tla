--------------------------- MODULE Workload_proofs ---------------------------
(***************************************************************************)
(* What a program's main() promises for every manifest that validates,     *)
(* every command line, every number of items and every answer of the       *)
(* user's library.                                                         *)
(***************************************************************************)
EXTENDS Workload, Partitioning_proofs, FiniteSetTheorems, SequenceTheorems

Phases == {"init", "count", "load", "distribute", "gather", "store", "ended"}

-----------------------------------------------------------------------------
(* The library's lifecycle and the exit status.                            *)

\* The phase says which state the library is in: up from c_init to the
\* shutdown that every return after it makes.
Lifecycle ==
  /\ phase \in Phases
  /\ phase = "init" => library = "down"
  /\ phase \in Phases \ {"init", "ended"} => library = "up"
  /\ status = "exit0" => library # "up"
  /\ status # "running" => phase = "ended"
  /\ usedWhen \subseteq {"up"}

LEMMA InitLifecycle == Init => Lifecycle
BY DEF Init, Lifecycle, Phases

LEMMA StepLifecycle == Lifecycle /\ [Next]_vars => Lifecycle'
<1> SUFFICES ASSUME Lifecycle, [Next]_vars PROVE Lifecycle'
  OBVIOUS
<1> USE DEF Lifecycle, Phases, At, lib, CallLibrary, ShutDown, Return
<1>1. CASE InitSucceeds \/ InitFails \/ SomeItems \/ NothingToDo
  BY <1>1 DEF InitSucceeds, InitFails, SomeItems, NothingToDo
<1>2. CASE LoadItem \/ LoadFails \/ EndLoad
  BY <1>2 DEF LoadItem, LoadFails, EndLoad
<1>3. CASE ProcessItem \/ EndDistribution \/ DistributionHalts
  BY <1>3 DEF ProcessItem, EndDistribution, DistributionHalts, Distributing
<1>4. CASE GatherInPlace \/ GatherTree \/ GatherTreeUnsound
  BY <1>4 DEF GatherInPlace, GatherTree, GatherTreeUnsound, Gathering, ToStore
<1>5. CASE FoldSkip \/ FoldSeed \/ FoldStep \/ FoldFails \/ EndFold
  BY <1>5 DEF FoldSkip, FoldSeed, FoldStep, FoldFails, EndFold, CanReduce, Gathering, ToStore
<1>6. CASE ScanNext \/ ScanHit \/ ScanEnds
  BY <1>6 DEF ScanNext, ScanHit, ScanEnds, Gathering, ToStore
<1>7. CASE StoreNext \/ StoreSingle \/ HaltOnStoreFailure \/ FinalShutdown
  BY <1>7 DEF StoreNext, StoreSingle, HaltOnStoreFailure, FinalShutdown, Store
<1>8. CASE UNCHANGED vars
  BY <1>8 DEF vars
<1> QED
  BY <1>1, <1>2, <1>3, <1>4, <1>5, <1>6, <1>7, <1>8 DEF Next, Step, Ended

(* The user's functions are only called between a successful c_init and    *)
(* the one c_shutdown, on every path through main.                         *)
THEOREM LibraryUseBracketed == Spec => []LibraryBracketed
<1>1. Lifecycle => LibraryBracketed
  BY DEF Lifecycle, LibraryBracketed
<1> QED
  BY <1>1, InitLifecycle, StepLifecycle, PTL DEF Spec, SafeSpec

-----------------------------------------------------------------------------
(* Buffers: the orders that items can be combined in.                      *)

LEMMA ItemsFinite ==
  /\ 0 \in Items
  /\ IsFiniteSet(Items)
  /\ Cardinality(Items) = NItems
  /\ \A S \in SUBSET Items : IsFiniteSet(S) /\ Cardinality(S) \in 0 .. NItems
<1>1. IsFiniteSet(Items) /\ Cardinality(Items) = NItems
  BY FS_Interval, WorkloadItemsAssumption DEF Items
<1>2. ASSUME NEW S \in SUBSET Items
      PROVE  IsFiniteSet(S) /\ Cardinality(S) \in 0 .. NItems
  BY <1>1, FS_Subset, FS_CardinalityType, WorkloadItemsAssumption
<1> QED
  BY <1>1, <1>2, WorkloadItemsAssumption DEF Items

LEMMA BoundedSequences ==
  ASSUME NEW S, NEW n \in Nat, NEW seq
  PROVE  seq \in SeqOf(S, n) <=> seq \in Seq(S) /\ Len(seq) <= n
<1>1. ASSUME seq \in SeqOf(S, n)
      PROVE  seq \in Seq(S) /\ Len(seq) <= n
  <2>1. PICK m \in 0 .. n : seq \in [1 .. m -> S]
    BY <1>1 DEF SeqOf
  <2> QED
    BY <2>1
<1>2. ASSUME seq \in Seq(S), Len(seq) <= n
      PROVE  seq \in SeqOf(S, n)
  <2>1. Len(seq) \in 0 .. n /\ seq \in [1 .. Len(seq) -> S]
    BY <1>2, LenProperties
  <2> QED
    BY <2>1 DEF SeqOf
<1> QED
  BY <1>1, <1>2

(* An order of a finite set is a sequence of its length without repeats.   *)
LEMMA OrderOf ==
  ASSUME NEW S, IsFiniteSet(S), NEW order
  PROVE  order \in SetToSeqs(S) <=>
           /\ order \in Seq(S)
           /\ Len(order) = Cardinality(S)
           /\ \A j, k \in 1 .. Len(order) : j # k => order[j] # order[k]
<1> DEFINE n == Cardinality(S)
<1>1. n \in Nat
  BY FS_CardinalityType
<1>2. order \in [1 .. n -> S] <=> order \in Seq(S) /\ Len(order) = n
  <2> HIDE DEF n
  <2>1. ASSUME order \in [1 .. n -> S] PROVE order \in Seq(S) /\ Len(order) = n
    BY <1>1, <2>1
  <2>2. ASSUME order \in Seq(S), Len(order) = n PROVE order \in [1 .. n -> S]
    BY <1>1, <2>2, LenProperties
  <2> QED
    BY <2>1, <2>2
<1> QED
  BY <1>1, <1>2 DEF SetToSeqs

LEMMA NoneOrdered == <<>> \in SetToSeqs({})
<1>1. IsFiniteSet({}) /\ Cardinality({}) = 0
  BY FS_EmptySet
<1>2. /\ <<>> \in Seq({}) /\ Len(<<>>) = 0
      /\ \A j, k \in 1 .. Len(<<>>) : j # k => <<>>[j] # <<>>[k]
  BY EmptySeq
<1> QED
  BY ONLY <1>1, <1>2, OrderOf

LEMMA OneMoreOrdered ==
  ASSUME NEW S, IsFiniteSet(S), NEW order \in SetToSeqs(S), NEW x, x \notin S
  PROVE  Append(order, x) \in SetToSeqs(S \cup {x})
<1> DEFINE T == S \cup {x}
           longer == Append(order, x)
<1>1. /\ order \in Seq(S) /\ Len(order) = Cardinality(S)
      /\ \A j, k \in 1 .. Len(order) : j # k => order[j] # order[k]
  BY OrderOf
<1>2. IsFiniteSet(T) /\ Cardinality(T) = Cardinality(S) + 1
  BY FS_AddElement
<1>3. order \in Seq(T)
  BY <1>1, SeqMonotonic
<1>4. /\ longer \in Seq(T) /\ Len(longer) = Len(order) + 1
      /\ \A k \in 1 .. Len(order) : longer[k] = order[k]
      /\ longer[Len(order) + 1] = x
  BY <1>3, AppendProperties
<1>5. Len(order) \in Nat /\ \A k \in 1 .. Len(order) : order[k] \in S
  BY <1>1, LenProperties, ElementOfSeq
<1>6. ASSUME NEW j \in 1 .. Len(longer), NEW k \in 1 .. Len(longer), j # k
      PROVE  longer[j] # longer[k]
  BY <1>1, <1>4, <1>5, <1>6
<1> HIDE DEF T, longer
<1>7. longer \in SetToSeqs(T)
  BY <1>1, <1>2, <1>4, <1>6, OrderOf
<1> QED
  BY <1>7 DEF T, longer

(* The order in which items are combined is the order of what was loaded.  *)
LEMMA LoadedInOrder ==
  ASSUME NEW order \in Seq(Items)
  PROVE  /\ AsLoaded(order) \in Seq(Contents)
         /\ Len(AsLoaded(order)) = Len(order)
         /\ \A i \in Items : AsLoaded(Append(order, i)) = AsLoaded(order) \o AsLoaded(<<i>>)
<1>1. Len(order) \in Nat /\ DOMAIN order = 1 .. Len(order)
  BY LenProperties
<1>2. \A k \in 1 .. Len(order) : order[k] \in Items
  BY ElementOfSeq
<1>3. AsLoaded(order) \in [1 .. Len(order) -> LoadedItems]
  BY <1>1, <1>2 DEF AsLoaded, LoadedItems
<1>4. AsLoaded(order) \in Seq(LoadedItems) /\ Len(AsLoaded(order)) = Len(order)
  BY <1>1, <1>3
<1>5. ASSUME NEW i \in Items
      PROVE  AsLoaded(Append(order, i)) = AsLoaded(order) \o AsLoaded(<<i>>)
  <2> DEFINE a == AsLoaded(Append(order, i))
             b == AsLoaded(order) \o AsLoaded(<<i>>)
             n == Len(order)
  <2>1. AsLoaded(<<i>>) = <<CInt(i)>> /\ CInt(i) \in LoadedItems
    BY DEF AsLoaded, LoadedItems
  <2>2. Append(order, i) \in [1 .. n + 1 -> Items]
    BY AppendProperties, LenProperties
  <2>3. a \in Seq(LoadedItems) /\ Len(a) = n + 1
    <3>1. a \in [1 .. n + 1 -> LoadedItems]
      BY <2>2 DEF AsLoaded, LoadedItems
    <3> QED
      BY <1>1, <3>1
  <2>4. b \in Seq(LoadedItems) /\ Len(b) = n + 1
    <3> DEFINE s == AsLoaded(order)
               t == AsLoaded(<<i>>)
    <3>1. t \in Seq(LoadedItems) /\ Len(t) = 1
      BY <2>1
    <3>2. s \in Seq(LoadedItems) /\ Len(s) = n
      BY <1>4
    <3> HIDE DEF s, t, n
    <3>3. s \o t \in Seq(LoadedItems)
      BY <3>1, <3>2
    <3>4. Len(s \o t) = Len(s) + Len(t)
      BY <3>1, <3>2, ConcatProperties
    <3> QED
      BY <3>1, <3>2, <3>3, <3>4 DEF s, t
  <2>5. ASSUME NEW k \in 1 .. n + 1 PROVE a[k] = b[k]
    <3>1. a[k] = CInt(Append(order, i)[k])
      BY <2>2 DEF AsLoaded
    <3>2. CASE k = n + 1
      <4>1. b[k] = CInt(i)
        BY <1>1, <1>4, <2>1, <3>2
      <4> QED
        BY <3>1, <3>2, <4>1, AppendProperties
    <3>3. CASE k \in 1 .. n
      <4>1. b[k] = AsLoaded(order)[k]
        BY <1>1, <1>4, <2>1, <3>3
      <4>2. Append(order, i)[k] = order[k]
        BY <3>3, AppendProperties
      <4> QED
        BY <1>1, <3>1, <3>3, <4>1, <4>2 DEF AsLoaded
    <3> HIDE DEF a, b
    <3> QED
      BY <1>1, <3>2, <3>3
  <2> HIDE DEF a, b, n
  <2>6. a = b
    BY <2>3, <2>4, <2>5, SeqEqual
  <2> QED
    BY <2>6 DEF a, b
<1>6. AsLoaded(order) \in Seq(Contents)
  BY <1>4, SeqMonotonic DEF Contents
<1> QED
  BY <1>4, <1>5, <1>6

-----------------------------------------------------------------------------
(* Types.                                                                  *)

\* Before the gather.
Early == {"init", "count", "load", "distribute"}

\* What is folded never outgrows a buffer: it holds no more results than the
\* loop has passed slots.
Sizes ==
  /\ phase \in Early => accum = NoOutput
  /\ phase = "gather" => /\ Len(accum) <= next
                         /\ \A i \in Items : Len(resultData[i]) \in {0, 1}

TypeInv ==
  /\ TypeOK
  /\ Sizes
  /\ stored \in Seq(LoadedItems \X Buffers)

LEMMA BufferFacts ==
  /\ \A b : b \in Buffers <=> b \in Seq(Contents) /\ Len(b) <= NItems
  /\ NoOutput \in Buffers /\ Len(NoOutput) = 0
  /\ \A i \in Items : AsLoaded(<<i>>) \in Buffers /\ Len(AsLoaded(<<i>>)) = 1
  /\ <<Unknown>> \in Buffers /\ Len(<<Unknown>>) = 1
  /\ 0 \in LoadedItems /\ \A i \in Items : CInt(i) \in LoadedItems
<1>1. \A b : b \in Buffers <=> b \in Seq(Contents) /\ Len(b) <= NItems
  BY BoundedSequences, WorkloadItemsAssumption DEF Buffers
<1>2. NoOutput \in Buffers /\ Len(NoOutput) = 0
  <2>1. <<>> \in Seq(Contents) /\ Len(<<>>) = 0
    BY EmptySeq
  <2>2. 0 <= NItems
    BY WorkloadItemsAssumption
  <2> QED
    BY <1>1, <2>1, <2>2 DEF NoOutput
<1>3. ASSUME NEW i \in Items
      PROVE  AsLoaded(<<i>>) \in Buffers /\ Len(AsLoaded(<<i>>)) = 1
  <2>1. <<i>> \in Seq(Items) /\ Len(<<i>>) = 1 /\ 1 <= NItems
    BY WorkloadItemsAssumption
  <2>2. AsLoaded(<<i>>) \in Seq(Contents) /\ Len(AsLoaded(<<i>>)) = 1
    BY <2>1, LoadedInOrder
  <2> QED
    BY <1>1, <2>1, <2>2
<1>4. CInt(0) = 0
  <2> DEFINE w == 2 * CIntBound
  <2>1. w \in Nat \ {0} /\ CIntBound \in 0 .. w - 1 /\ CIntBound = 0 * w + CIntBound
    BY CIntBoundAssumption
  <2> HIDE DEF w
  <2>2. CIntBound % w = CIntBound
    BY <2>1, DivModUnique
  <2> QED
    BY <2>2, CIntBoundAssumption DEF CInt, w
<1>5. <<Unknown>> \in Buffers /\ Len(<<Unknown>>) = 1
  <2>1. <<Unknown>> \in Seq(Contents) /\ Len(<<Unknown>>) = 1 /\ 1 <= NItems
    BY WorkloadItemsAssumption DEF Contents
  <2> QED
    BY <1>1, <2>1
<1> QED
  BY <1>1, <1>2, <1>3, <1>4, <1>5, ItemsFinite DEF LoadedItems

LEMMA SlotFits ==
  ASSUME NEW i \in Items, NEW slot,
         slot = AsLoaded(<<i>>) \/ slot = NoOutput \/ slot = <<Unknown>>
  PROVE  slot \in Buffers /\ Len(slot) \in {0, 1}
BY BufferFacts, Zenon

LEMMA InitTypeInv == Init => TypeInv
<1> SUFFICES ASSUME Init PROVE TypeInv
  OBVIOUS
<1>1. outcome \in [Items -> Map!Outcomes] /\ joined \in BOOLEAN
  BY DEF Init, Map!Init, Map!Outcomes
<1>2. stored \in Seq(LoadedItems \X Buffers)
  BY EmptySeq DEF Init
<1>3. \A k \in DOMAIN stored : stored[k] \in LoadedItems \X Buffers
  BY DEF Init
<1>4. resultData \in [Items -> Buffers] /\ accum \in Buffers
  BY BufferFacts DEF Init
<1>5. matching \subseteq Items /\ next \in 0 .. NItems /\ foundIdx \in -1 .. NItems - 1
  BY WorkloadItemsAssumption DEF Init
<1>6. TypeOK
  BY <1>1, <1>3, <1>4, <1>5 DEF Init, TypeOK
<1> QED
  BY <1>2, <1>6 DEF Init, TypeInv, Sizes, Early

(* Before the gather only the loop index, the library and, in the          *)
(* distribution phase, an item's outcome change.                           *)
LEMMA EarlyFacts ==
  ASSUME TypeOK,
         \/ InitSucceeds \/ InitFails \/ SomeItems \/ NothingToDo
         \/ LoadItem \/ LoadFails \/ EndLoad \/ ProcessItem \/ DistributionHalts
  PROVE  /\ UNCHANGED <<fixed, joined, results, fold, foundIdx, storeFailed, stored>>
         /\ phase \in Early /\ phase' \in Early \cup {"ended"}
         /\ next' \in 0 .. NItems
         /\ outcome' \in [Items -> Map!Outcomes]
         /\ status = "running" /\ status' \in {"running", "exit0", "halted"}
         /\ status' # "running" => phase' = "ended"
         /\ usedWhen' \in {usedWhen, usedWhen \cup {library}}
         /\ library' \in {library, "up", "shut"}
<1>1. CASE ProcessItem
  <2>1. PICK i \in Items : Map!Decide(i)
    BY <1>1 DEF ProcessItem
  <2>2. outcome' \in [Items -> Map!Outcomes] /\ joined' = joined
    BY <2>1 DEF TypeOK, Map!Decide, Map!Outcomes
  <2> QED
    BY <1>1, <2>2 DEF ProcessItem, Distributing, At, Early, CallLibrary, lib, TypeOK
<1> USE DEF At, Early, Return, ShutDown, CallLibrary, lib, map
<1>2. CASE InitSucceeds \/ InitFails \/ SomeItems \/ NothingToDo
  BY <1>2 DEF InitSucceeds, InitFails, SomeItems, NothingToDo, TypeOK
<1>3. CASE LoadItem
  BY <1>3, WorkloadItemsAssumption DEF LoadItem, TypeOK
<1>4. CASE LoadFails \/ EndLoad \/ DistributionHalts
  BY <1>4 DEF LoadFails, EndLoad, DistributionHalts, TypeOK
<1> QED
  BY <1>1, <1>2, <1>3, <1>4

LEMMA EarlyKeepsTypes ==
  ASSUME TypeInv,
         \/ InitSucceeds \/ InitFails \/ SomeItems \/ NothingToDo
         \/ LoadItem \/ LoadFails \/ EndLoad \/ ProcessItem \/ DistributionHalts
  PROVE  TypeInv'
<1>1. TypeOK /\ Sizes /\ stored \in Seq(LoadedItems \X Buffers)
  BY DEF TypeInv
<1>2. /\ UNCHANGED <<fixed, joined, results, fold, foundIdx, storeFailed, stored>>
      /\ phase \in Early /\ phase' \in Early \cup {"ended"}
      /\ next' \in 0 .. NItems
      /\ outcome' \in [Items -> Map!Outcomes]
      /\ status' \in {"running", "exit0", "halted"}
      /\ usedWhen' \in {usedWhen, usedWhen \cup {library}}
      /\ library' \in {library, "up", "shut"}
  BY <1>1, EarlyFacts
<1>3. TypeOK'
  BY <1>1, <1>2 DEF TypeOK, fixed, results, fold, Early
<1>4. Sizes'
  BY <1>1, <1>2 DEF Sizes, Early, results, fold
<1> QED
  BY <1>1, <1>2, <1>3, <1>4 DEF TypeInv

LEMMA EndDistributionKeepsTypes ==
  ASSUME TypeInv, EndDistribution
  PROVE  TypeInv'
<1>1. TypeOK /\ Sizes /\ stored \in Seq(LoadedItems \X Buffers) /\ phase = "distribute"
  BY DEF TypeInv, EndDistribution, Distributing, At
<1>2. /\ UNCHANGED <<fixed, status, fold, foundIdx, storeFailed, stored, outcome, library>>
      /\ phase' = "gather" /\ next' = 0 /\ joined' = TRUE
      /\ usedWhen' \in {usedWhen, usedWhen \cup {library}}
  BY DEF EndDistribution, Map!Join, CallLibrary, lib
<1>3. /\ resultOk' \in [Items -> BOOLEAN]
      /\ resultData' \in [Items -> Buffers]
      /\ \A i \in Items : Len(resultData'[i]) \in {0, 1}
  <2>1. PICK torn \in SUBSET Succeeded : resultData' = [i \in Items |-> SlotOf(i, torn)]
    BY DEF EndDistribution
  <2>2. ASSUME NEW i \in Items
        PROVE  resultData'[i] \in Buffers /\ Len(resultData'[i]) \in {0, 1}
    <3>1. \/ resultData'[i] = AsLoaded(<<i>>) \/ resultData'[i] = NoOutput
          \/ resultData'[i] = <<Unknown>>
      BY <2>1 DEF SlotOf
    <3> QED
      BY <3>1, SlotFits, Zenon
  <2>3. resultOk' \in [Items -> BOOLEAN]
    BY DEF EndDistribution
  <2>4. resultData' \in [Items -> Buffers]
    BY <2>1, <2>2, Zenon
  <2> QED
    BY <2>2, <2>3, <2>4, Zenon
<1>4. TypeOK'
  <2>1. next' \in 0 .. NItems /\ joined' \in BOOLEAN
    BY <1>2, WorkloadItemsAssumption
  <2> QED
    BY <1>1, <1>2, <1>3, <2>1 DEF TypeOK, fixed, fold
<1>5. Sizes'
  BY <1>1, <1>2, <1>3, BufferFacts DEF Sizes, Early, fold
<1> QED
  BY <1>1, <1>2, <1>4, <1>5 DEF TypeInv

(* What the gather changes: a buffer goes where a buffer was.              *)
LEMMA GatherKeepsTypes ==
  ASSUME TypeInv,
         \/ GatherInPlace \/ GatherTree \/ GatherTreeUnsound \/ FoldSkip \/ FoldSeed \/ FoldStep
         \/ FoldFails \/ EndFold \/ ScanNext \/ ScanHit \/ ScanEnds
  PROVE  TypeInv'
<1>1. TypeOK /\ Sizes /\ stored \in Seq(LoadedItems \X Buffers) /\ phase = "gather"
  BY DEF TypeInv, GatherInPlace, GatherTree, GatherTreeUnsound, FoldSkip, FoldSeed, FoldStep, FoldFails,
         EndFold, ScanNext, ScanHit, ScanEnds, CanReduce, Gathering, At
<1>2. next \in Items <=> next < NItems
  BY <1>1, WorkloadItemsAssumption DEF TypeOK, Items
<1>3. /\ UNCHANGED <<fixed, status, map, storeFailed, stored, library>>
      /\ phase' \in {"gather", "store"} /\ next' \in 0 .. NItems
      /\ usedWhen' \in {usedWhen, usedWhen \cup {library}}
  <2> USE <1>1, WorkloadItemsAssumption DEF ToStore, CallLibrary, lib, TypeOK
  <2>1. CASE GatherInPlace \/ GatherTree \/ GatherTreeUnsound \/ EndFold \/ ScanHit \/ ScanEnds
    BY <2>1 DEF GatherInPlace, GatherTree, GatherTreeUnsound, EndFold, ScanHit, ScanEnds
  <2>2. CASE FoldSkip \/ FoldSeed \/ FoldStep \/ FoldFails \/ ScanNext
    BY <2>2 DEF FoldSkip, FoldSeed, FoldStep, FoldFails, ScanNext, CanReduce
  <2> QED
    BY <2>1, <2>2
<1>4. /\ resultOk' \in [Items -> BOOLEAN] /\ haveAccum' \in BOOLEAN
      /\ reduceFailed' \in BOOLEAN /\ foundIdx' \in -1 .. NItems - 1
  <2>1. CASE GatherInPlace \/ FoldSkip \/ ScanNext \/ ScanEnds
    BY <1>1, <2>1 DEF GatherInPlace, FoldSkip, ScanNext, ScanEnds, TypeOK, results, fold
  <2>2. CASE FoldSeed \/ FoldStep \/ FoldFails \/ EndFold
    BY <1>1, <2>2 DEF FoldSeed, FoldStep, FoldFails, EndFold, TypeOK, results, fold
  <2>3. CASE GatherTree
    BY <1>1, <2>3 DEF GatherTree, TypeOK
  <2>4. CASE GatherTreeUnsound
    BY <1>1, <2>4 DEF GatherTreeUnsound, TypeOK
  <2>5. CASE ScanHit
    BY <1>1, <2>5, WorkloadItemsAssumption DEF ScanHit, TypeOK, results, fold
  <2> QED
    BY <2>1, <2>2, <2>3, <2>4, <2>5
<1>5. /\ resultData' \in [Items -> Buffers] /\ accum' \in Buffers
      /\ phase' = "gather" => /\ Len(accum') <= next'
                              /\ \A i \in Items : Len(resultData'[i]) \in {0, 1}
  <2>1. /\ resultData \in [Items -> Buffers] /\ accum \in Buffers
        /\ Len(accum) \in Nat /\ Len(accum) <= next /\ next \in 0 .. NItems
        /\ \A i \in Items : Len(resultData[i]) \in {0, 1}
    BY <1>1, BufferFacts, LenProperties DEF Sizes, TypeOK
  <2>2. CASE GatherInPlace \/ FoldSkip \/ FoldFails \/ ScanNext \/ ScanHit \/ ScanEnds
    <3>1. UNCHANGED <<resultData, accum>> /\ (phase' = "gather" => next <= next')
      BY <2>1, <2>2, WorkloadItemsAssumption
         DEF GatherInPlace, FoldSkip, FoldFails, ScanNext, ScanHit, ScanEnds, results,
             fold, ToStore, CanReduce
    <3> QED
      BY <1>3, <2>1, <3>1, WorkloadItemsAssumption
  <2>3. CASE FoldSeed
    <3>1. accum' = resultData[next] /\ next' = next + 1 /\ next \in Items
          /\ UNCHANGED resultData
      BY <1>2, <2>3 DEF FoldSeed, results
    <3>2. accum' \in Buffers /\ Len(accum') \in {0, 1}
      BY <2>1, <3>1
    <3>3. \A n \in {0, 1} : n <= next'
      BY <2>1, <3>1
    <3> QED
      BY <2>1, <3>1, <3>2, <3>3
  <2>4. CASE FoldStep
    <3> DEFINE slot == resultData[next]
    <3>1. accum' = accum \o slot /\ next' = next + 1 /\ next \in Items
          /\ UNCHANGED resultData
      BY <1>2, <2>4 DEF FoldStep, CanReduce, results
    <3>2. slot \in Seq(Contents) /\ accum \in Seq(Contents) /\ Len(slot) \in {0, 1}
      BY <2>1, <3>1, BufferFacts
    <3> HIDE DEF slot
    <3>3. accum' \in Seq(Contents)
      BY <3>1, <3>2
    <3>4. Len(accum') = Len(accum) + Len(slot) /\ Len(slot) \in Nat
      BY <3>1, <3>2, ConcatProperties, LenProperties
    <3>5. Len(accum') <= next' /\ Len(accum') <= NItems
      BY <1>3, <2>1, <3>1, <3>2, <3>4, WorkloadItemsAssumption
    <3> QED
      BY <2>1, <3>1, <3>3, <3>5, BufferFacts
  <2>5. CASE EndFold
    <3>1. accum' = accum /\ resultData' = [resultData EXCEPT ![0] = accum]
          /\ phase' = "store"
      BY <2>5 DEF EndFold, fold, ToStore
    <3> QED
      BY <2>1, <3>1
  <2>6. CASE GatherTree
    <3>1. PICK kept \in SUBSET Succeeded : \E order \in SetToSeqs(kept) :
            resultData' = [resultData EXCEPT ![0] = AsLoaded(order)]
      BY <2>6 DEF GatherTree
    <3>2. PICK order \in SetToSeqs(kept) :
          resultData' = [resultData EXCEPT ![0] = AsLoaded(order)]
      BY <3>1
    <3>3. kept \subseteq Items
      BY DEF Succeeded
    <3>4. IsFiniteSet(kept) /\ Cardinality(kept) \in 0 .. NItems
      BY <3>3, ItemsFinite
    <3>5. order \in Seq(kept) /\ Len(order) <= NItems
      BY <3>4, OrderOf
    <3>6. order \in Seq(Items)
      BY <3>3, <3>5, SeqMonotonic
    <3>7. AsLoaded(order) \in Buffers
      BY <3>5, <3>6, LoadedInOrder, BufferFacts
    <3>8. accum' = accum /\ phase' = "store"
      BY <2>6 DEF GatherTree, ToStore
    <3> QED
      BY <2>1, <3>7, <3>8, <3>2
  <2>7. CASE GatherTreeUnsound
    <3>1. /\ resultData' = [resultData EXCEPT ![0] = <<Unknown>>]
          /\ accum' = accum /\ phase' = "store"
      BY <2>7 DEF GatherTreeUnsound, ToStore
    <3> QED
      BY <2>1, <3>1, BufferFacts
  <2> QED
    BY <2>2, <2>3, <2>4, <2>5, <2>6, <2>7
<1>6. TypeOK'
  BY <1>1, <1>3, <1>4, <1>5 DEF TypeOK, fixed, map
<1>7. Sizes'
  BY <1>3, <1>5 DEF Sizes, Early
<1> QED
  BY <1>1, <1>3, <1>6, <1>7 DEF TypeInv

LEMMA StoreKeepsTypes ==
  ASSUME TypeInv,
         StoreNext \/ StoreSingle \/ HaltOnStoreFailure \/ FinalShutdown
  PROVE  TypeInv'
<1>1. TypeOK /\ stored \in Seq(LoadedItems \X Buffers) /\ phase = "store"
  BY DEF TypeInv, StoreNext, StoreSingle, HaltOnStoreFailure, FinalShutdown, At
<1>2. /\ UNCHANGED <<fixed, map, results, fold, foundIdx>>
      /\ phase' \in {"store", "ended"} /\ next' \in 0 .. NItems
      /\ status' \in {"running", "exit0", "halted"}
      /\ usedWhen' \in {usedWhen, usedWhen \cup {library}}
      /\ library' \in {library, "shut"}
      /\ storeFailed' \in BOOLEAN
  <2> USE DEF At, CallLibrary, lib
  <2>1. next \in 0 .. NItems /\ NItems \in Nat /\ storeFailed \in BOOLEAN
    BY <1>1, WorkloadItemsAssumption DEF TypeOK
  <2>2. CASE StoreNext
    <3>1. /\ UNCHANGED <<fixed, phase, status, map, results, fold, foundIdx, library>>
          /\ phase = "store" /\ status = "running"
          /\ next' \in 0 .. NItems
      BY <2>1, <2>2 DEF StoreNext, Store
    <3>2. usedWhen' \in {usedWhen, usedWhen \cup {library}}
      BY <2>1, <2>2 DEF StoreNext, Store
    <3>3. storeFailed' \in BOOLEAN
      BY <2>1, <2>2 DEF StoreNext, Store
    <3> QED
      BY <3>1, <3>2, <3>3
  <2>3. CASE StoreSingle
    <3>1. /\ UNCHANGED <<fixed, phase, status, map, results, fold, foundIdx, library>>
          /\ phase = "store" /\ status = "running"
          /\ next' \in 0 .. NItems
      BY <2>1, <2>3 DEF StoreSingle, Store
    <3>2. usedWhen' \in {usedWhen, usedWhen \cup {library}}
      BY <2>1, <2>3 DEF StoreSingle, Store
    <3>3. storeFailed' \in BOOLEAN
      BY <2>1, <2>3 DEF StoreSingle, Store
    <3> QED
      BY <3>1, <3>2, <3>3
  <2>4. CASE HaltOnStoreFailure \/ FinalShutdown
    BY <2>1, <2>4 DEF HaltOnStoreFailure, FinalShutdown, Return, ShutDown
  <2> QED
    BY <2>2, <2>3, <2>4
<1>3. stored' \in Seq(LoadedItems \X Buffers)
  <2>1. ASSUME NEW slot \in Items, NEW index \in LoadedItems,
               stored' = Append(stored, <<index, resultData[slot]>>)
        PROVE  stored' \in Seq(LoadedItems \X Buffers)
    <3>1. <<index, resultData[slot]>> \in LoadedItems \X Buffers
      BY <1>1 DEF TypeOK
    <3> QED
      BY <1>1, <2>1, <3>1, AppendProperties
  <2>2. CASE StoreNext
    <3>1. next \in Items
      BY <1>1, <2>2, WorkloadItemsAssumption DEF StoreNext, TypeOK, Items
    <3>2. CInt(next) \in LoadedItems
      BY <3>1, BufferFacts
    <3>3. \/ stored' = stored
          \/ stored' = Append(stored, <<CInt(next), resultData[next]>>)
      BY <2>2 DEF StoreNext, Store
    <3> QED
      BY <1>1, <2>1, <3>1, <3>2, <3>3
  <2>3. CASE StoreSingle
    <3>1. \/ stored' = stored
          \/ SingleSlot \in Items /\ stored' = Append(stored, <<0, resultData[SingleSlot]>>)
      BY <2>3 DEF StoreSingle, Store
    <3> QED
      BY <1>1, <2>1, <3>1, BufferFacts
  <2>4. CASE HaltOnStoreFailure \/ FinalShutdown
    BY <1>1, <2>4 DEF HaltOnStoreFailure, FinalShutdown
  <2> QED
    BY <2>2, <2>3, <2>4
<1>4. \A k \in DOMAIN stored' : stored'[k] \in LoadedItems \X Buffers
  BY <1>3, LenProperties, ElementOfSeq
<1>5. TypeOK'
  BY <1>1, <1>2, <1>4 DEF TypeOK, fixed, map, results, fold
<1> QED
  BY <1>2, <1>3, <1>5 DEF TypeInv, Sizes, Early

LEMMA StepTypeInv == TypeInv /\ [Next]_vars => TypeInv'
<1> SUFFICES ASSUME TypeInv, [Next]_vars PROVE TypeInv'
  OBVIOUS
<1>1. CASE UNCHANGED vars
  BY <1>1 DEF vars, fixed, map, results, fold, lib, TypeInv, TypeOK, Sizes
<1> QED
  BY <1>1, EarlyKeepsTypes, EndDistributionKeepsTypes, GatherKeepsTypes,
     StoreKeepsTypes DEF Next, Step, Ended

(* main's variables keep their types: no buffer ever holds more results    *)
(* than there are items, and the loop index stays within the items.        *)
THEOREM WorkloadTypes == Spec => []TypeOK
<1>1. TypeInv => TypeOK
  BY DEF TypeInv
<1> QED
  BY <1>1, InitTypeInv, StepTypeInv, PTL DEF Spec, SafeSpec

-----------------------------------------------------------------------------
(* Why a program halts.                                                    *)

\* The loops of the distribution phase cannot run.
NoGrain == NeedsGrain /\ Config.grainSize = 0

AllPending == \A i \in Items : outcome[i] = "pending"

HaltInv ==
  /\ program \in Manifests /\ args \in Arguments /\ numLocales \in LocaleCounts
  /\ Validate(program)
  /\ phase \in {"init", "count", "load"} => AllPending
  /\ NoGrain /\ phase = "distribute" => AllPending
  /\ status = "halted" => storeFailed \/ (NoGrain /\ AllPending) \/ Overruns
  /\ status # "running" => phase = "ended"

(* A grain of zero cannot come from a manifest that validates.             *)
LEMMA GrainFromArguments ==
  ASSUME HaltInv
  PROVE  /\ Config.grainSize \in Nat
         /\ Config.grainSize = 0 => "grainSize" \in DOMAIN args
<1>1. Config.grainSize = IF "grainSize" \in DOMAIN args
                           THEN args["grainSize"]
                           ELSE ConfigConstants(program).grainSize
  BY DEF Config, Overridden, ConfigConstants
<1>2. ConfigConstants(program).grainSize = program.grainSize
  BY DEF ConfigConstants
<1>3. program.grainSize # 0 /\ program \in Manifests /\ args \in Arguments
  BY DEF Validate, HaltInv
<1> QED
  BY <1>1, <1>2, <1>3, GrainsAssumption

(* A loop over chunks that the locales divide evenly stays among them.     *)
LEMMA OverrunsUnevenly ==
  ASSUME HaltInv, Overruns
  PROVE  /\ program.partition = "chunk" /\ Config.grainSize # 0
         /\ NumChunks(NItems, Config.grainSize) % numLocales # 0
<1>1. Config.grainSize \in Nat \ {0} /\ numLocales \in Nat \ {0} /\ NItems \in Nat
  BY GrainFromArguments, LocaleCountsAssumption, WorkloadItemsAssumption
     DEF HaltInv, Overruns
<1>2. \E l \in Indices(numLocales) : NegativeChunk(l, numLocales, NItems, Config.grainSize)
  BY DEF Overruns
<1> QED
  BY <1>1, <1>2, EvenChunksNeverNegative DEF Overruns

LEMMA InitHaltInv == Init => HaltInv
BY DEF Init, HaltInv, AllPending, Map!Init

LEMMA StepHaltInv == HaltInv /\ [Next]_vars => HaltInv'
<1> SUFFICES ASSUME HaltInv, [Next]_vars PROVE HaltInv'
  OBVIOUS
<1>1. /\ UNCHANGED fixed /\ (NoGrain' <=> NoGrain) /\ (Overruns' <=> Overruns)
      /\ Validate(program)'
  <2>1. UNCHANGED fixed
    BY DEF Next, Step, Ended, InitSucceeds, InitFails, SomeItems, NothingToDo,
       LoadItem, LoadFails, EndLoad, ProcessItem, EndDistribution,
       DistributionHalts, GatherInPlace, GatherTree, GatherTreeUnsound, FoldSkip, FoldSeed, FoldStep,
       FoldFails, EndFold, ScanNext, ScanHit, ScanEnds, StoreNext, StoreSingle,
       HaltOnStoreFailure, FinalShutdown, vars
  <2> QED
    BY <2>1 DEF fixed, NoGrain, NeedsGrain, Overruns, Config, HaltInv
<1>0. /\ program' \in Manifests /\ args' \in Arguments
      /\ numLocales' \in LocaleCounts /\ Validate(program')
  BY <1>1 DEF fixed, HaltInv
<1> USE <1>0, <1>1 DEF HaltInv, AllPending, At, map
<1>2. CASE \/ InitSucceeds \/ InitFails \/ SomeItems \/ NothingToDo
           \/ LoadItem \/ LoadFails \/ EndLoad
  BY <1>2 DEF InitSucceeds, InitFails, SomeItems, NothingToDo, LoadItem, LoadFails,
              EndLoad, Return
<1>3. CASE ProcessItem \/ EndDistribution \/ DistributionHalts
  BY <1>3 DEF ProcessItem, EndDistribution, DistributionHalts, Distributing, NoGrain
<1>4. CASE GatherInPlace \/ GatherTree \/ GatherTreeUnsound \/ FoldSkip \/ FoldSeed \/ FoldStep
           \/ FoldFails \/ EndFold \/ ScanNext \/ ScanHit \/ ScanEnds
  BY <1>4 DEF GatherInPlace, GatherTree, GatherTreeUnsound, FoldSkip, FoldSeed, FoldStep, FoldFails,
              EndFold, ScanNext, ScanHit, ScanEnds, CanReduce, Gathering, ToStore
<1>5. CASE StoreNext \/ StoreSingle \/ HaltOnStoreFailure \/ FinalShutdown
  BY <1>5 DEF StoreNext, StoreSingle, HaltOnStoreFailure, FinalShutdown, Return
<1>6. CASE UNCHANGED vars
  BY <1>6 DEF vars
<1> QED
  BY <1>2, <1>3, <1>4, <1>5, <1>6 DEF Next, Step, Ended

(* A program of a valid manifest halts only where a result could not be    *)
(* stored; where its command line set the grain to zero, and then before   *)
(* anything is processed; or where the locales do not divide its chunks    *)
(* evenly.                                                                 *)
THEOREM HaltsExplained == Spec => []HaltsForAReason
<1>1. HaltInv => HaltsForAReason
  BY GrainFromArguments, OverrunsUnevenly DEF HaltInv, HaltsForAReason, NoGrain, AllPending
<1> QED
  BY <1>1, InitHaltInv, StepHaltInv, PTL DEF Spec, SafeSpec

-----------------------------------------------------------------------------
(* What every gather strategy starts from.                                 *)

\* Slot i holds the result of item i, or none.
SlotsFilled ==
  \A i \in Items : /\ resultOk[i] <=> outcome[i] = "ok"
                   /\ resultOk[i] /\ SlotsReliable => resultData[i] = AsLoaded(<<i>>)

Reductions == {"reduce", "tree-reduce"}

\* Nothing is stored before the last phase, and until a reduction replaces
\* slot 0 the slots are what the distribution phase left.
Base ==
  /\ phase \in Early => ~joined /\ ~haveAccum /\ ~reduceFailed
  /\ phase \in Early \cup {"gather"} => foundIdx = -1 /\ stored = <<>> /\ ~storeFailed
  /\ phase = "gather" => SlotsFilled
  /\ phase = "store" /\ gather \notin Reductions => SlotsFilled
  /\ status # "running" => phase = "ended"

BaseInv == TypeInv /\ Base

LEMMA InitBaseInv == Init => BaseInv
<1>1. Init => Base
  BY DEF Init, Base, Early, Map!Init
<1> QED
  BY <1>1, InitTypeInv DEF BaseInv

LEMMA EarlySteps ==
  ASSUME BaseInv,
         \/ InitSucceeds \/ InitFails \/ SomeItems \/ NothingToDo
         \/ LoadItem \/ LoadFails \/ EndLoad \/ ProcessItem \/ DistributionHalts
  PROVE  /\ Base' /\ gather' = gather
         /\ phase' \notin {"gather", "store"}
         /\ stored' = <<>> /\ ~Completed'
<1>1. TypeOK /\ Base
  BY DEF BaseInv, TypeInv
<1>2. /\ UNCHANGED <<fixed, joined, results, fold, foundIdx, storeFailed, stored>>
      /\ phase \in Early /\ phase' \in Early \cup {"ended"}
      /\ status' # "running" => phase' = "ended"
  BY <1>1, EarlyFacts
<1> QED
  BY <1>1, <1>2 DEF Base, Early, Completed, fixed, fold, gather

(* What the slots and the combinations of a program are worth depends on   *)
(* what it is and on where it runs.                                        *)
LEMMA ReliabilityFixed ==
  ASSUME UNCHANGED fixed
  PROVE  /\ SlotsReliable' <=> SlotsReliable
         /\ TreeSound' <=> TreeSound
         /\ ReductionSound' <=> ReductionSound
BY DEF fixed, SlotsReliable, Overruns, Config, TreeSound, ReductionSound, gather

LEMMA EndDistributionFills ==
  ASSUME BaseInv, EndDistribution
  PROVE  /\ Base' /\ UNCHANGED <<fixed, gather, fold, outcome>>
         /\ phase = "distribute" /\ phase' = "gather" /\ next' = 0
         /\ stored' = <<>> /\ ~Completed'
<1>1. Base /\ phase = "distribute" /\ status = "running"
  BY DEF BaseInv, EndDistribution, Distributing, At
<1>2. /\ UNCHANGED <<fixed, status, fold, foundIdx, storeFailed, stored, outcome>>
      /\ phase' = "gather" /\ next' = 0
  BY DEF EndDistribution, Map!Join
<1>3. SlotsFilled'
  <2> SUFFICES ASSUME NEW i \in Items
               PROVE  /\ resultOk'[i] <=> outcome'[i] = "ok"
                      /\ resultOk'[i] /\ SlotsReliable' => resultData'[i] = AsLoaded(<<i>>)
    BY DEF SlotsFilled
  <2>1. SlotsReliable' <=> SlotsReliable
    BY <1>2, ReliabilityFixed
  <2>2. PICK torn \in SUBSET Succeeded :
          /\ SlotsReliable => torn = {}
          /\ resultData' = [j \in Items |-> SlotOf(j, torn)]
    BY DEF EndDistribution
  <2>3. (resultOk'[i] <=> outcome'[i] = "ok") /\ (resultOk'[i] <=> i \in Succeeded)
    BY <1>2 DEF EndDistribution, Succeeded
  <2> QED
    BY <2>1, <2>2, <2>3 DEF SlotOf
<1> QED
  BY <1>1, <1>2, <1>3 DEF Base, Early, Completed, gather, fixed

LEMMA GatherFacts ==
  ASSUME BaseInv,
         \/ GatherInPlace \/ GatherTree \/ GatherTreeUnsound \/ FoldSkip \/ FoldSeed \/ FoldStep
         \/ FoldFails \/ EndFold \/ ScanNext \/ ScanHit \/ ScanEnds
  PROVE  /\ Base' /\ UNCHANGED <<fixed, gather, status, outcome, joined, stored, storeFailed>>
         /\ phase = "gather" /\ status = "running" /\ phase' \in {"gather", "store"}
         /\ SlotsFilled /\ stored = <<>> /\ ~Completed'
         /\ next < NItems <=> next \in Items
         /\ next \in 0 .. NItems
<1>1. Base /\ next \in 0 .. NItems
  BY DEF BaseInv, TypeInv, TypeOK
<1>2. /\ UNCHANGED <<fixed, status, outcome, joined, stored, storeFailed>>
      /\ phase = "gather" /\ status = "running" /\ phase' \in {"gather", "store"}
      /\ phase' = "gather" => foundIdx' = foundIdx
      /\ phase' = "gather" \/ gather \notin Reductions => UNCHANGED results
  <2> USE DEF Gathering, At, ToStore, map, Reductions
  <2>1. CASE GatherInPlace \/ GatherTree \/ GatherTreeUnsound \/ EndFold \/ ScanHit \/ ScanEnds
    BY <2>1 DEF GatherInPlace, GatherTree, GatherTreeUnsound, EndFold, ScanHit, ScanEnds
  <2>2. CASE FoldSkip \/ FoldSeed \/ FoldStep \/ FoldFails \/ ScanNext
    BY <2>2 DEF FoldSkip, FoldSeed, FoldStep, FoldFails, ScanNext, CanReduce
  <2> QED
    BY <2>1, <2>2
<1>3. gather' = gather
  BY <1>2 DEF gather, fixed
<1>4. SlotsFilled
  BY <1>1, <1>2 DEF Base
<1>5. UNCHANGED results => SlotsFilled'
  BY <1>2, <1>4, ReliabilityFixed DEF SlotsFilled, results
<1>6. Base'
  BY <1>1, <1>2, <1>3, <1>5 DEF Base, Early
<1> QED
  BY <1>1, <1>2, <1>3, <1>4, <1>6, WorkloadItemsAssumption
     DEF Completed, Base, Items

LEMMA StoreFacts ==
  ASSUME BaseInv,
         StoreNext \/ StoreSingle \/ HaltOnStoreFailure \/ FinalShutdown
  PROVE  /\ Base' /\ UNCHANGED <<fixed, gather, map, results, fold, foundIdx>>
         /\ phase = "store" /\ status = "running" /\ phase' \in {"store", "ended"}
         /\ next < NItems <=> next \in Items
         /\ next \in 0 .. NItems
<1>1. Base /\ next \in 0 .. NItems
  BY DEF BaseInv, TypeInv, TypeOK
<1>2. /\ UNCHANGED <<fixed, map, results, fold, foundIdx>>
      /\ phase = "store" /\ status = "running" /\ phase' \in {"store", "ended"}
      /\ status' # "running" => phase' = "ended"
  BY DEF StoreNext, StoreSingle, HaltOnStoreFailure, FinalShutdown, Return, At
<1>3. gather' = gather
  BY <1>2 DEF gather, fixed
<1>4. SlotsFilled' <=> SlotsFilled
  BY <1>2, ReliabilityFixed DEF SlotsFilled, results, map
<1>5. Base'
  BY <1>1, <1>2, <1>3, <1>4 DEF Base, Early
<1> QED
  BY <1>1, <1>2, <1>3, <1>5, WorkloadItemsAssumption DEF Items

LEMMA StepBaseInv == BaseInv /\ [Next]_vars => BaseInv'
<1> SUFFICES ASSUME BaseInv, [Next]_vars PROVE BaseInv'
  OBVIOUS
<1>1. TypeInv'
  BY StepTypeInv DEF BaseInv
<1>2. CASE UNCHANGED vars
  <2>1. (SlotsReliable' <=> SlotsReliable) /\ UNCHANGED <<fixed, map, results, fold>>
    BY <1>2, ReliabilityFixed DEF vars
  <2> QED
    BY <1>1, <1>2, <2>1 DEF vars, fixed, map, results, fold, gather, BaseInv, Base,
                            SlotsFilled
<1> QED
  BY <1>1, <1>2, EarlySteps, EndDistributionFills, GatherFacts, StoreFacts
     DEF BaseInv, Next, Step, Ended

LEMMA BaseAlways == Spec => []BaseInv
BY InitBaseInv, StepBaseInv, PTL DEF Spec, SafeSpec

-----------------------------------------------------------------------------
(* gather = "first".                                                       *)

\* Item i is the match that the scan is after.
Lowest(i) == i \in Hits /\ \A j \in Hits : i <= j

Scanned ==
  \/ foundIdx = -1 /\ Hits = {}
  \/ foundIdx \in Items /\ Lowest(foundIdx)

FirstStored ==
  \/ Hits = {} /\ stored = <<>>
  \/ \E i \in Hits : Lowest(i) /\ stored = <<<<0, AsLoaded(<<i>>)>>>>

\* What the scan has passed does not match; where it ended is the lowest
\* match; and that is what the one call of c_store_result is given.
FirstInv ==
  gather = "first" /\ SlotsReliable =>
    /\ phase = "gather" => \A j \in Hits : next <= j
    /\ phase = "store" => /\ Scanned
                          /\ next \in {0, NItems}
                          /\ next = 0 => stored = <<>>
                          /\ next = NItems => storeFailed \/ FirstStored
    /\ Completed => FirstStored

LEMMA InitFirstInv == Init => FirstInv
BY DEF Init, FirstInv, Map!Init, Completed

LEMMA GatherKeepsFirst ==
  ASSUME BaseInv, FirstInv,
         \/ GatherInPlace \/ GatherTree \/ GatherTreeUnsound \/ FoldSkip \/ FoldSeed \/ FoldStep
         \/ FoldFails \/ EndFold \/ ScanNext \/ ScanHit \/ ScanEnds
  PROVE  FirstInv'
<1>1. /\ Base' /\ UNCHANGED <<fixed, gather, status, outcome, joined, stored, storeFailed>>
      /\ phase = "gather" /\ phase' \in {"gather", "store"}
      /\ SlotsFilled /\ stored = <<>> /\ ~Completed'
      /\ next < NItems <=> next \in Items
      /\ next \in 0 .. NItems
      /\ SlotsReliable' <=> SlotsReliable
  BY GatherFacts, ReliabilityFixed
<1>2. CASE ~(gather = "first" /\ SlotsReliable)
  BY <1>1, <1>2 DEF FirstInv
<1>3. CASE gather = "first" /\ SlotsReliable
  <2>1. /\ \A j \in Hits : next <= j
        /\ Hits \subseteq Items /\ Hits' = Hits
    BY <1>1, <1>3 DEF FirstInv, Hits, Succeeded, fixed
  <2>2. next \in Items => (IsMatch(next) <=> next \in Hits)
    BY <1>1 DEF IsMatch, Hits, Succeeded, SlotsFilled
  <2>3. CASE ScanNext
    <3>1. phase' = "gather" /\ next' = next + 1 /\ next \notin Hits
      BY <1>1, <2>2, <2>3 DEF ScanNext
    <3>2. \A j \in Hits : next' <= j
      BY <1>1, <2>1, <3>1 DEF Items
    <3> QED
      BY <1>1, <2>1, <3>1, <3>2 DEF FirstInv
  <2>4. CASE ScanHit
    <3>1. phase' = "store" /\ next' = 0 /\ foundIdx' = next /\ next \in Hits
      BY <1>1, <2>2, <2>4 DEF ScanHit, ToStore
    <3>2. Scanned'
      BY <2>1, <3>1 DEF Scanned, Lowest
    <3> QED
      BY <1>1, <3>1, <3>2, WorkloadItemsAssumption DEF FirstInv
  <2>5. CASE ScanEnds
    <3>1. phase' = "store" /\ next' = 0 /\ foundIdx' = -1 /\ next = NItems
      BY <1>1, <2>5 DEF ScanEnds, ToStore, BaseInv, Base
    <3>2. Hits = {}
      BY <2>1, <3>1, WorkloadItemsAssumption DEF Items
    <3>3. Scanned'
      BY <2>1, <3>1, <3>2 DEF Scanned
    <3> QED
      BY <1>1, <3>1, <3>3, WorkloadItemsAssumption DEF FirstInv
  <2> QED
    BY <1>3, <2>3, <2>4, <2>5
       DEF GatherInPlace, GatherTree, GatherTreeUnsound, FoldSkip, FoldSeed, FoldStep, FoldFails, EndFold,
           CanReduce, Gathering
<1> QED
  BY <1>2, <1>3

LEMMA StoreKeepsFirst ==
  ASSUME BaseInv, FirstInv,
         StoreNext \/ StoreSingle \/ HaltOnStoreFailure \/ FinalShutdown
  PROVE  FirstInv'
<1>1. /\ UNCHANGED <<fixed, gather, map, results, foundIdx>>
      /\ phase = "store" /\ phase' \in {"store", "ended"}
      /\ status = "running" /\ next \in 0 .. NItems
      /\ SlotsReliable' <=> SlotsReliable
  BY StoreFacts, ReliabilityFixed
<1>2. Hits' = Hits /\ (Scanned' <=> Scanned)
  BY <1>1 DEF fixed, map, Hits, Succeeded, Scanned, Lowest
<1>3. CASE ~(gather = "first" /\ SlotsReliable)
  BY <1>1, <1>3 DEF FirstInv
<1>4. CASE gather = "first" /\ SlotsReliable
  <2>1. Scanned /\ SlotsFilled
    BY <1>1, <1>4 DEF FirstInv, BaseInv, Base, Reductions
  <2>2. CASE StoreSingle
    <3>1. /\ phase' = "store" /\ next' = NItems /\ status' = "running"
          /\ next < NItems
      BY <1>1, <2>2 DEF StoreSingle
    <3>2. stored = <<>>
      BY <1>1, <1>4, <3>1 DEF FirstInv
    <3>3. ASSUME foundIdx \in Items, Lowest(foundIdx)
          PROVE  storeFailed' \/ FirstStored'
      <4>1. resultOk[foundIdx] /\ resultData[foundIdx] = AsLoaded(<<foundIdx>>)
        BY <1>4, <2>1, <3>3 DEF SlotsFilled, Lowest, Hits, Succeeded
      <4>2. SingleSlot = foundIdx
        BY <1>4 DEF SingleSlot
      <4>3. \/ storeFailed' = TRUE
            \/ stored' = Append(stored, <<0, AsLoaded(<<foundIdx>>)>>)
        BY <2>2, <3>3, <4>1, <4>2 DEF StoreSingle, Store
      <4>4. Append(stored, <<0, AsLoaded(<<foundIdx>>)>>) = <<<<0, AsLoaded(<<foundIdx>>)>>>>
        BY <3>2
      <4> QED
        BY <1>2, <3>3, <4>3, <4>4 DEF FirstStored, Lowest
    <3>4. ASSUME foundIdx = -1, Hits = {}
          PROVE  FirstStored'
      <4>1. SingleSlot \notin Items
        BY <1>4, <3>4 DEF SingleSlot, Items
      <4>2. stored' = stored
        BY <2>2, <4>1 DEF StoreSingle
      <4> QED
        BY <1>2, <3>2, <3>4, <4>2 DEF FirstStored
    <3>5. storeFailed' \/ FirstStored'
      BY <2>1, <3>3, <3>4 DEF Scanned
    <3> QED
      BY <1>2, <2>1, <3>1, <3>5, WorkloadItemsAssumption DEF FirstInv, Completed
  <2>3. CASE HaltOnStoreFailure
    BY <1>1, <2>3 DEF HaltOnStoreFailure, FirstInv, Completed
  <2>4. CASE FinalShutdown
    <3>1. next = NItems /\ ~storeFailed /\ stored' = stored /\ phase' = "ended"
      BY <2>4 DEF FinalShutdown, Return
    <3>2. FirstStored
      BY <1>1, <1>4, <3>1 DEF FirstInv
    <3>3. FirstStored'
      BY <1>2, <3>1, <3>2 DEF FirstStored, Lowest
    <3> QED
      BY <3>1, <3>3 DEF FirstInv
  <2> QED
    BY <1>4, <2>2, <2>3, <2>4 DEF StoreNext
<1> QED
  BY <1>3, <1>4

LEMMA StepFirstInv == BaseInv /\ FirstInv /\ [Next]_vars => FirstInv'
<1> SUFFICES ASSUME BaseInv, FirstInv, [Next]_vars PROVE FirstInv'
  OBVIOUS
<1>1. CASE \/ InitSucceeds \/ InitFails \/ SomeItems \/ NothingToDo
           \/ LoadItem \/ LoadFails \/ EndLoad \/ ProcessItem \/ DistributionHalts
  BY <1>1, EarlySteps DEF FirstInv
<1>2. CASE EndDistribution
  <2>1. /\ phase' = "gather" /\ next' = 0 /\ ~Completed'
    BY <1>2, EndDistributionFills
  <2>2. \A j \in Hits' : next' <= j
    BY <2>1 DEF Hits, Succeeded, Items
  <2> QED
    BY <2>1, <2>2 DEF FirstInv
<1>3. CASE UNCHANGED vars
  BY <1>3, ReliabilityFixed DEF vars, fixed, map, FirstInv, Scanned, FirstStored, Completed, Lowest, Hits,
              Succeeded, gather
<1> QED
  BY <1>1, <1>2, <1>3, GatherKeepsFirst, StoreKeepsFirst DEF Next, Step, Ended

(* The indices of a program with no more items than C ints are C ints.     *)
LEMMA CIntIdentity ==
  ASSUME NItems <= CIntBound, NEW i \in Items
  PROVE  CInt(i) = i /\ AsLoaded(<<i>>) = <<i>>
<1> DEFINE w == 2 * CIntBound
<1>1. w \in Nat \ {0} /\ i + CIntBound \in 0 .. w - 1
  BY WorkloadItemsAssumption, CIntBoundAssumption DEF Items
<1>2. i + CIntBound = 0 * w + (i + CIntBound)
  BY <1>1
<1> HIDE DEF w
<1>3. (i + CIntBound) % w = i + CIntBound
  BY <1>1, <1>2, DivModUnique
<1>4. CInt(i) = i
  BY <1>3, CIntBoundAssumption DEF CInt, w, Items
<1> QED
  BY <1>4 DEF AsLoaded

(* gather = "first" stores the match with the lowest index whenever main   *)
(* ends well, if its slots are reliable and its indices are C ints.        *)
THEOREM LowestMatchStored ==
  ASSUME NItems <= CIntBound
  PROVE  Spec => []FirstStoresLowestMatch
<1>1. FirstInv => FirstStoresLowestMatch
  <2>1. \A i \in Hits : AsLoaded(<<i>>) = <<i>>
    BY CIntIdentity DEF Hits, Succeeded
  <2> QED
    BY <2>1 DEF FirstInv, FirstStoresLowestMatch, FirstStored, Lowest
<1> QED
  BY <1>1, BaseAlways, InitFirstInv, StepFirstInv, PTL DEF Spec, SafeSpec

-----------------------------------------------------------------------------
(* gather = "merge" and "stream".                                          *)

\* The items whose slot the loop over the slots has passed and that succeeded.
Below(S, n) == {i \in S : i < n}

Passed == Below(Succeeded, next)

\* An item's own result, under its own index; and those of some items.
Own(i) == <<i, <<i>>>>

OwnResults(order) == [k \in DOMAIN order |-> Own(order[k])]

Ascending(order) == \A j, k \in 1 .. Len(order) : j < k => order[j] < order[k]

StoredOf(S) == \E order \in SetToSeqs(S) : Ascending(order) /\ stored = OwnResults(order)

MergeInv ==
  gather \in {"merge", "stream"} /\ SlotsReliable =>
    /\ phase = "store" => storeFailed \/ StoredOf(Passed)
    /\ Completed => StoredOf(Succeeded)

LEMMA BelowOneMore ==
  ASSUME NEW S \in SUBSET Items, NEW n \in Items
  PROVE  Below(S, n + 1) = IF n \in S THEN Below(S, n) \cup {n} ELSE Below(S, n)
<1>1. \A i \in S : i < n + 1 <=> i < n \/ i = n
  BY DEF Items
<1> QED
  BY <1>1 DEF Below

LEMMA BelowEnds ==
  ASSUME NEW S \in SUBSET Items
  PROVE  Below(S, 0) = {} /\ Below(S, NItems) = S
<1>1. \A i \in S : i < NItems /\ ~(i < 0)
  BY WorkloadItemsAssumption DEF Items
<1> QED
  BY <1>1 DEF Below

LEMMA StoredOfNone == stored = <<>> => StoredOf({})
<1>1. Ascending(<<>>)
  BY DEF Ascending
<1>2. OwnResults(<<>>) = <<>>
  BY DEF OwnResults
<1> QED
  BY <1>1, <1>2, NoneOrdered DEF StoredOf

LEMMA OwnInOrder ==
  ASSUME NEW order \in Seq(Items), NEW i \in Items
  PROVE  OwnResults(Append(order, i)) = Append(OwnResults(order), Own(i))
<1> DEFINE n == Len(order)
           longer == Append(order, i)
           P == {Own(j) : j \in Items}
           was == OwnResults(order)
           is == OwnResults(longer)
<1>1. n \in Nat /\ DOMAIN order = 1 .. n
  BY LenProperties
<1>2. /\ longer \in [1 .. n + 1 -> Items]
      /\ longer[n + 1] = i /\ \A k \in 1 .. n : longer[k] = order[k]
  <2>1. longer \in Seq(Items) /\ Len(longer) = n + 1
    BY AppendProperties
  <2>2. longer[n + 1] = i /\ \A k \in 1 .. n : longer[k] = order[k]
    BY AppendProperties
  <2> HIDE DEF longer
  <2> QED
    BY <2>1, <2>2, LenProperties
<1>3. \A k \in 1 .. n : order[k] \in Items
  BY ElementOfSeq
<1>4. was \in [1 .. n -> P] /\ is \in [1 .. n + 1 -> P] /\ Own(i) \in P
  BY <1>1, <1>2, <1>3 DEF OwnResults
<1>5. (\A k \in 1 .. n : is[k] = was[k]) /\ is[n + 1] = Own(i)
  BY <1>1, <1>2 DEF OwnResults
<1> HIDE DEF P, was, is, longer, n
<1>6. was \in Seq(P) /\ Len(was) = n /\ is \in Seq(P) /\ Len(is) = n + 1
  BY <1>1, <1>4
<1>7. /\ Append(was, Own(i)) \in Seq(P) /\ Len(Append(was, Own(i))) = n + 1
      /\ \A k \in 1 .. n : Append(was, Own(i))[k] = was[k]
      /\ Append(was, Own(i))[n + 1] = Own(i)
  BY <1>4, <1>6, AppendProperties
<1>8. \A k \in 1 .. n + 1 : is[k] = Append(was, Own(i))[k]
  BY <1>1, <1>5, <1>7
<1>9. is = Append(was, Own(i))
  BY <1>6, <1>7, <1>8, SeqEqual
<1> QED
  BY <1>9 DEF was, is, longer

LEMMA InitMergeInv == Init => MergeInv
BY DEF Init, MergeInv, Map!Init, Completed

(* One more item, higher than those before, goes after them.               *)
LEMMA AscendingOneMore ==
  ASSUME NEW S \in SUBSET Items, NEW order \in SetToSeqs(S), Ascending(order),
         NEW i \in Items, \A j \in S : j < i
  PROVE  /\ order \in Seq(Items)
         /\ Append(order, i) \in SetToSeqs(S \cup {i})
         /\ Ascending(Append(order, i))
<1> DEFINE n == Len(order)
           longer == Append(order, i)
<1>1. IsFiniteSet(S)
  BY ItemsFinite
<1>2. order \in Seq(S) /\ order \in Seq(Items) /\ S \subseteq Int /\ i \notin S
  <2>1. order \in Seq(S)
    BY <1>1, OrderOf
  <2>2. order \in Seq(Items)
    BY <2>1, SeqMonotonic
  <2>3. S \subseteq Int /\ i \notin S
    BY DEF Items
  <2> QED
    BY <2>1, <2>2, <2>3
<1>3. n \in Nat /\ \A k \in 1 .. n : order[k] \in S
  BY <1>2, LenProperties, ElementOfSeq
<1>4. /\ Len(longer) = n + 1 /\ longer[n + 1] = i
      /\ \A k \in 1 .. n : longer[k] = order[k]
  BY <1>2, AppendProperties
<1>5. longer \in SetToSeqs(S \cup {i})
  BY <1>1, <1>2, OneMoreOrdered
<1>6. \A j, k \in 1 .. n : j < k => order[j] < order[k]
  BY DEF Ascending
<1> HIDE DEF n, longer
<1>7. ASSUME NEW j \in 1 .. n + 1, NEW k \in 1 .. n + 1, j < k
      PROVE  longer[j] < longer[k]
  <2>1. j \in 1 .. n
    BY <1>3, <1>7
  <2>2. CASE k = n + 1
    BY <1>3, <1>4, <2>1, <2>2
  <2>3. CASE k \in 1 .. n
    BY <1>4, <1>6, <1>7, <2>1, <2>3
  <2> QED
    BY <1>3, <2>2, <2>3
<1> QED
  BY <1>2, <1>4, <1>5, <1>7 DEF Ascending, longer

LEMMA GatherKeepsMerge ==
  ASSUME BaseInv, MergeInv,
         \/ GatherInPlace \/ GatherTree \/ GatherTreeUnsound \/ FoldSkip \/ FoldSeed \/ FoldStep
         \/ FoldFails \/ EndFold \/ ScanNext \/ ScanHit \/ ScanEnds
  PROVE  MergeInv'
<1>1. /\ UNCHANGED <<gather, outcome, stored>>
      /\ phase = "gather" /\ stored = <<>> /\ ~Completed'
      /\ SlotsReliable' <=> SlotsReliable
  BY GatherFacts, ReliabilityFixed
<1>2. CASE GatherInPlace
  <2>1. next' = 0
    BY <1>2 DEF GatherInPlace, ToStore
  <2>2. Passed' = {}
    BY <2>1, BelowEnds DEF Passed, Succeeded
  <2>3. StoredOf({}) /\ stored' = stored
    BY <1>1, StoredOfNone
  <2> QED
    BY <1>1, <2>2, <2>3 DEF MergeInv, StoredOf
<1>3. CASE ~(gather \in {"merge", "stream"} /\ SlotsReliable)
  BY <1>1, <1>3 DEF MergeInv
<1> QED
  BY <1>2, <1>3 DEF GatherTree, GatherTreeUnsound, FoldSkip, FoldSeed, FoldStep, FoldFails, EndFold,
                    ScanNext, ScanHit, ScanEnds, CanReduce, Gathering

LEMMA StoreKeepsMerge ==
  ASSUME NItems <= CIntBound, BaseInv, MergeInv,
         StoreNext \/ StoreSingle \/ HaltOnStoreFailure \/ FinalShutdown
  PROVE  MergeInv'
<1>1. /\ UNCHANGED <<fixed, gather, map, results>>
      /\ phase = "store" /\ status = "running" /\ phase' \in {"store", "ended"}
      /\ next < NItems <=> next \in Items
      /\ next \in 0 .. NItems
      /\ SlotsReliable' <=> SlotsReliable
  BY StoreFacts, ReliabilityFixed
<1>2. Succeeded' = Succeeded /\ Succeeded \subseteq Items
  BY <1>1 DEF map, Succeeded
<1>3. CASE ~(gather \in {"merge", "stream"} /\ SlotsReliable)
  BY <1>1, <1>3 DEF MergeInv
<1>4. CASE gather \in {"merge", "stream"} /\ SlotsReliable
  <2>1. SlotsFilled /\ (storeFailed \/ StoredOf(Passed))
    BY <1>1, <1>4 DEF MergeInv, BaseInv, Base, Reductions
  <2>2. CASE StoreNext
    <3>1. next' = next + 1 /\ next \in Items /\ status' = "running"
      BY <1>1, <2>2 DEF StoreNext
    <3>2. CASE next \in Succeeded
      <4>1. resultOk[next] /\ resultData[next] = <<next>> /\ CInt(next) = next
        BY <1>4, <2>1, <3>1, <3>2, CIntIdentity DEF SlotsFilled, Succeeded
      <4>2. \/ storeFailed' = TRUE
            \/ storeFailed' = storeFailed /\ stored' = Append(stored, <<next, <<next>>>>)
        BY <2>2, <4>1 DEF StoreNext, Store
      <4>3. Passed' = Passed \cup {next}
        BY <1>2, <3>1, <3>2, BelowOneMore DEF Passed
      <4>4. Passed \in SUBSET Items /\ \A j \in Passed : j < next
        BY <1>2 DEF Passed, Below
      <4>5. ASSUME StoredOf(Passed), stored' = Append(stored, <<next, <<next>>>>)
            PROVE  StoredOf(Passed)'
        <5>1. PICK order \in SetToSeqs(Passed) : Ascending(order) /\ stored = OwnResults(order)
          BY <4>5 DEF StoredOf
        <5>2. /\ order \in Seq(Items) /\ Ascending(Append(order, next))
              /\ Append(order, next) \in SetToSeqs(Passed \cup {next})
          BY <3>1, <4>4, <5>1, AscendingOneMore
        <5>3. stored' = OwnResults(Append(order, next))
          BY <3>1, <4>5, <5>1, <5>2, OwnInOrder DEF Own
        <5> QED
          BY <4>3, <5>2, <5>3 DEF StoredOf
      <4> QED
        BY <1>1, <2>1, <3>1, <4>2, <4>5 DEF MergeInv, Completed
    <3>3. CASE next \notin Succeeded
      <4>1. ~resultOk[next]
        BY <2>1, <3>1, <3>3 DEF SlotsFilled, Succeeded
      <4>2. UNCHANGED <<stored, storeFailed>>
        BY <2>2, <4>1 DEF StoreNext
      <4>3. Passed' = Passed
        BY <1>2, <3>1, <3>3, BelowOneMore DEF Passed
      <4> QED
        BY <1>1, <2>1, <3>1, <4>2, <4>3 DEF MergeInv, Completed, StoredOf
    <3> QED
      BY <3>2, <3>3
  <2>3. CASE HaltOnStoreFailure
    BY <1>1, <2>3 DEF HaltOnStoreFailure, MergeInv, Completed
  <2>4. CASE FinalShutdown
    <3>1. next = NItems /\ ~storeFailed /\ stored' = stored /\ phase' = "ended"
      BY <2>4 DEF FinalShutdown, Return
    <3>2. Passed = Succeeded
      BY <1>2, <3>1, BelowEnds DEF Passed
    <3>3. StoredOf(Succeeded)'
      BY <1>2, <2>1, <3>1, <3>2 DEF StoredOf
    <3> QED
      BY <3>1, <3>3 DEF MergeInv, StoredOf
  <2> QED
    BY <1>4, <2>2, <2>3, <2>4 DEF StoreSingle
<1> QED
  BY <1>3, <1>4

LEMMA StepMergeInv ==
  ASSUME NItems <= CIntBound
  PROVE  BaseInv /\ MergeInv /\ [Next]_vars => MergeInv'
<1> SUFFICES ASSUME BaseInv, MergeInv, [Next]_vars PROVE MergeInv'
  OBVIOUS
<1>1. CASE \/ InitSucceeds \/ InitFails \/ SomeItems \/ NothingToDo
           \/ LoadItem \/ LoadFails \/ EndLoad \/ ProcessItem \/ DistributionHalts
  BY <1>1, EarlySteps DEF MergeInv
<1>2. CASE EndDistribution
  BY <1>2, EndDistributionFills DEF MergeInv
<1>3. CASE UNCHANGED vars
  BY <1>3, ReliabilityFixed DEF vars, fixed, map, MergeInv, StoredOf, Completed, Passed, Succeeded, gather
<1> QED
  BY <1>1, <1>2, <1>3, GatherKeepsMerge, StoreKeepsMerge DEF Next, Step, Ended

(* merge and stream: when main ends well, every successful result has been *)
(* stored under its own index, once and in order, and nothing else has, if *)
(* its slots are reliable and its indices are C ints.                      *)
THEOREM MergeStored ==
  Spec => []MergeStoresEverySuccess
<1>1. CASE NItems <= CIntBound
  <2>1. MergeInv => MergeStoresEverySuccess
    BY DEF MergeInv, MergeStoresEverySuccess, StoredOf, Ascending, IsSorted, OwnResults, Own
  <2>2. BaseInv /\ MergeInv /\ [Next]_vars => MergeInv'
    BY <1>1, StepMergeInv
  <2> QED
    BY <2>1, <2>2, BaseAlways, InitMergeInv, PTL DEF Spec, SafeSpec
<1>2. CASE ~(NItems <= CIntBound)
  <2>1. MergeStoresEverySuccess
    BY <1>2 DEF MergeStoresEverySuccess
  <2> QED
    BY <2>1, PTL
<1> QED
  BY <1>1, <1>2

-----------------------------------------------------------------------------
(* gather = "reduce" and "tree-reduce".                                    *)

\* A buffer is the reduction of the results of these items.
Made(buffer, S) == \E order \in SetToSeqs(S) : buffer = AsLoaded(order)

\* What the fold over the slots has in its accumulator.
FoldedSoFar ==
  \/ reduceFailed /\ ~haveAccum /\ next = NItems
  \/ ~reduceFailed /\ ~haveAccum /\ Passed = {}
  \/ /\ ~reduceFailed /\ haveAccum /\ Passed # {}
     /\ SlotsReliable => Made(accum, Passed)

\* What is said of the single result, and of that slot 0 holds it.
Promised(buffer) ==
  ReductionSound /\ (gather = "reduce" \/ ~reduceFailed) => Made(buffer, Succeeded)

SlotReduced ==
  /\ resultOk[0] => Promised(resultData[0])
  /\ ReductionSound /\ Succeeded # {} /\ ~reduceFailed => resultOk[0]

ReductionStored ==
  stored = <<>> \/ \E buffer : Promised(buffer) /\ stored = <<<<0, buffer>>>>

ReduceInv ==
  gather \in Reductions =>
    /\ phase = "gather" /\ gather = "reduce" => FoldedSoFar
    /\ phase = "store" => /\ SlotReduced
                          /\ next \in {0, NItems}
                          /\ next = 0 => stored = <<>>
                          /\ next = NItems /\ resultOk[0] => storeFailed \/ stored # <<>>
    /\ ReductionStored
    /\ ReductionSound /\ Completed /\ Succeeded # {} /\ ~reduceFailed => stored # <<>>

LEMMA InitReduceInv == Init => ReduceInv
BY DEF Init, ReduceInv, ReductionStored, Map!Init, Completed

LEMMA MadeOfOne == \A i \in Items : Made(AsLoaded(<<i>>), {i})
<1> SUFFICES ASSUME NEW i \in Items PROVE Made(AsLoaded(<<i>>), {i})
  OBVIOUS
<1>1. IsFiniteSet({}) /\ i \notin {}
  BY FS_EmptySet
<1>2. Append(<<>>, i) \in SetToSeqs({} \cup {i})
  BY <1>1, NoneOrdered, OneMoreOrdered
<1>3. Append(<<>>, i) = <<i>> /\ {} \cup {i} = {i}
  OBVIOUS
<1> QED
  BY <1>2, <1>3 DEF Made

LEMMA MadeOfOneMore ==
  ASSUME NEW S \in SUBSET Items, NEW buffer, Made(buffer, S), NEW i \in Items, i \notin S
  PROVE  Made(buffer \o AsLoaded(<<i>>), S \cup {i})
<1>1. PICK order \in SetToSeqs(S) : buffer = AsLoaded(order)
  BY DEF Made
<1>2. IsFiniteSet(S)
  BY ItemsFinite
<1>3. order \in Seq(S)
  BY <1>2, OrderOf
<1>4. order \in Seq(Items)
  BY <1>3, SeqMonotonic
<1>5. Append(order, i) \in SetToSeqs(S \cup {i})
  BY <1>2, OneMoreOrdered
<1>6. AsLoaded(Append(order, i)) = buffer \o AsLoaded(<<i>>)
  BY <1>1, <1>4, LoadedInOrder
<1> QED
  BY <1>5, <1>6 DEF Made

LEMMA GatherKeepsReduce ==
  ASSUME BaseInv, ReduceInv,
         \/ GatherInPlace \/ GatherTree \/ GatherTreeUnsound \/ FoldSkip \/ FoldSeed \/ FoldStep
         \/ FoldFails \/ EndFold \/ ScanNext \/ ScanHit \/ ScanEnds
  PROVE  ReduceInv'
<1>1. /\ UNCHANGED <<gather, outcome, stored, storeFailed>>
      /\ phase = "gather" /\ SlotsFilled /\ stored = <<>> /\ ~Completed'
      /\ next < NItems <=> next \in Items
      /\ next \in 0 .. NItems
      /\ (SlotsReliable' <=> SlotsReliable) /\ (ReductionSound' <=> ReductionSound)
  BY GatherFacts, ReliabilityFixed
<1>2. Succeeded' = Succeeded /\ Succeeded \in SUBSET Items /\ ReductionStored'
  BY <1>1 DEF Succeeded, ReductionStored
<1>3. CASE gather \notin Reductions
  BY <1>1, <1>3 DEF ReduceInv
<1>4. ASSUME gather = "reduce", FoldedSoFar', phase' = "gather"
      PROVE  ReduceInv'
  BY <1>1, <1>2, <1>4 DEF ReduceInv, Reductions
<1>5. ASSUME gather \in Reductions, SlotReduced', phase' = "store", next' = 0
      PROVE  ReduceInv'
  BY <1>1, <1>2, <1>5, WorkloadItemsAssumption DEF ReduceInv
<1>6. CASE gather = "reduce"
  <2>1. FoldedSoFar
    BY <1>1, <1>6 DEF ReduceInv, Reductions
  <2>2. CASE FoldSkip
    <3>1. /\ next \in Items /\ next \notin Succeeded /\ next' = next + 1
          /\ phase' = "gather" /\ UNCHANGED fold
      BY <1>1, <2>2 DEF FoldSkip, SlotsFilled, Succeeded
    <3>2. Passed' = Passed
      BY <1>2, <3>1, BelowOneMore DEF Passed
    <3>3. FoldedSoFar'
      BY <2>1, <3>1, <3>2, <1>1, WorkloadItemsAssumption DEF FoldedSoFar, fold, Items
    <3> QED
      BY <1>4, <1>6, <3>1, <3>3
  <2>3. ASSUME FoldSeed \/ CanReduce
        PROVE  /\ next \in Items /\ next \in Succeeded
               /\ SlotsReliable => resultData[next] = AsLoaded(<<next>>)
               /\ next' = next + 1 => Passed' = Passed \cup {next}
    <3>1. next \in Items /\ resultOk[next]
      BY <1>1, <2>3 DEF FoldSeed, CanReduce
    <3>2. next \in Succeeded /\ (SlotsReliable => resultData[next] = AsLoaded(<<next>>))
      BY <1>1, <3>1 DEF SlotsFilled, Succeeded
    <3> QED
      BY <1>2, <3>1, <3>2, BelowOneMore DEF Passed
  <2>4. next \in Items => ~(next = NItems)
    BY <1>1
  <2>5. CASE FoldSeed
    <3>1. /\ accum' = resultData[next] /\ haveAccum' = TRUE /\ ~haveAccum
          /\ next' = next + 1 /\ phase' = "gather" /\ UNCHANGED reduceFailed
      BY <1>1, <2>5 DEF FoldSeed
    <3>2. Passed = {} /\ ~reduceFailed
      BY <2>1, <2>3, <2>4, <2>5, <3>1 DEF FoldedSoFar
    <3>3. Passed' = {next}
      BY <2>3, <2>5, <3>1, <3>2
    <3>4. (SlotsReliable => Made(accum, Passed))'
      BY <1>1, <2>3, <2>5, <3>1, <3>3, MadeOfOne DEF Made
    <3> QED
      BY <1>4, <1>6, <3>1, <3>2, <3>3, <3>4 DEF FoldedSoFar
  <2>6. CASE FoldStep
    <3>1. /\ CanReduce /\ haveAccum /\ accum' = accum \o resultData[next]
          /\ next' = next + 1 /\ phase' = "gather" /\ UNCHANGED <<haveAccum, reduceFailed>>
      BY <1>1, <2>6 DEF FoldStep, CanReduce
    <3>2. ~reduceFailed /\ (SlotsReliable => Made(accum, Passed))
      BY <2>1, <3>1 DEF FoldedSoFar
    <3>3. Passed' = Passed \cup {next}
      BY <2>3, <3>1
    <3>4. Passed \in SUBSET Items /\ next \notin Passed
      BY <1>1, <1>2 DEF Passed, Below
    <3>5. SlotsReliable => Made(accum', Passed \cup {next})
      BY <2>3, <3>1, <3>2, <3>4, MadeOfOneMore
    <3>6. (SlotsReliable => Made(accum, Passed))'
      BY <1>1, <3>3, <3>5 DEF Made
    <3> QED
      BY <1>4, <1>6, <3>1, <3>2, <3>3, <3>6 DEF FoldedSoFar
  <2>7. CASE FoldFails
    <3>1. /\ haveAccum' = FALSE /\ next' = NItems /\ reduceFailed' = TRUE
          /\ phase' = "gather"
      BY <1>1, <2>7 DEF FoldFails
    <3> QED
      BY <1>4, <1>6, <3>1 DEF FoldedSoFar
  <2>8. CASE EndFold
    <3>1. /\ next = NItems /\ next' = 0 /\ phase' = "store" /\ UNCHANGED fold
          /\ resultData' = [resultData EXCEPT ![0] = accum]
          /\ resultOk' = [resultOk EXCEPT ![0] = haveAccum]
      BY <2>8 DEF EndFold, ToStore
    <3>2. resultData'[0] = accum /\ resultOk'[0] = haveAccum
      BY <3>1, ItemsFinite DEF BaseInv, TypeInv, TypeOK
    <3>3. Passed = Succeeded
      BY <1>2, <3>1, BelowEnds DEF Passed
    <3>4. SlotReduced'
      BY <1>1, <1>2, <2>1, <3>1, <3>2, <3>3
         DEF SlotReduced, Promised, ReductionSound, FoldedSoFar, fold, Made
    <3> QED
      BY <1>5, <1>6, <3>1, <3>4 DEF Reductions
  <2> QED
    BY <1>6, <2>2, <2>5, <2>6, <2>7, <2>8
       DEF GatherInPlace, GatherTree, GatherTreeUnsound, ScanNext, ScanHit, ScanEnds, Gathering
<1>7. CASE GatherTree
  <2>1. gather = "tree-reduce" /\ phase' = "store" /\ next' = 0
    BY <1>7 DEF GatherTree, Gathering, ToStore
  <2>2. PICK kept \in SUBSET Succeeded :
          /\ reduceFailed' = (kept # Succeeded)
          /\ \E order \in SetToSeqs(kept) :
               resultData' = [resultData EXCEPT ![0] = AsLoaded(order)]
    BY <1>7 DEF GatherTree
  <2>3. Made(resultData'[0], kept)
    BY <2>2, ItemsFinite DEF BaseInv, TypeInv, TypeOK, Made
  <2>4. resultOk'[0] = (Succeeded # {})
    BY <1>7, ItemsFinite DEF GatherTree, BaseInv, TypeInv, TypeOK
  <2>5. SlotReduced'
    BY <1>1, <1>2, <2>1, <2>2, <2>3, <2>4 DEF SlotReduced, Promised, Made
  <2> QED
    BY <1>5, <2>1, <2>5 DEF Reductions
<1>8. CASE GatherTreeUnsound
  <2>1. /\ gather = "tree-reduce" /\ phase' = "store" /\ next' = 0
        /\ ~ReductionSound'
    BY <1>1, <1>8 DEF GatherTreeUnsound, Gathering, ToStore, ReductionSound
  <2>2. SlotReduced'
    BY <2>1 DEF SlotReduced, Promised
  <2> QED
    BY <1>5, <2>1, <2>2 DEF Reductions
<1> QED
  BY <1>3, <1>6, <1>7, <1>8
     DEF GatherInPlace, FoldSkip, FoldSeed, FoldStep, FoldFails, EndFold, ScanNext,
         ScanHit, ScanEnds, CanReduce, Gathering, Reductions

LEMMA StoreKeepsReduce ==
  ASSUME BaseInv, ReduceInv,
         StoreNext \/ StoreSingle \/ HaltOnStoreFailure \/ FinalShutdown
  PROVE  ReduceInv'
<1>1. /\ UNCHANGED <<gather, map, results, fold>>
      /\ phase = "store" /\ status = "running" /\ phase' \in {"store", "ended"}
      /\ next \in 0 .. NItems
      /\ ReductionSound' <=> ReductionSound
  BY StoreFacts, ReliabilityFixed
<1>2. Succeeded' = Succeeded /\ \A buffer : Promised(buffer)' <=> Promised(buffer)
  BY <1>1 DEF map, fold, Succeeded, Promised, Made
<1>3. CASE gather \notin Reductions
  BY <1>1, <1>3 DEF ReduceInv
<1>4. CASE gather \in Reductions
  <2>1. SlotReduced /\ next \in {0, NItems} /\ ReductionStored
    BY <1>1, <1>4 DEF ReduceInv
  <2>2. SlotReduced'
    BY <1>1, <1>2, <2>1 DEF SlotReduced, results, fold
  <2>3. CASE StoreSingle
    <3>1. /\ phase' = "store" /\ next' = NItems /\ status' = "running" /\ next < NItems
      BY <1>1, <2>3 DEF StoreSingle
    <3>2. stored = <<>> /\ SingleSlot = 0 /\ NItems # 0
      BY <1>1, <1>4, <2>1, <3>1, WorkloadItemsAssumption DEF ReduceInv, SingleSlot, Reductions
    <3>3. CASE resultOk[0]
      <4>1. \/ stored' = Append(stored, <<0, resultData[0]>>)
            \/ storeFailed' = TRUE /\ stored' = stored
        BY <2>3, <3>2, <3>3, ItemsFinite DEF StoreSingle, Store
      <4>2. Append(stored, <<0, resultData[0]>>) = <<<<0, resultData[0]>>>>
        BY <3>2
      <4>3. Promised(resultData[0])'
        BY <1>1, <2>2, <3>3 DEF SlotReduced, results
      <4>4. \/ stored' = <<<<0, resultData'[0]>>>>
            \/ storeFailed' = TRUE /\ stored' = <<>>
        BY <1>1, <3>2, <4>1, <4>2 DEF results
      <4>5. <<<<0, resultData[0]>>>> # <<>>
        OBVIOUS
      <4>6. ReductionStored' /\ (storeFailed' \/ stored' # <<>>)
        BY <4>3, <4>4, <4>5 DEF ReductionStored, Promised
      <4> QED
        BY <1>1, <2>2, <3>1, <3>2, <4>6 DEF ReduceInv, Completed
    <3>4. CASE ~resultOk[0]
      <4>1. stored' = stored
        BY <2>3, <3>2, <3>4 DEF StoreSingle
      <4>2. ReductionStored' /\ ~resultOk'[0]
        BY <1>1, <3>2, <3>4, <4>1 DEF ReductionStored, results
      <4> QED
        BY <1>1, <2>2, <3>1, <3>2, <4>2 DEF ReduceInv, Completed
    <3> QED
      BY <3>3, <3>4
  <2>4. CASE HaltOnStoreFailure
    <3>1. stored' = stored /\ phase' = "ended" /\ status' = "halted"
      BY <2>4 DEF HaltOnStoreFailure
    <3>2. ReductionStored'
      BY <1>2, <2>1, <3>1 DEF ReductionStored, Promised
    <3> QED
      BY <3>1, <3>2 DEF ReduceInv, Completed
  <2>5. CASE FinalShutdown
    <3>1. next = NItems /\ ~storeFailed /\ stored' = stored /\ phase' = "ended"
      BY <2>5 DEF FinalShutdown, Return
    <3>2. ReductionStored'
      BY <1>2, <2>1, <3>1 DEF ReductionStored, Promised
    <3>3. resultOk[0] => stored' # <<>>
      BY <1>1, <1>4, <3>1 DEF ReduceInv
    <3>4. ReductionSound' /\ Succeeded' # {} /\ ~reduceFailed' => stored' # <<>>
      BY <1>1, <1>2, <2>1, <3>3 DEF SlotReduced, fold
    <3> QED
      BY <3>1, <3>2, <3>4 DEF ReduceInv
  <2> QED
    BY <1>4, <2>3, <2>4, <2>5 DEF StoreNext, Reductions
<1> QED
  BY <1>3, <1>4

LEMMA StepReduceInv == BaseInv /\ ReduceInv /\ [Next]_vars => ReduceInv'
<1> SUFFICES ASSUME BaseInv, ReduceInv, [Next]_vars PROVE ReduceInv'
  OBVIOUS
<1>1. CASE \/ InitSucceeds \/ InitFails \/ SomeItems \/ NothingToDo
           \/ LoadItem \/ LoadFails \/ EndLoad \/ ProcessItem \/ DistributionHalts
  BY <1>1, EarlySteps DEF ReduceInv, ReductionStored
<1>2. CASE EndDistribution
  <2>1. /\ phase = "distribute" /\ phase' = "gather" /\ next' = 0 /\ UNCHANGED fold
        /\ stored' = <<>> /\ ~Completed'
    BY <1>2, EndDistributionFills
  <2>2. ~haveAccum /\ ~reduceFailed
    BY <2>1 DEF BaseInv, Base, Early
  <2>3. Passed' = {}
    BY <2>1, BelowEnds DEF Passed, Succeeded
  <2> QED
    BY <2>1, <2>2, <2>3 DEF ReduceInv, ReductionStored, FoldedSoFar, fold
<1>3. CASE UNCHANGED vars
  BY <1>3, ReliabilityFixed DEF vars, fixed, map, results, fold, ReduceInv, ReductionStored, Promised, Made,
              SlotReduced, FoldedSoFar, Completed, Passed, Succeeded, gather
<1> QED
  BY <1>1, <1>2, <1>3, GatherKeepsReduce, StoreKeepsReduce DEF Next, Step, Ended

(* reduce and tree-reduce store one result at most.  Where the slots are   *)
(* reliable, and for tree-reduce the number of locales is a power of two   *)
(* and pointers can be followed, it is the reduction of all successful     *)
(* results, and there is none only where c_reduce or c_store_result failed *)
(* or nothing succeeded.                                                   *)
THEOREM ReductionsStored == Spec => []ReduceAllOrNothing
<1>1. ReduceInv => ReduceAllOrNothing
  <2> SUFFICES ASSUME ReduceInv, gather \in Reductions
               PROVE  /\ Len(stored) <= 1
                      /\ ReductionSound /\ (gather = "reduce" \/ ~reduceFailed) =>
                           \A k \in DOMAIN stored : \E order \in SetToSeqs(Succeeded) :
                             stored[k] = <<0, AsLoaded(order)>>
                      /\ stored # <<>> => Len(stored) = 1
    BY DEF ReduceInv, ReduceAllOrNothing, Reductions
  <2>1. CASE stored = <<>>
    BY <2>1
  <2>2. ASSUME NEW buffer, Promised(buffer), stored = <<<<0, buffer>>>>
        PROVE  /\ Len(stored) = 1
               /\ ReductionSound /\ (gather = "reduce" \/ ~reduceFailed) =>
                    \A k \in DOMAIN stored : \E order \in SetToSeqs(Succeeded) :
                      stored[k] = <<0, AsLoaded(order)>>
    <3>1. Len(stored) = 1 /\ DOMAIN stored = {1} /\ stored[1] = <<0, buffer>>
      BY <2>2
    <3> QED
      BY <2>2, <3>1 DEF Promised, Made
  <2> QED
    BY <2>1, <2>2 DEF ReduceInv, ReductionStored
<1> QED
  BY <1>1, BaseAlways, InitReduceInv, StepReduceInv, PTL DEF Spec, SafeSpec
=============================================================================
