------------------------- MODULE ReferenceFfi_proofs -------------------------
(***************************************************************************)
(* The heap of the reference library is accounted for, and its results are *)
(* the last ones accepted, for every heap, set of results and bound.  The  *)
(* three invariants are inductive together: that a store leaves the other  *)
(* slots readable needs that their blocks are in use and so not handed out *)
(* again, and that freeing the old result leaves the others in use needs   *)
(* that no two slots share a block.                                        *)
(***************************************************************************)
EXTENDS ReferenceFfi, TLAPS

Owned == {results[k] : k \in DOMAIN results} \ {Empty}

IInv == TypeOK /\ EveryBlockAccounted /\ ResultsAreLastAccepted

(* A list grown to n slots has n slots, the old ones first, then empty     *)
(* ones: what the append loop of c_store_result does.                      *)
LEMMA GrownList ==
  ASSUME TypeOK, NEW n \in Nat, n >= Len(results)
  PROVE  /\ Grown(n) \in Seq(Blocks \cup {Empty})
         /\ Len(Grown(n)) = n
         /\ DOMAIN Grown(n) = 1 .. n
         /\ \A k \in 1 .. Len(results) : Grown(n)[k] = results[k]
         /\ \A k \in Len(results) + 1 .. n : Grown(n)[k] = Empty
<1>1. results \in Seq(Blocks \cup {Empty}) /\ DOMAIN results = 1 .. Len(results)
  BY DEF TypeOK
<1>2. \A k \in 1 .. n : Grown(n)[k] \in Blocks \cup {Empty}
  BY <1>1 DEF Grown
<1>3. DOMAIN Grown(n) = 1 .. n
  BY DEF Grown
<1>4. Grown(n) \in Seq(Blocks \cup {Empty})
  BY <1>2, <1>3 DEF Grown
<1>5. Len(Grown(n)) = n
  BY <1>3, <1>4
<1>6. \A k \in 1 .. n : Grown(n)[k] = IF k \in DOMAIN results THEN results[k] ELSE Empty
  BY DEF Grown
<1> QED
  BY <1>1, <1>3, <1>4, <1>5, <1>6

(* Where the copy of a result goes: a block that was not in use, or none.  *)
LEMMA CopyIsFresh ==
  ASSUME TypeOK, NEW value \in Contents \cup {Empty},
         NEW ref \in Blocks \cup {Empty}, Copied(value, ref)
  PROVE  /\ memory' \in [Blocks -> Contents \cup {Empty}]
         /\ ref # Empty => ref \notin live
         /\ \A b \in live : memory'[b] = memory[b]
         /\ (IF ref = Empty THEN Empty ELSE memory'[ref]) = value
<1> USE EmptyAssumption
<1>1. CASE value = Empty
  BY <1>1 DEF Copied, TypeOK
<1>2. CASE value # Empty
  <2>1. ref \in Blocks \ live /\ memory' = [memory EXCEPT ![ref] = value]
    BY <1>2 DEF Copied
  <2> QED
    BY <2>1, <1>2 DEF TypeOK
<1> QED
  BY <1>1, <1>2

(* c_init starts from an empty list.                                       *)
LEMMA CInitKeeps == IInv /\ CInit => IInv'
<1> SUFFICES ASSUME IInv, CInit
             PROVE  IInv'
  OBVIOUS
<1> USE EmptyAssumption, MaxResultsAssumption
<1>1. Len(results) = 0 /\ results = <<>>
  BY DEF IInv, TypeOK, CInit
<1>2. results' = <<>> /\ Len(results') = 0 /\ DOMAIN results' = {}
  BY DEF CInit
<1>3. TypeOK'
  BY <1>2 DEF IInv, TypeOK, CInit
<1>4. EveryBlockAccounted'
  BY <1>1, <1>2 DEF IInv, EveryBlockAccounted, CInit
<1>5. ResultsAreLastAccepted'
  BY <1>2 DEF CInit, ResultsAreLastAccepted, Indices
<1> QED
  BY <1>3, <1>4, <1>5 DEF IInv

(* deinit frees what the slots own, and nothing that is lost.              *)
LEMMA CShutdownKeeps == IInv /\ CShutdown => IInv'
<1> SUFFICES ASSUME IInv, CShutdown
             PROVE  IInv'
  OBVIOUS
<1> USE EmptyAssumption, MaxResultsAssumption
<1>1. results' = <<>> /\ Len(results') = 0 /\ DOMAIN results' = {}
  BY DEF CShutdown
<1>2. TypeOK'
  <2>1. live' \subseteq Blocks
    BY DEF IInv, TypeOK, CShutdown
  <2>2. results' \in Seq(Blocks \cup {Empty})
    BY <1>1
  <2>3. Len(results') <= IF initialized' THEN MaxResults ELSE 0
    BY <1>1 DEF CShutdown
  <2>4. UNCHANGED <<memory, accepted, lost>> /\ initialized' = FALSE /\ rc' = "ok"
    BY DEF CShutdown
  <2> QED
    BY <2>1, <2>2, <2>3, <2>4 DEF IInv, TypeOK
<1>3. live' = lost
  BY DEF IInv, TypeOK, EveryBlockAccounted, CShutdown
<1>4. EveryBlockAccounted'
  BY <1>1, <1>3 DEF EveryBlockAccounted, CShutdown
<1>5. ResultsAreLastAccepted'
  BY DEF CShutdown, ResultsAreLastAccepted
<1> QED
  BY <1>2, <1>4, <1>5 DEF IInv

(* Calls that are refused, or fail to allocate the copy, change nothing    *)
(* but the result code.                                                    *)
LEMMA NoEffectKeeps ==
  ASSUME IInv, rc' \in {"ok", "err", "out_of_memory"},
         UNCHANGED <<initialized, results, live, memory, accepted, lost>>
  PROVE  IInv'
<1>1. TypeOK'
  BY DEF IInv, TypeOK
<1>2. EveryBlockAccounted'
  BY DEF IInv, EveryBlockAccounted
<1>3. ResultsAreLastAccepted'
  BY DEF IInv, ResultsAreLastAccepted, Read, Slot
<1> QED
  BY <1>1, <1>2, <1>3 DEF IInv

(* A failed append adds empty slots at most, and the copy is lost.         *)
LEMMA StoreCannotGrowKeeps ==
  ASSUME IInv, initialized, NEW i \in Indices, NEW value \in Contents \cup {Empty},
         StoreCannotGrow(i, value)
  PROVE  IInv'
<1> USE EmptyAssumption, MaxResultsAssumption
<1>1. PICK ref \in Blocks \cup {Empty} :
        /\ Copied(value, ref)
        /\ Len(results) < NeededSlots(i)
        /\ \E n \in Len(results) .. NeededSlots(i) - 1 : results' = Grown(n)
        /\ live' = live \cup ({ref} \ {Empty})
        /\ lost' = lost \cup ({ref} \ {Empty})
        /\ rc' = "out_of_memory"
        /\ UNCHANGED <<initialized, accepted>>
  BY DEF StoreCannotGrow
<1>2. results \in Seq(Blocks \cup {Empty}) /\ DOMAIN results = 1 .. Len(results)
      /\ Len(results) \in Nat /\ Len(results) <= MaxResults
  BY DEF IInv, TypeOK
<1>3. PICK n \in Len(results) .. NeededSlots(i) - 1 : results' = Grown(n)
  BY <1>1
<1>4. n \in Nat /\ n >= Len(results) /\ n <= MaxResults
  BY <1>2, <1>3 DEF NeededSlots, Indices
<1>5. /\ results' \in Seq(Blocks \cup {Empty})
      /\ Len(results') = n
      /\ DOMAIN results' = 1 .. n
      /\ \A k \in 1 .. Len(results) : results'[k] = results[k]
      /\ \A k \in Len(results) + 1 .. n : results'[k] = Empty
  BY <1>3, <1>4, GrownList DEF IInv
<1>6. /\ memory' \in [Blocks -> Contents \cup {Empty}]
      /\ ref # Empty => ref \notin live
      /\ \A b \in live : memory'[b] = memory[b]
  BY <1>1, CopyIsFresh DEF IInv
<1>7. TypeOK'
  BY <1>1, <1>4, <1>5, <1>6 DEF IInv, TypeOK
<1>8. Owned' = Owned
  BY <1>2, <1>4, <1>5 DEF Owned
<1>9. EveryBlockAccounted'
  <2>1. live' = Owned' \cup lost'
    BY <1>1, <1>8 DEF IInv, EveryBlockAccounted, Owned
  <2>2. Owned' \cap lost' = {}
    BY <1>1, <1>6, <1>8 DEF IInv, EveryBlockAccounted, Owned
  <2>3. \A j, k \in DOMAIN results' :
          results'[j] = results'[k] => j = k \/ results'[j] = Empty
    BY <1>2, <1>4, <1>5 DEF IInv, EveryBlockAccounted
  <2> QED
    BY <2>1, <2>2, <2>3 DEF EveryBlockAccounted, Owned
<1>10. ResultsAreLastAccepted'
  <2> SUFFICES ASSUME NEW j \in Indices
               PROVE  accepted[j] = IF j < Len(results')
                                    THEN Read(Slot(results, j))' ELSE Empty
    BY <1>1 DEF ResultsAreLastAccepted, Slot, Read
  <2>1. accepted[j] = IF j < Len(results) THEN Read(Slot(results, j)) ELSE Empty
    BY DEF IInv, ResultsAreLastAccepted
  <2>2. CASE j < Len(results)
    <3>1. j + 1 \in 1 .. Len(results) /\ j < Len(results')
      BY <2>2, <1>2, <1>4, <1>5 DEF Indices
    <3>2. results'[j + 1] = results[j + 1]
      BY <3>1, <1>5
    <3>3. results[j + 1] # Empty => results[j + 1] \in live
      BY <3>1, <1>2 DEF IInv, EveryBlockAccounted
    <3> QED
      BY <2>1, <2>2, <3>1, <3>2, <3>3, <1>6 DEF Slot, Read
  <2>3. CASE j \in Len(results) .. n - 1
    <3>1. j + 1 \in Len(results) + 1 .. n /\ j < Len(results') /\ ~(j < Len(results))
      BY <2>3, <1>2, <1>4, <1>5 DEF Indices
    <3> QED
      BY <2>1, <3>1, <1>5 DEF Slot, Read
  <2>4. CASE j >= n
    BY <2>1, <2>4, <1>2, <1>4, <1>5 DEF Indices
  <2> QED
    BY <2>2, <2>3, <2>4, <1>2, <1>4 DEF Indices
<1> QED
  BY <1>7, <1>9, <1>10 DEF IInv

(* An accepted store: slot i takes the copy, and its old block is freed.   *)
LEMMA StoreKeeps ==
  ASSUME IInv, initialized, NEW i \in Indices, NEW value \in Contents \cup {Empty},
         Store(i, value)
  PROVE  IInv'
<1> USE EmptyAssumption, MaxResultsAssumption
<1> DEFINE n == NeededSlots(i)
           grown == Grown(n)
<1>1. PICK ref \in Blocks \cup {Empty} :
        /\ Copied(value, ref)
        /\ Replaced(i, ref)
        /\ accepted' = [accepted EXCEPT ![i] = value]
        /\ rc' = "ok"
        /\ UNCHANGED <<initialized, lost>>
  BY DEF Store
<1>2. results \in Seq(Blocks \cup {Empty}) /\ DOMAIN results = 1 .. Len(results)
      /\ Len(results) \in Nat /\ Len(results) <= MaxResults
  BY DEF IInv, TypeOK
<1>3. n \in Nat /\ n >= Len(results) /\ n <= MaxResults /\ i + 1 \in 1 .. n
      /\ (n > Len(results) => n = i + 1)
  BY <1>2 DEF NeededSlots, Indices
<1>4. /\ grown \in Seq(Blocks \cup {Empty})
      /\ Len(grown) = n
      /\ DOMAIN grown = 1 .. n
      /\ \A k \in 1 .. Len(results) : grown[k] = results[k]
      /\ \A k \in Len(results) + 1 .. n : grown[k] = Empty
  <2> HIDE DEF n
  <2> QED
    BY <1>3, GrownList DEF IInv
<1>5. /\ live' = (live \cup ({ref} \ {Empty})) \ {grown[i + 1]}
      /\ results' = [grown EXCEPT ![i + 1] = ref]
  BY <1>1 DEF Replaced, Slot
<1> HIDE DEF n, grown
<1>6. /\ memory' \in [Blocks -> Contents \cup {Empty}]
      /\ ref # Empty => ref \notin live
      /\ \A b \in live : memory'[b] = memory[b]
      /\ (IF ref = Empty THEN Empty ELSE memory'[ref]) = value
  BY <1>1, CopyIsFresh DEF IInv
<1>7. /\ results' \in Seq(Blocks \cup {Empty})
      /\ Len(results') = n
      /\ DOMAIN results' = 1 .. n
      /\ results'[i + 1] = ref
      /\ \A k \in 1 .. n : k # i + 1 => results'[k] = grown[k]
  BY <1>3, <1>4, <1>5
<1>8. TypeOK'
  <2>1. live' \subseteq Blocks
    BY <1>5 DEF IInv, TypeOK
  <2> QED
    BY <1>1, <1>3, <1>6, <1>7, <2>1 DEF IInv, TypeOK
\* What the old list owned, seen through the grown one.
<1>9. /\ \A k \in 1 .. n : grown[k] # Empty => grown[k] \in live /\ grown[k] \notin lost
      /\ \A j, k \in 1 .. n : grown[j] = grown[k] => j = k \/ grown[j] = Empty
      /\ \A b \in live : b \in lost \/ \E k \in 1 .. n : grown[k] = b
      /\ lost \subseteq live
  <2>1. \A k \in 1 .. n : grown[k] # Empty => k \in 1 .. Len(results)
    BY <1>2, <1>3, <1>4
  <2>2. \A k \in 1 .. Len(results) : k \in 1 .. n /\ grown[k] = results[k]
    BY <1>2, <1>3, <1>4
  <2>3. /\ \A k \in 1 .. Len(results) :
              results[k] # Empty => results[k] \in live /\ results[k] \notin lost
        /\ \A b \in live : b \in lost \/ \E k \in 1 .. Len(results) : results[k] = b
        /\ lost \subseteq live
        /\ \A j, k \in 1 .. Len(results) :
              results[j] = results[k] => j = k \/ results[j] = Empty
    BY <1>2 DEF IInv, EveryBlockAccounted
  <2> QED
    BY <2>1, <2>2, <2>3
<1>10. EveryBlockAccounted'
  <2>1. Owned' = {b \in Blocks : \E k \in 1 .. n : results'[k] = b}
    <3>1. \A k \in 1 .. n : results'[k] \in Blocks \cup {Empty}
      BY <1>7
    <3> QED
      BY <3>1, <1>7 DEF Owned
  <2>2. Owned' \cap lost' = {}
    BY <2>1, <1>1, <1>6, <1>7, <1>9
  <2>3. live' = Owned' \cup lost'
    <3>1. ASSUME NEW b \in live'
          PROVE  b \in Owned' \cup lost'
      <4>1. CASE b = ref
        BY <4>1, <2>1, <1>3, <1>5, <1>7, <1>8 DEF TypeOK
      <4>2. CASE b # ref /\ b \notin lost
        <5>1. b \in live /\ b # grown[i + 1]
          BY <4>2, <1>5
        <5>2. PICK k \in 1 .. n : grown[k] = b
          BY <5>1, <4>2, <1>9
        <5> QED
          BY <5>1, <5>2, <1>7, <1>8, <2>1 DEF TypeOK
      <4> QED
        BY <4>1, <4>2, <1>1
    <3>2. ASSUME NEW b \in Owned'
          PROVE  b \in live'
      <4>1. PICK k \in 1 .. n : results'[k] = b
        BY <2>1
      <4>2. b # Empty
        BY DEF Owned
      <4>3. CASE k = i + 1
        BY <4>1, <4>2, <4>3, <1>3, <1>5, <1>6, <1>7, <1>9
      <4>4. CASE k # i + 1
        BY <4>1, <4>2, <4>4, <1>3, <1>5, <1>7, <1>9
      <4> QED
        BY <4>3, <4>4
    <3>3. ASSUME NEW b \in lost
          PROVE  b \in live'
      BY <1>3, <1>5, <1>9 DEF IInv, TypeOK
    <3> QED
      BY <3>1, <3>2, <3>3, <1>1
  <2>4. \A j, k \in DOMAIN results' :
          results'[j] = results'[k] => j = k \/ results'[j] = Empty
    BY <1>3, <1>6, <1>7, <1>9
  <2> QED
    BY <2>2, <2>3, <2>4 DEF EveryBlockAccounted, Owned
<1>11. ResultsAreLastAccepted'
  <2> SUFFICES ASSUME NEW j \in Indices
               PROVE  accepted'[j] = IF j < Len(results')
                                     THEN Read(Slot(results, j))' ELSE Empty
    BY <1>1 DEF ResultsAreLastAccepted
  <2>1. accepted[j] = IF j < Len(results) THEN Read(Slot(results, j)) ELSE Empty
    BY DEF IInv, ResultsAreLastAccepted
  <2>2. CASE j = i
    BY <2>2, <1>1, <1>3, <1>6, <1>7 DEF IInv, TypeOK, Slot, Read, Indices
  <2>3. CASE j # i
    <3>1. accepted'[j] = accepted[j]
      BY <2>3, <1>1 DEF IInv, TypeOK
    <3>2. CASE j < Len(results)
      <4>1. j + 1 \in 1 .. Len(results) /\ j + 1 \in 1 .. n /\ j + 1 # i + 1
            /\ j < Len(results')
        BY <2>3, <3>2, <1>2, <1>3, <1>7 DEF Indices
      <4>2. results'[j + 1] = results[j + 1]
        BY <4>1, <1>4, <1>7
      <4>3. results[j + 1] # Empty => results[j + 1] \in live
        BY <4>1, <1>2 DEF IInv, EveryBlockAccounted
      <4> QED
        BY <2>1, <3>1, <3>2, <4>1, <4>2, <4>3, <1>6 DEF Slot, Read
    <3>3. CASE ~(j < Len(results)) /\ j < n
      <4>1. j + 1 \in Len(results) + 1 .. n /\ j + 1 \in 1 .. n /\ j + 1 # i + 1
        BY <2>3, <3>3, <1>2, <1>3 DEF Indices
      <4>2. results'[j + 1] = Empty
        BY <4>1, <1>4, <1>7
      <4> QED
        BY <2>1, <3>1, <3>3, <4>2, <1>7 DEF Slot, Read
    <3>4. CASE ~(j < n)
      <4>1. ~(j < Len(results)) /\ ~(j < Len(results'))
        BY <3>4, <1>2, <1>3, <1>7 DEF Indices
      <4> QED
        BY <2>1, <3>1, <4>1
    <3> QED
      BY <3>2, <3>3, <3>4
  <2> QED
    BY <2>2, <2>3
<1> QED
  BY <1>8, <1>10, <1>11 DEF IInv

LEMMA Inductive == Spec => []IInv
<1>1. Init => IInv
  <2> SUFFICES ASSUME Init
               PROVE  IInv
    OBVIOUS
  <2>1. results = <<>> /\ Len(results) = 0 /\ DOMAIN results = {}
    BY DEF Init
  <2>2. TypeOK
    <3>1. results \in Seq(Blocks \cup {Empty})
      BY <2>1
    <3>2. Len(results) <= IF initialized THEN MaxResults ELSE 0
      BY <2>1, MaxResultsAssumption
    <3> QED
      BY <3>1, <3>2 DEF Init, TypeOK
  <2>3. EveryBlockAccounted
    BY <2>1 DEF Init, EveryBlockAccounted
  <2>4. ResultsAreLastAccepted
    BY DEF Init, ResultsAreLastAccepted
  <2> QED
    BY <2>2, <2>3, <2>4 DEF IInv
<1>2. IInv /\ [Next]_vars => IInv'
  <2> SUFFICES ASSUME IInv, [Next]_vars
               PROVE  IInv'
    OBVIOUS
  <2>1. CASE CInit
    BY <2>1, CInitKeeps
  <2>2. CASE Refused
    BY <2>2, NoEffectKeeps DEF Refused
  <2>3. CASE CShutdown
    BY <2>3, CShutdownKeeps
  <2>4. CASE CStoreResult
    <3>1. PICK i \in Indices, value \in Contents \cup {Empty} :
            /\ initialized
            /\ \/ value # Empty /\ StoreOutOfMemory
               \/ StoreCannotGrow(i, value)
               \/ Store(i, value)
      BY <2>4 DEF CStoreResult
    <3>2. CASE StoreOutOfMemory
      BY <3>2, NoEffectKeeps DEF StoreOutOfMemory
    <3>3. CASE StoreCannotGrow(i, value)
      BY <3>1, <3>3, StoreCannotGrowKeeps
    <3>4. CASE Store(i, value)
      BY <3>1, <3>4, StoreKeeps
    <3> QED
      BY <3>1, <3>2, <3>3, <3>4
  <2>5. CASE UNCHANGED vars
    <3>1. rc \in {"ok", "err", "out_of_memory"}
      BY DEF IInv, TypeOK
    <3> QED
      BY <2>5, <3>1, NoEffectKeeps DEF vars
  <2> QED
    BY <2>1, <2>2, <2>3, <2>4, <2>5 DEF Next
<1> QED
  BY <1>1, <1>2, PTL DEF Spec

(* Types are right, and the list of results is empty outside the bracket   *)
(* of c_init and c_shutdown.                                               *)
THEOREM TypeCorrect == Spec => []TypeOK
<1>1. IInv => TypeOK
  BY DEF IInv
<1> QED
  BY <1>1, Inductive, PTL

(* Nothing leaks but the copy of a failed append, nothing is freed twice   *)
(* or under a slot: deinit and c_store_result, over any heap.              *)
THEOREM BlocksAccounted == Spec => []EveryBlockAccounted
<1>1. IInv => EveryBlockAccounted
  BY DEF IInv
<1> QED
  BY <1>1, Inductive, PTL

(* Every slot reads as the last result c_store_result accepted for it.     *)
THEOREM ResultsKept == Spec => []ResultsAreLastAccepted
<1>1. IInv => ResultsAreLastAccepted
  BY DEF IInv
<1> QED
  BY <1>1, Inductive, PTL
=============================================================================
