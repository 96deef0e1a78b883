------------------------ MODULE Distribution_proofs ------------------------
(***************************************************************************)
(* The invariants of the distribution phase, for every number of locales   *)
(* and items, every grain, retry limit and hash, and every schedule.       *)
(***************************************************************************)
EXTENDS Distribution, Partitioning_proofs

-----------------------------------------------------------------------------
(* Type correctness                                                        *)

LEMMA Sets ==
  /\ Items \subseteq Nat /\ Tasks \subseteq Nat
  /\ 0 \in Items /\ 0 \in Tasks
  /\ \A i \in Items : i < NItems /\ i >= 0
BY NumLocalesAssumption, NItemsAssumption DEF Items, Tasks, Indices

LEMMA AssignedType == \A t \in Tasks : Assigned(t) \in SUBSET Items
<1> SUFFICES ASSUME NEW t \in Tasks PROVE Assigned(t) \subseteq Items
  OBVIOUS
<1>1. LocaleRange(t, NumLocales, NItems) \subseteq Items
  BY LocaleRangesPartition, NumLocalesAssumption, NItemsAssumption
     DEF IsPartition, Items, Tasks
<1>2. ChunkItems(t, NumLocales, NItems, GrainSize) \subseteq Items
  BY ChunkItemsPartition, NumLocalesAssumption, NItemsAssumption, GrainSizeAssumption
     DEF IsPartition, Items, Tasks
<1> QED
  BY <1>1, <1>2 DEF Assigned

LEMMA InitTypeOK == Init => TypeOK
<1> SUFFICES ASSUME Init PROVE TypeOK
  OBVIOUS
<1>1. todo \in [Tasks -> SUBSET Items]
  <2>1. CASE strategy = "keyed"
    BY <2>1 DEF Init, InitialTodo
  <2>2. CASE strategy = "spatial"
    BY <2>2 DEF Init, InitialTodo
  <2>3. CASE strategy \notin {"keyed", "spatial"}
    BY <2>3, AssignedType DEF Init, InitialTodo
  <2> QED
    BY <2>1, <2>2, <2>3
<1>2. pool \in 0 .. NItems
  BY NItemsAssumption DEF Init
<1>3. attempt \in [Tasks -> 0 .. MaxRetries]
  BY MaxRetriesAssumption DEF Init
<1> QED
  BY <1>1, <1>2, <1>3, Sets DEF Init, TypeOK, Labels, Buffer

LEMMA StepTypeOK == TypeOK /\ [Next]_vars => TypeOK'
<1> SUFFICES ASSUME TypeOK, [Next]_vars PROVE TypeOK'
  OBVIOUS
<1> USE DEF TypeOK, vars, loop, slots, At, Goto, Labels
<1>1. ASSUME NEW t \in Tasks, Claim(t)
      PROVE  TypeOK'
  <2>1. Lesser(pool + GrainSize, NItems) \in 0 .. NItems
    BY NItemsAssumption, GrainSizeAssumption DEF Lesser
  <2>2. pool .. Lesser(pool + GrainSize, NItems) - 1 \in SUBSET Items
    BY <2>1, NItemsAssumption DEF Items, Indices
  <2> QED
    BY <1>1, <2>1, <2>2 DEF Claim
<1>2. ASSUME NEW t \in Tasks, TrailingChunk(t)
      PROVE  TypeOK'
  BY <1>2 DEF TrailingChunk
<1>3. ASSUME NEW t \in Tasks, SkipItem(t)
      PROVE  TypeOK'
  BY <1>3 DEF SkipItem
<1>4. ASSUME NEW t \in Tasks, TakeItem(t)
      PROVE  TypeOK'
  BY <1>4, Sets, MaxRetriesAssumption DEF TakeItem, Buffer
<1>5. ASSUME NEW t \in Tasks, CallSucceeds(t)
      PROVE  TypeOK'
  <2>1. attempt[t] + 1 \in 0 .. MaxRetries
    BY <1>5, MaxRetriesAssumption DEF CallSucceeds
  <2>2. calls[cur[t]] + 1 \in Nat \ {0} /\ cur[t] \in Items
    OBVIOUS
  <2>3. <<cur[t], calls[cur[t]] + 1>> \in Buffer
    BY <2>2 DEF Buffer
  <2> QED
    BY <1>5, <2>1, <2>2, <2>3 DEF CallSucceeds
<1>6. ASSUME NEW t \in Tasks, CallFails(t)
      PROVE  TypeOK'
  <2>1. attempt[t] + 1 \in 0 .. MaxRetries
    BY <1>6, MaxRetriesAssumption DEF CallFails
  <2>2. calls[cur[t]] + 1 \in Nat /\ cur[t] \in Items
    OBVIOUS
  <2> QED
    BY <1>6, <2>1, <2>2 DEF CallFails
<1>7. ASSUME NEW t \in Tasks, GiveUp(t)
      PROVE  TypeOK'
  BY <1>7 DEF GiveUp
<1>8. ASSUME NEW t \in Tasks, WriteData(t)
      PROVE  TypeOK'
  BY <1>8 DEF WriteData
<1>9. ASSUME NEW t \in Tasks, WriteSize(t)
      PROVE  TypeOK'
  BY <1>9 DEF WriteSize
<1>10. ASSUME NEW t \in Tasks, WriteOk(t)
      PROVE  TypeOK'
  BY <1>10 DEF WriteOk
<1>11. ASSUME NEW t \in Tasks, EndLoop(t)
      PROVE  TypeOK'
  BY <1>11 DEF EndLoop
<1>12. ASSUME NEW t \in Tasks, Checkpoint(t)
      PROVE  TypeOK'
  BY <1>12 DEF Checkpoint
<1>13. CASE Join
  BY <1>13 DEF Join
<1>14. CASE UNCHANGED vars
  BY <1>14
<1> QED
  BY <1>1, <1>2, <1>3, <1>4, <1>5, <1>6, <1>7, <1>8, <1>9, <1>10, <1>11, <1>12, <1>13, <1>14 DEF Next, TaskStep, MoreIndices, Finished

(* Every reachable state of the phase is well typed.                       *)
THEOREM TypeCorrect == Spec => []TypeOK
<1>1. Init => TypeOK
  BY InitTypeOK
<1>2. TypeOK /\ [Next]_vars => TypeOK'
  BY StepTypeOK
<1> QED
  BY <1>1, <1>2, PTL DEF Spec, SafeSpec

-----------------------------------------------------------------------------
(* Ownership of items                                                      *)

\* Nothing changes hands in this step.
SameOwners ==
  \A i \in Items :
    /\ Unclaimed(i)' <=> Unclaimed(i)
    /\ \A s \in Tasks : /\ Owes(s, i)' <=> Owes(s, i)
                        /\ InHand(s, i)' <=> InHand(s, i)

\* Task t is done with item k, and nothing else changes hands.
Released(t, k) ==
  /\ InHand(t, k)
  /\ \A i \in Items :
       /\ Unclaimed(i)' <=> Unclaimed(i)
       /\ \A s \in Tasks : /\ Owes(s, i)' <=> Owes(s, i)
                           /\ InHand(s, i)' <=> InHand(s, i) /\ ~(s = t /\ i = k)

(* While nothing changes hands, the one-owner property and who an assigned *)
(* item belongs to are kept.                                               *)
LEMMA SameOwnersKeep ==
  ASSUME OneOwner, SameOwners, strategy' = strategy
  PROVE  /\ OneOwner'
         /\ \A i \in Items : Pending(i)' <=> Pending(i)
         /\ \A t \in Tasks : Assigned(t)' = Assigned(t)
<1>1. OneOwner'
  BY DEF OneOwner, SameOwners
<1>2. \A i \in Items : Pending(i)' <=> Pending(i)
  BY DEF Pending, SameOwners
<1>3. \A t \in Tasks : Assigned(t)' = Assigned(t)
  BY DEF Assigned
<1> QED
  BY <1>1, <1>2, <1>3

(* An item that is released has no owner afterwards, all others have the   *)
(* owner they had.                                                         *)
LEMMA ReleaseKeeps ==
  ASSUME OneOwner, NEW t \in Tasks, NEW k \in Items, Released(t, k),
         strategy' = strategy
  PROVE  /\ OneOwner'
         /\ \A i \in Items : Pending(i)' <=> Pending(i) /\ i # k
         /\ \A s \in Tasks : Assigned(s)' = Assigned(s)
<1>1. OneOwner'
  BY DEF OneOwner, Released
<1>2. \A i \in Items : Pending(i)' <=> Pending(i) /\ i # k
  <2> TAKE i \in Items
  <2>1. ~Unclaimed(k) /\ \A s \in Tasks : ~Owes(s, k) /\ (InHand(s, k) => s = t)
    BY DEF OneOwner, Released
  <2> QED
    BY <2>1 DEF Pending, Released
<1>3. \A s \in Tasks : Assigned(s)' = Assigned(s)
  BY DEF Assigned
<1> QED
  BY <1>1, <1>2, <1>3

-----------------------------------------------------------------------------
(* The invariant holds initially                                           *)

\* Every item has exactly one first owner.
LEMMA InitOwners ==
  ASSUME Init
  PROVE  /\ \A i \in Items : Pending(i)
         /\ \A i \in Items : \A s, t \in Tasks : Owes(s, i) /\ Owes(t, i) => s = t
         /\ \A i \in Items : Unclaimed(i) => \A t \in Tasks : ~Owes(t, i)
         /\ \A t \in Tasks, i \in Items : ~InHand(t, i)
         /\ \A t \in Tasks : \A i \in Assigned(t) : Owes(t, i)
<1>1. \A t \in Tasks, i \in Items : ~InHand(t, i)
  BY DEF Init, InHand, Busy
<1> USE DEF Owes, Unclaimed, Pending
<1>2. CASE strategy = "per-item"
  <2>1. \A t \in Tasks : todo[t] = LocaleRange(t, NumLocales, NItems)
                         /\ Assigned(t) = LocaleRange(t, NumLocales, NItems)
    BY <1>2 DEF Init, InitialTodo, Assigned
  <2>2. /\ \A i \in Items : \E t \in Tasks : i \in LocaleRange(t, NumLocales, NItems)
        /\ \A s, t \in Tasks : s # t =>
             LocaleRange(s, NumLocales, NItems) \cap LocaleRange(t, NumLocales, NItems) = {}
    BY LocaleRangesPartition, NumLocalesAssumption, NItemsAssumption
       DEF IsPartition, Items, Tasks
  <2> QED
    BY <1>1, <1>2, <2>1, <2>2
<1>3. CASE strategy = "chunk"
  <2>1. \A t \in Tasks : todo[t] = ChunkItems(t, NumLocales, NItems, GrainSize)
                         /\ Assigned(t) = ChunkItems(t, NumLocales, NItems, GrainSize)
    BY <1>3 DEF Init, InitialTodo, Assigned
  <2>2. /\ \A i \in Items : \E t \in Tasks : i \in ChunkItems(t, NumLocales, NItems, GrainSize)
        /\ \A s, t \in Tasks : s # t =>
             ChunkItems(s, NumLocales, NItems, GrainSize)
               \cap ChunkItems(t, NumLocales, NItems, GrainSize) = {}
    BY ChunkItemsPartition, NumLocalesAssumption, NItemsAssumption, GrainSizeAssumption
       DEF IsPartition, Items, Tasks
  <2> QED
    BY <1>1, <1>3, <2>1, <2>2
<1>4. CASE strategy = "adaptive"
  <2>1. pool = 0 /\ \A t \in Tasks : todo[t] = {} /\ Assigned(t) = {}
    BY <1>4 DEF Init, InitialTodo, Assigned
  <2>2. \A i \in Items : pool <= i
    BY <2>1, Sets
  <2> QED
    BY <1>1, <1>4, <2>1, <2>2
<1>5. CASE strategy = "spatial"
  <2>1. PICK owner \in BlockOwners : todo = [t \in Tasks |-> {i \in Items : owner[i] = t}]
    BY <1>5 DEF Init, InitialTodo
  <2>2. \A i \in Items : owner[i] \in Tasks
    BY <2>1 DEF BlockOwners
  <2>3. \A t \in Tasks : Assigned(t) = {}
    BY <1>5 DEF Assigned
  <2> QED
    BY <1>1, <1>5, <2>1, <2>2, <2>3
<1>6. CASE strategy = "keyed"
  <2>1. \A t \in Tasks : todo[t] = Items
    BY <1>6 DEF Init, InitialTodo
  <2>2. \A t \in Tasks :
          Assigned(t) = {i \in Items : KeyOwner(KeyHash[i], NumLocales) = t}
    BY <1>6 DEF Assigned
  <2>3. \A i \in Items : KeyOwner(KeyHash[i], NumLocales) \in Tasks
    <3> TAKE i \in Items
    <3>1. KeyHash[i] \in Nat
      BY KeyHashAssumption DEF Items
    <3>2. KeyHash[i] % NumLocales \in 0 .. NumLocales - 1
      BY <3>1, NumLocalesAssumption, DivMod
    <3> QED
      BY <3>2 DEF KeyOwner, Tasks, Indices
  <2> QED
    BY <1>1, <1>6, <2>1, <2>2, <2>3
<1> QED
  BY <1>2, <1>3, <1>4, <1>5, <1>6, StrategiesAssumption DEF Init

LEMMA InitIInv == SoundConstants /\ Init => IInv
<1> SUFFICES ASSUME SoundConstants, Init PROVE IInv
  OBVIOUS
<1>1. TypeOK
  BY InitTypeOK
<1>2. Quiet
  BY DEF Init, Quiet, SoundConstants
<1>3. OneOwner
  BY InitOwners DEF OneOwner
<1>4. FreshUntilTaken
  BY DEF Init, FreshUntilTaken, Fresh, Empty
<1>5. HandProgress
  BY InitOwners DEF HandProgress
<1>6. SlotCoherent /\ AttemptsBounded
  BY MaxRetriesAssumption DEF Init, SlotCoherent, AttemptsBounded
<1>7. NoneLost
  BY InitOwners DEF NoneLost
<1>8. EndedTasksOweNothing
  BY DEF Init, EndedTasksOweNothing
<1> QED
  BY <1>1, <1>2, <1>3, <1>4, <1>5, <1>6, <1>7, <1>8 DEF IInv

-----------------------------------------------------------------------------
(* Every step keeps the invariant: one lemma for each action.              *)

\* The step decides no item.
SameVerdicts ==
  /\ joined' = joined
  /\ \A i \in Items : (Pending(i)' <=> Pending(i)) /\ resultOk'[i] = resultOk[i]

\* The step decides one item, before the tasks are joined.
OneVerdict ==
  /\ ~joined /\ joined' = joined
  /\ \E k \in Items :
       /\ Pending(k) /\ ~Pending(k)'
       /\ \A i \in Items \ {k} :
            (Pending(i)' <=> Pending(i)) /\ resultOk'[i] = resultOk[i]

(* The pool's next items pass from nobody to the worker that claims them.   *)
LEMMA ClaimKeeps ==
  ASSUME SoundConstants, IInv, TypeOK', NEW t \in Tasks,
         At(t, "loop"), todo[t] = {}, Claim(t)
  PROVE  IInv' /\ SuccessKept /\ SameVerdicts
<1> USE DEF IInv
<1> DEFINE m == Lesser(pool + GrainSize, NItems)
<1>1. /\ pool \in 0 .. NItems /\ m \in 0 .. NItems /\ pool <= m
      /\ todo' = [todo EXCEPT ![t] = pool .. m - 1] /\ pool' = m
      /\ todo[t] = {} /\ strategy = "adaptive"
  BY NItemsAssumption, GrainSizeAssumption DEF Claim, TypeOK, Lesser
<1> HIDE DEF m
<1>2. \A i \in Items : i \in Nat
  BY Sets
<1>3. UNCHANGED <<strategy, trailing, pc, cur, attempt, localOut, slots,
                  saved, joined, halted, calls>>
  BY DEF Claim
<1>4. \A i \in Items : \A s \in Tasks :
        /\ InHand(s, i)' <=> InHand(s, i)
        /\ Owes(s, i)' <=> Owes(s, i) \/ (s = t /\ pool <= i /\ i < m)
        /\ Unclaimed(i)' <=> m <= i
        /\ Unclaimed(i) <=> pool <= i
  <2>1. \A s \in Tasks : todo'[s] = IF s = t THEN pool .. m - 1 ELSE todo[s]
    BY <1>1 DEF TypeOK
  <2>2. \A i \in Items : i \in pool .. m - 1 <=> pool <= i /\ i < m
    BY <1>1, <1>2
  <2> QED
    BY <1>1, <1>3, <2>1, <2>2 DEF InHand, Owes, Unclaimed, Busy
<1>5. OneOwner'
  BY <1>1, <1>2, <1>4 DEF OneOwner
<1>6. \A i \in Items : Pending(i)' <=> Pending(i)
  BY <1>1, <1>2, <1>4 DEF Pending
<1>7. Quiet'
  BY <1>3 DEF Quiet
<1>8. FreshUntilTaken'
  BY <1>1, <1>2, <1>3, <1>4 DEF FreshUntilTaken, Fresh, Empty, slots
<1>9. HandProgress'
  BY <1>3, <1>4 DEF HandProgress, SlotProgress, slots
<1>10. SlotCoherent' /\ AttemptsBounded'
  BY <1>3 DEF SlotCoherent, AttemptsBounded, slots
<1>11. NoneLost'
  <2>1. \A s \in Tasks : Assigned(s)' = {}
    BY <1>1, <1>3 DEF Assigned
  <2>2. \A i \in Items : Decided(i)' <=> Decided(i)
    BY <1>3 DEF Decided, slots
  <2> QED
    BY <1>6, <2>1, <2>2 DEF NoneLost
<1>12. EndedTasksOweNothing'
  <2>1. pc[t] = "loop"
    BY DEF Claim, At
  <2>2. ASSUME NEW s \in Tasks, pc[s] \in {"checkpoint", "done"}
        PROVE  LoopExhausted(s)'
    <3>1. s # t /\ LoopExhausted(s)
      BY <2>1, <2>2 DEF EndedTasksOweNothing
    <3>2. FALSE
      BY <1>1, <3>1, NItemsAssumption DEF LoopExhausted, Claim
    <3> QED
      BY <3>2
  <2> QED
    BY <1>3, <2>2 DEF EndedTasksOweNothing
<1>13. SuccessKept /\ SameVerdicts
  BY <1>3, <1>6 DEF SuccessKept, SameVerdicts, slots
<1> QED
  BY <1>5, <1>7, <1>8, <1>9, <1>10, <1>11, <1>12, <1>13

(* No chunk loop has an index left past its last chunk.                    *)
LEMMA TrailingChunkKeeps ==
  ASSUME IInv, NEW t \in Tasks, TrailingChunk(t)
  PROVE  FALSE
BY DEF IInv, Quiet, TrailingChunk

(* A skipped item is one the task never owed.                              *)
LEMMA SkipItemKeeps ==
  ASSUME SoundConstants, IInv, TypeOK', NEW t \in Tasks, SkipItem(t)
  PROVE  IInv' /\ SuccessKept /\ SameVerdicts
<1> USE DEF IInv
<1>1. PICK k \in Items : /\ IsNext(t, k) /\ MaySkip(t, k)
                         /\ todo' = [todo EXCEPT ![t] = @ \ {k}]
  BY DEF SkipItem
<1>2. UNCHANGED <<strategy, trailing, pool, pc, cur, attempt, localOut, slots,
                  saved, joined, halted, calls>>
  BY DEF SkipItem
<1>3. strategy = "keyed" /\ KeyOwner(KeyHash[k], NumLocales) # t
  <2>1. strategy = "keyed"
    BY <1>1 DEF MaySkip
  <2>2. ReadsKey(t)
    <3>1. RemotePointers \/ NumLocales = 1
      BY <2>1 DEF SoundConstants, TypeOK
    <3>2. NumLocales = 1 => t = 0
      BY DEF Tasks, Indices
    <3> QED
      BY <3>1, <3>2 DEF ReadsKey
  <2> QED
    BY <1>1, <2>1, <2>2 DEF MaySkip
<1>4. SameOwners
  <2>1. \A s \in Tasks : todo'[s] = IF s = t THEN todo[t] \ {k} ELSE todo[s]
    BY <1>1 DEF TypeOK
  <2> QED
    BY <1>2, <1>3, <2>1 DEF SameOwners, Unclaimed, Owes, InHand, Busy
<1>5. /\ OneOwner'
      /\ \A i \in Items : Pending(i)' <=> Pending(i)
      /\ \A s \in Tasks : Assigned(s)' = Assigned(s)
  BY <1>2, <1>4, SameOwnersKeep
<1>6. Quiet' /\ SlotCoherent' /\ AttemptsBounded'
  BY <1>2 DEF Quiet, SlotCoherent, AttemptsBounded, slots
<1>7. FreshUntilTaken'
  BY <1>2, <1>4 DEF SameOwners, FreshUntilTaken, Fresh, Empty, slots
<1>8. HandProgress'
  BY <1>2, <1>4 DEF SameOwners, HandProgress, SlotProgress, slots
<1>9. NoneLost'
  BY <1>2, <1>4, <1>5 DEF SameOwners, NoneLost, Decided, slots
<1>10. EndedTasksOweNothing'
  <2>1. \A s \in Tasks : todo'[s] \subseteq todo[s]
    BY <1>1 DEF TypeOK
  <2> QED
    BY <1>2, <2>1 DEF EndedTasksOweNothing, LoopExhausted
<1>11. SuccessKept /\ SameVerdicts
  BY <1>2, <1>5 DEF SuccessKept, SameVerdicts, slots
<1> QED
  BY <1>5, <1>6, <1>7, <1>8, <1>9, <1>10, <1>11

(* The item passes from the task's loop to its hand, untouched so far.     *)
LEMMA TakeItemKeeps ==
  ASSUME SoundConstants, IInv, TypeOK', NEW t \in Tasks, TakeItem(t)
  PROVE  IInv' /\ SuccessKept /\ SameVerdicts
<1> USE DEF IInv
<1>1. PICK k \in Items : /\ IsNext(t, k) /\ MayTake(t, k)
                         /\ todo' = [todo EXCEPT ![t] = @ \ {k}]
                         /\ cur' = [cur EXCEPT ![t] = k]
  BY DEF TakeItem
<1>2. /\ UNCHANGED <<strategy, trailing, pool, slots, saved, joined, halted, calls>>
      /\ attempt' = [attempt EXCEPT ![t] = 0]
      /\ localOut' = [localOut EXCEPT ![t] = NoOutput]
      /\ pc' = [pc EXCEPT ![t] = "call"]
      /\ pc[t] = "loop"
  BY DEF TakeItem, At, Goto
<1>3. Owes(t, k) /\ \A i \in Items : ~InHand(t, i)
  <2>1. k \in todo[t]
    BY <1>1 DEF IsNext
  <2>2. strategy = "keyed" => KeyOwner(KeyHash[k], NumLocales) = t
    <3>1. strategy = "keyed" => RemotePointers \/ NumLocales = 1
      BY DEF SoundConstants, TypeOK
    <3>2. NumLocales = 1 => t = 0
      BY DEF Tasks, Indices
    <3> QED
      BY <1>1, <3>1, <3>2 DEF MayTake, ReadsKey
  <2> QED
    BY <1>2, <2>1, <2>2 DEF Owes, InHand, Busy
<1>4. \A i \in Items :
        /\ Unclaimed(i)' <=> Unclaimed(i)
        /\ \A s \in Tasks :
             /\ Owes(s, i)' <=> Owes(s, i) /\ ~(s = t /\ i = k)
             /\ InHand(s, i)' <=> InHand(s, i) \/ (s = t /\ i = k)
  <2>1. \A s \in Tasks : /\ todo'[s] = IF s = t THEN todo[t] \ {k} ELSE todo[s]
                         /\ cur'[s] = IF s = t THEN k ELSE cur[s]
                         /\ pc'[s] = IF s = t THEN "call" ELSE pc[s]
    BY <1>1, <1>2 DEF TypeOK
  <2>2. \A i \in Items : Unclaimed(i)' <=> Unclaimed(i)
    BY <1>2 DEF Unclaimed
  <2>3. \A i \in Items : \A s \in Tasks : Owes(s, i)' <=> Owes(s, i) /\ ~(s = t /\ i = k)
    BY <1>2, <2>1 DEF Owes
  <2>4. \A i \in Items : \A s \in Tasks : InHand(s, i)' <=> InHand(s, i) \/ (s = t /\ i = k)
    BY <1>2, <2>1 DEF InHand, Busy
  <2> QED
    BY <2>2, <2>3, <2>4
<1>5. OneOwner'
  BY <1>3, <1>4 DEF OneOwner
<1>6. \A i \in Items : Pending(i)' <=> Pending(i)
  BY <1>3, <1>4 DEF Pending
<1>7. Quiet' /\ SlotCoherent' /\ AttemptsBounded'
  BY <1>2 DEF Quiet, SlotCoherent, AttemptsBounded, slots
<1>8. FreshUntilTaken'
  BY <1>2, <1>4 DEF FreshUntilTaken, Fresh, Empty, slots
<1>9. HandProgress'
  <2> SUFFICES ASSUME NEW s \in Tasks, NEW i \in Items, InHand(s, i)'
               PROVE  SlotProgress(s, i)'
    BY DEF HandProgress
  <2>1. CASE s = t
    <3>1. i = k /\ Fresh(k)
      BY <1>3, <1>4, <2>1 DEF FreshUntilTaken
    <3>2. pc'[s] = "call" /\ attempt'[s] = 0
      BY <1>2, <2>1 DEF TypeOK
    <3> QED
      BY <1>2, <3>1, <3>2 DEF SlotProgress, Fresh, Empty, slots
  <2>2. CASE s # t
    <3>1. SlotProgress(s, i)
      BY <1>4, <2>2 DEF HandProgress
    <3>2. pc'[s] = pc[s] /\ attempt'[s] = attempt[s] /\ localOut'[s] = localOut[s]
      BY <1>2, <2>2 DEF TypeOK
    <3> QED
      BY <1>2, <3>1, <3>2 DEF SlotProgress, slots
  <2> QED
    BY <2>1, <2>2
<1>10. NoneLost'
  <2>1. \A s \in Tasks : Assigned(s)' = Assigned(s)
    BY <1>2 DEF Assigned
  <2>2. \A i \in Items : Decided(i)' <=> Decided(i)
    BY <1>2 DEF Decided, slots
  <2> QED
    BY <1>4, <1>6, <2>1, <2>2 DEF NoneLost
<1>11. EndedTasksOweNothing'
  <2>1. \A s \in Tasks : /\ pc'[s] \in {"checkpoint", "done"} => s # t /\ pc'[s] = pc[s]
                         /\ s # t => todo'[s] = todo[s] /\ pc'[s] = pc[s]
    BY <1>1, <1>2 DEF TypeOK
  <2> QED
    BY <1>2, <2>1 DEF EndedTasksOweNothing, LoopExhausted, TypeOK
<1>12. SuccessKept /\ SameVerdicts
  BY <1>2, <1>6 DEF SuccessKept, SameVerdicts, slots
<1> QED
  BY <1>5, <1>7, <1>8, <1>9, <1>10, <1>11, <1>12

(* The call is counted and its output is the one the task now holds.       *)
LEMMA CallSucceedsKeeps ==
  ASSUME SoundConstants, IInv, TypeOK', NEW t \in Tasks, CallSucceeds(t)
  PROVE  IInv' /\ SuccessKept /\ SameVerdicts
<1> USE DEF IInv
<1>0. PICK k \in Items : k = cur[t]
  BY DEF TypeOK
<1>1. /\ pc[t] = "call" /\ \A s \in Tasks : pc'[s] = IF s = t THEN "data" ELSE pc[s]
      /\ attempt[t] < MaxRetries
      /\ \A s \in Tasks : attempt'[s] = IF s = t THEN attempt[t] + 1 ELSE attempt[s]
      /\ \A s \in Tasks :
           localOut'[s] = IF s = t THEN <<cur[t], calls[cur[t]] + 1>> ELSE localOut[s]
      /\ \A i \in Items : calls'[i] = IF i = cur[t] THEN calls[i] + 1 ELSE calls[i]
  BY DEF CallSucceeds, At, Goto, TypeOK, loop, slots
<1>2. UNCHANGED <<strategy, todo, trailing, pool, cur, resultData,
                  resultSizes, resultOk, saved, joined, halted>>
  BY DEF CallSucceeds, loop, slots
<1>3. k \in Items /\ InHand(t, k) /\ SlotProgress(t, k)
  <2>1. k \in Items /\ InHand(t, k)
    BY <1>0, <1>1 DEF InHand, Busy
  <2> QED
    BY <2>1 DEF HandProgress
<1>4. SameOwners
  BY <1>1, <1>2 DEF SameOwners, Unclaimed, Owes, InHand, Busy
<1>5. /\ OneOwner'
      /\ \A i \in Items : Pending(i)' <=> Pending(i)
      /\ \A s \in Tasks : Assigned(s)' = Assigned(s)
  BY <1>2, <1>4, SameOwnersKeep
<1>6. \A i \in Items : i # k =>
        /\ calls'[i] = calls[i] /\ resultOk'[i] = resultOk[i]
        /\ resultData'[i] = resultData[i] /\ resultSizes'[i] = resultSizes[i]
  BY <1>0, <1>1, <1>2 DEF TypeOK
<1>7. /\ calls'[k] = attempt'[t] /\ calls'[k] <= MaxRetries
      /\ localOut'[t] = <<k, calls'[k]>>
  BY <1>0, <1>1, <1>2, <1>3, MaxRetriesAssumption DEF TypeOK, SlotProgress
<1>8. Quiet' /\ SlotCoherent' /\ AttemptsBounded'
  BY <1>2, <1>3, <1>6, <1>7 DEF Quiet, SlotCoherent, AttemptsBounded, SlotProgress
<1>9. FreshUntilTaken'
  <2>1. ~Unclaimed(k) /\ \A s \in Tasks : ~Owes(s, k)
    BY <1>3 DEF OneOwner
  <2> QED
    BY <1>4, <1>6, <2>1 DEF SameOwners, FreshUntilTaken, Fresh, Empty
<1>10. HandProgress'
  <2> SUFFICES ASSUME NEW s \in Tasks, NEW i \in Items, InHand(s, i)'
               PROVE  SlotProgress(s, i)'
    BY DEF HandProgress
  <2>1. InHand(s, i) /\ SlotProgress(s, i)
    BY <1>4 DEF SameOwners, HandProgress
  <2>2. CASE s = t
    <3>1. i = k
      BY <1>3, <2>1, <2>2 DEF InHand
    <3> QED
      BY <1>1, <1>2, <1>3, <1>7, <2>2, <3>1 DEF SlotProgress
  <2>3. CASE s # t
    <3>1. i # k
      BY <1>3, <2>1, <2>3 DEF OneOwner
    <3>2. pc'[s] = pc[s] /\ attempt'[s] = attempt[s] /\ localOut'[s] = localOut[s]
      BY <1>1, <1>2, <2>3
    <3> QED
      BY <1>6, <2>1, <3>1, <3>2 DEF SlotProgress
  <2> QED
    BY <2>2, <2>3
<1>11. NoneLost'
  <2>1. Pending(k)
    BY <1>3 DEF Pending
  <2> QED
    BY <1>4, <1>5, <1>6, <2>1 DEF SameOwners, NoneLost, Decided
<1>12. EndedTasksOweNothing'
  BY <1>1, <1>2 DEF EndedTasksOweNothing, LoopExhausted, TypeOK
<1>13. SuccessKept /\ SameVerdicts
  <2>1. ~resultOk[k]
    BY <1>3 DEF SlotProgress
  <2> QED
    BY <1>2, <1>5, <1>6, <2>1 DEF SuccessKept, SameVerdicts
<1> QED
  BY <1>5, <1>8, <1>9, <1>10, <1>11, <1>12, <1>13

(* The call is counted; the slot stays empty.                              *)
LEMMA CallFailsKeeps ==
  ASSUME SoundConstants, IInv, TypeOK', NEW t \in Tasks, CallFails(t)
  PROVE  IInv' /\ SuccessKept /\ SameVerdicts
<1> USE DEF IInv
<1>0. PICK k \in Items : k = cur[t]
  BY DEF TypeOK
<1>1. /\ pc[t] = "call" /\ \A s \in Tasks : pc'[s] = pc[s]
      /\ attempt[t] < MaxRetries
      /\ \A s \in Tasks : attempt'[s] = IF s = t THEN attempt[t] + 1 ELSE attempt[s]
      /\ \A s \in Tasks : localOut'[s] = localOut[s]
      /\ \A i \in Items : calls'[i] = IF i = cur[t] THEN calls[i] + 1 ELSE calls[i]
  BY DEF CallFails, At, Goto, TypeOK, loop, slots
<1>2. UNCHANGED <<strategy, todo, trailing, pool, cur, resultData,
                  resultSizes, resultOk, saved, joined, halted>>
  BY DEF CallFails, loop, slots
<1>3. k \in Items /\ InHand(t, k) /\ SlotProgress(t, k)
  <2>1. k \in Items /\ InHand(t, k)
    BY <1>0, <1>1 DEF InHand, Busy
  <2> QED
    BY <2>1 DEF HandProgress
<1>4. SameOwners
  BY <1>1, <1>2 DEF SameOwners, Unclaimed, Owes, InHand, Busy
<1>5. /\ OneOwner'
      /\ \A i \in Items : Pending(i)' <=> Pending(i)
      /\ \A s \in Tasks : Assigned(s)' = Assigned(s)
  BY <1>2, <1>4, SameOwnersKeep
<1>6. \A i \in Items : i # k =>
        /\ calls'[i] = calls[i] /\ resultOk'[i] = resultOk[i]
        /\ resultData'[i] = resultData[i] /\ resultSizes'[i] = resultSizes[i]
  BY <1>0, <1>1, <1>2 DEF TypeOK
<1>7. /\ calls'[k] = attempt'[t] /\ calls'[k] <= MaxRetries
  BY <1>0, <1>1, <1>2, <1>3, MaxRetriesAssumption DEF TypeOK, SlotProgress
<1>8. Quiet' /\ SlotCoherent' /\ AttemptsBounded'
  BY <1>2, <1>3, <1>6, <1>7 DEF Quiet, SlotCoherent, AttemptsBounded, SlotProgress
<1>9. FreshUntilTaken'
  <2>1. ~Unclaimed(k) /\ \A s \in Tasks : ~Owes(s, k)
    BY <1>3 DEF OneOwner
  <2> QED
    BY <1>4, <1>6, <2>1 DEF SameOwners, FreshUntilTaken, Fresh, Empty
<1>10. HandProgress'
  <2> SUFFICES ASSUME NEW s \in Tasks, NEW i \in Items, InHand(s, i)'
               PROVE  SlotProgress(s, i)'
    BY DEF HandProgress
  <2>1. InHand(s, i) /\ SlotProgress(s, i)
    BY <1>4 DEF SameOwners, HandProgress
  <2>2. CASE s = t
    <3>1. i = k
      BY <1>3, <2>1, <2>2 DEF InHand
    <3> QED
      BY <1>1, <1>2, <1>3, <1>7, <2>2, <3>1 DEF SlotProgress
  <2>3. CASE s # t
    <3>1. i # k
      BY <1>3, <2>1, <2>3 DEF OneOwner
    <3>2. pc'[s] = pc[s] /\ attempt'[s] = attempt[s] /\ localOut'[s] = localOut[s]
      BY <1>1, <1>2, <2>3
    <3> QED
      BY <1>6, <2>1, <3>1, <3>2 DEF SlotProgress
  <2> QED
    BY <2>2, <2>3
<1>11. NoneLost'
  <2>1. Pending(k)
    BY <1>3 DEF Pending
  <2> QED
    BY <1>4, <1>5, <1>6, <2>1 DEF SameOwners, NoneLost, Decided
<1>12. EndedTasksOweNothing'
  BY <1>1, <1>2 DEF EndedTasksOweNothing, LoopExhausted, TypeOK
<1>13. SuccessKept /\ SameVerdicts
  <2>1. ~resultOk[k]
    BY <1>3 DEF SlotProgress
  <2> QED
    BY <1>2, <1>5, <1>6, <2>1 DEF SuccessKept, SameVerdicts
<1> QED
  BY <1>5, <1>8, <1>9, <1>10, <1>11, <1>12, <1>13

(* The first half of the slot is written while its flag is still down.     *)
LEMMA WriteDataKeeps ==
  ASSUME SoundConstants, IInv, TypeOK', NEW t \in Tasks, WriteData(t)
  PROVE  IInv' /\ SuccessKept /\ SameVerdicts
<1> USE DEF IInv
<1>0. PICK k \in Items : k = cur[t]
  BY DEF TypeOK
<1>1. /\ pc[t] = "data" /\ \A s \in Tasks : pc'[s] = IF s = t THEN "size" ELSE pc[s]
      /\ \A i \in Items : resultData'[i] = IF i = cur[t] THEN localOut[t] ELSE resultData[i]
  BY DEF WriteData, At, Goto, TypeOK, loop, slots
<1>2. UNCHANGED <<strategy, todo, trailing, pool, cur, attempt, localOut,
                  resultSizes, resultOk, saved, joined, halted, calls>>
  BY DEF WriteData, loop, slots
<1>3. k \in Items /\ InHand(t, k) /\ SlotProgress(t, k)
  <2>1. k \in Items /\ InHand(t, k)
    BY <1>0, <1>1 DEF InHand, Busy
  <2> QED
    BY <2>1 DEF HandProgress
<1>4. SameOwners
  BY <1>1, <1>2 DEF SameOwners, Unclaimed, Owes, InHand, Busy
<1>5. /\ OneOwner'
      /\ \A i \in Items : Pending(i)' <=> Pending(i)
      /\ \A s \in Tasks : Assigned(s)' = Assigned(s)
  BY <1>2, <1>4, SameOwnersKeep
<1>6. \A i \in Items : i # k =>
        /\ calls'[i] = calls[i] /\ resultOk'[i] = resultOk[i]
        /\ resultData'[i] = resultData[i] /\ resultSizes'[i] = resultSizes[i]
  BY <1>0, <1>1, <1>2 DEF TypeOK
<1>7. resultData'[k] = localOut[t]
  BY <1>0, <1>1, <1>2, <1>3, MaxRetriesAssumption DEF TypeOK, SlotProgress
<1>8. Quiet' /\ SlotCoherent' /\ AttemptsBounded'
  BY <1>2, <1>3, <1>6, <1>7 DEF Quiet, SlotCoherent, AttemptsBounded, SlotProgress
<1>9. FreshUntilTaken'
  <2>1. ~Unclaimed(k) /\ \A s \in Tasks : ~Owes(s, k)
    BY <1>3 DEF OneOwner
  <2> QED
    BY <1>4, <1>6, <2>1 DEF SameOwners, FreshUntilTaken, Fresh, Empty
<1>10. HandProgress'
  <2> SUFFICES ASSUME NEW s \in Tasks, NEW i \in Items, InHand(s, i)'
               PROVE  SlotProgress(s, i)'
    BY DEF HandProgress
  <2>1. InHand(s, i) /\ SlotProgress(s, i)
    BY <1>4 DEF SameOwners, HandProgress
  <2>2. CASE s = t
    <3>1. i = k
      BY <1>3, <2>1, <2>2 DEF InHand
    <3> QED
      BY <1>1, <1>2, <1>3, <1>7, <2>2, <3>1 DEF SlotProgress
  <2>3. CASE s # t
    <3>1. i # k
      BY <1>3, <2>1, <2>3 DEF OneOwner
    <3>2. pc'[s] = pc[s] /\ attempt'[s] = attempt[s] /\ localOut'[s] = localOut[s]
      BY <1>1, <1>2, <2>3
    <3> QED
      BY <1>6, <2>1, <3>1, <3>2 DEF SlotProgress
  <2> QED
    BY <2>2, <2>3
<1>11. NoneLost'
  <2>1. Pending(k)
    BY <1>3 DEF Pending
  <2> QED
    BY <1>4, <1>5, <1>6, <2>1 DEF SameOwners, NoneLost, Decided
<1>12. EndedTasksOweNothing'
  BY <1>1, <1>2 DEF EndedTasksOweNothing, LoopExhausted, TypeOK
<1>13. SuccessKept /\ SameVerdicts
  <2>1. ~resultOk[k]
    BY <1>3 DEF SlotProgress
  <2> QED
    BY <1>2, <1>5, <1>6, <2>1 DEF SuccessKept, SameVerdicts
<1> QED
  BY <1>5, <1>8, <1>9, <1>10, <1>11, <1>12, <1>13

(* The second half of the slot is written while its flag is still down.    *)
LEMMA WriteSizeKeeps ==
  ASSUME SoundConstants, IInv, TypeOK', NEW t \in Tasks, WriteSize(t)
  PROVE  IInv' /\ SuccessKept /\ SameVerdicts
<1> USE DEF IInv
<1>0. PICK k \in Items : k = cur[t]
  BY DEF TypeOK
<1>1. /\ pc[t] = "size" /\ \A s \in Tasks : pc'[s] = IF s = t THEN "ok" ELSE pc[s]
      /\ \A i \in Items : resultSizes'[i] = IF i = cur[t] THEN localOut[t] ELSE resultSizes[i]
  BY DEF WriteSize, At, Goto, TypeOK, loop, slots
<1>2. UNCHANGED <<strategy, todo, trailing, pool, cur, attempt, localOut,
                  resultData, resultOk, saved, joined, halted, calls>>
  BY DEF WriteSize, loop, slots
<1>3. k \in Items /\ InHand(t, k) /\ SlotProgress(t, k)
  <2>1. k \in Items /\ InHand(t, k)
    BY <1>0, <1>1 DEF InHand, Busy
  <2> QED
    BY <2>1 DEF HandProgress
<1>4. SameOwners
  BY <1>1, <1>2 DEF SameOwners, Unclaimed, Owes, InHand, Busy
<1>5. /\ OneOwner'
      /\ \A i \in Items : Pending(i)' <=> Pending(i)
      /\ \A s \in Tasks : Assigned(s)' = Assigned(s)
  BY <1>2, <1>4, SameOwnersKeep
<1>6. \A i \in Items : i # k =>
        /\ calls'[i] = calls[i] /\ resultOk'[i] = resultOk[i]
        /\ resultData'[i] = resultData[i] /\ resultSizes'[i] = resultSizes[i]
  BY <1>0, <1>1, <1>2 DEF TypeOK
<1>7. resultSizes'[k] = localOut[t]
  BY <1>0, <1>1, <1>2, <1>3, MaxRetriesAssumption DEF TypeOK, SlotProgress
<1>8. Quiet' /\ SlotCoherent' /\ AttemptsBounded'
  BY <1>2, <1>3, <1>6, <1>7 DEF Quiet, SlotCoherent, AttemptsBounded, SlotProgress
<1>9. FreshUntilTaken'
  <2>1. ~Unclaimed(k) /\ \A s \in Tasks : ~Owes(s, k)
    BY <1>3 DEF OneOwner
  <2> QED
    BY <1>4, <1>6, <2>1 DEF SameOwners, FreshUntilTaken, Fresh, Empty
<1>10. HandProgress'
  <2> SUFFICES ASSUME NEW s \in Tasks, NEW i \in Items, InHand(s, i)'
               PROVE  SlotProgress(s, i)'
    BY DEF HandProgress
  <2>1. InHand(s, i) /\ SlotProgress(s, i)
    BY <1>4 DEF SameOwners, HandProgress
  <2>2. CASE s = t
    <3>1. i = k
      BY <1>3, <2>1, <2>2 DEF InHand
    <3> QED
      BY <1>1, <1>2, <1>3, <1>7, <2>2, <3>1 DEF SlotProgress
  <2>3. CASE s # t
    <3>1. i # k
      BY <1>3, <2>1, <2>3 DEF OneOwner
    <3>2. pc'[s] = pc[s] /\ attempt'[s] = attempt[s] /\ localOut'[s] = localOut[s]
      BY <1>1, <1>2, <2>3
    <3> QED
      BY <1>6, <2>1, <3>1, <3>2 DEF SlotProgress
  <2> QED
    BY <2>2, <2>3
<1>11. NoneLost'
  <2>1. Pending(k)
    BY <1>3 DEF Pending
  <2> QED
    BY <1>4, <1>5, <1>6, <2>1 DEF SameOwners, NoneLost, Decided
<1>12. EndedTasksOweNothing'
  BY <1>1, <1>2 DEF EndedTasksOweNothing, LoopExhausted, TypeOK
<1>13. SuccessKept /\ SameVerdicts
  <2>1. ~resultOk[k]
    BY <1>3 DEF SlotProgress
  <2> QED
    BY <1>2, <1>5, <1>6, <2>1 DEF SuccessKept, SameVerdicts
<1> QED
  BY <1>5, <1>8, <1>9, <1>10, <1>11, <1>12, <1>13

(* The item leaves the task's hand failed: every attempt made, slot empty.  *)
LEMMA GiveUpKeeps ==
  ASSUME SoundConstants, IInv, TypeOK', NEW t \in Tasks, GiveUp(t)
  PROVE  IInv' /\ SuccessKept /\ OneVerdict
<1> USE DEF IInv
<1>0. PICK k \in Items : k = cur[t]
  BY DEF TypeOK
<1>1. /\ pc[t] = "call" /\ \A s \in Tasks : pc'[s] = IF s = t THEN "loop" ELSE pc[s]
      /\ \A i \in Items : resultOk'[i] = IF i = cur[t] THEN FALSE ELSE resultOk[i]
      /\ pc[t] = "call" => attempt[t] >= MaxRetries
  BY DEF GiveUp, At, Goto, TypeOK, loop, slots
<1>2. UNCHANGED <<strategy, todo, trailing, pool, cur, attempt, localOut, resultData,
                  resultSizes, saved, joined, halted, calls>>
  BY DEF GiveUp, loop, slots
<1>3. k \in Items /\ InHand(t, k) /\ SlotProgress(t, k)
  <2>1. k \in Items /\ InHand(t, k)
    BY <1>0, <1>1 DEF InHand, Busy
  <2> QED
    BY <2>1 DEF HandProgress
<1>4. Released(t, k)
  <2>1. \A s \in Tasks : InHand(s, k) <=> s = t
    BY <1>3 DEF OneOwner
  <2>2. \A s \in Tasks, i \in Items :
          InHand(s, i)' <=> InHand(s, i) /\ ~(s = t /\ i = k)
    BY <1>0, <1>1, <1>2, <2>1 DEF InHand, Busy
  <2> QED
    BY <1>2, <1>3, <2>2 DEF Released, Unclaimed, Owes
<1>5. /\ OneOwner'
      /\ \A i \in Items : Pending(i)' <=> Pending(i) /\ i # k
      /\ \A s \in Tasks : Assigned(s)' = Assigned(s)
  BY <1>2, <1>3, <1>4, ReleaseKeeps
<1>6. \A i \in Items : i # k => resultOk'[i] = resultOk[i]
  BY <1>0, <1>1
<1>7. ~resultOk'[k] /\ calls[k] = MaxRetries /\ resultData[k] = NoOutput /\ resultSizes[k] = NoOutput
  <2>1. attempt[t] = MaxRetries
    BY <1>1, MaxRetriesAssumption DEF TypeOK
  <2>2. resultOk'[k] = FALSE
    BY <1>0, <1>1
  <2>3. /\ calls[k] = attempt[t]
        /\ resultData[k] = NoOutput /\ resultSizes[k] = NoOutput
    BY <1>1, <1>3 DEF SlotProgress
  <2> QED
    BY <2>1, <2>2, <2>3
<1>8. Quiet' /\ AttemptsBounded'
  BY <1>2 DEF Quiet, AttemptsBounded
<1>9. SlotCoherent'
  BY <1>2, <1>6, <1>7 DEF SlotCoherent
<1>10. FreshUntilTaken'
  <2>1. ~Unclaimed(k) /\ \A s \in Tasks : ~Owes(s, k)
    BY <1>3 DEF OneOwner
  <2> QED
    BY <1>2, <1>4, <1>6, <2>1 DEF Released, FreshUntilTaken, Fresh, Empty
<1>11. HandProgress'
  <2> SUFFICES ASSUME NEW s \in Tasks, NEW i \in Items, InHand(s, i)'
               PROVE  SlotProgress(s, i)'
    BY DEF HandProgress
  <2>1. InHand(s, i) /\ SlotProgress(s, i) /\ s # t /\ i # k
    BY <1>0, <1>3, <1>4 DEF Released, HandProgress, OneOwner, InHand
  <2> QED
    BY <1>1, <1>2, <1>6, <2>1 DEF SlotProgress
<1>12. NoneLost'
  <2>1. Decided(k)'
    BY <1>2, <1>7 DEF Decided
  <2>2. \A i \in Items : i # k => (Decided(i)' <=> Decided(i))
    BY <1>2, <1>6 DEF Decided
  <2> QED
    BY <1>4, <1>5, <2>1, <2>2 DEF Released, NoneLost
<1>13. EndedTasksOweNothing'
  BY <1>1, <1>2 DEF EndedTasksOweNothing, LoopExhausted, TypeOK
<1>14. SuccessKept
  <2>1. ~resultOk[k]
    BY <1>3 DEF SlotProgress
  <2> QED
    BY <1>2, <1>6, <2>1 DEF SuccessKept
<1>15. OneVerdict
  <2>1. ~joined
    BY <1>1 DEF EndedTasksOweNothing
  <2>2. Pending(k)
    BY <1>3 DEF Pending
  <2> QED
    BY <1>2, <1>5, <1>6, <2>1, <2>2 DEF OneVerdict
<1> QED
  BY <1>5, <1>8, <1>9, <1>10, <1>11, <1>12, <1>13, <1>14, <1>15

(* The item leaves the task's hand succeeded, both halves of its slot in.   *)
LEMMA WriteOkKeeps ==
  ASSUME SoundConstants, IInv, TypeOK', NEW t \in Tasks, WriteOk(t)
  PROVE  IInv' /\ SuccessKept /\ OneVerdict
<1> USE DEF IInv
<1>0. PICK k \in Items : k = cur[t]
  BY DEF TypeOK
<1>1. /\ pc[t] = "ok" /\ \A s \in Tasks : pc'[s] = IF s = t THEN "loop" ELSE pc[s]
      /\ \A i \in Items : resultOk'[i] = IF i = cur[t] THEN TRUE ELSE resultOk[i]
      /\ pc[t] = "call" => attempt[t] >= MaxRetries
  BY DEF WriteOk, At, Goto, TypeOK, loop, slots
<1>2. UNCHANGED <<strategy, todo, trailing, pool, cur, attempt, localOut, resultData,
                  resultSizes, saved, joined, halted, calls>>
  BY DEF WriteOk, loop, slots
<1>3. k \in Items /\ InHand(t, k) /\ SlotProgress(t, k)
  <2>1. k \in Items /\ InHand(t, k)
    BY <1>0, <1>1 DEF InHand, Busy
  <2> QED
    BY <2>1 DEF HandProgress
<1>4. Released(t, k)
  <2>1. \A s \in Tasks : InHand(s, k) <=> s = t
    BY <1>3 DEF OneOwner
  <2>2. \A s \in Tasks, i \in Items :
          InHand(s, i)' <=> InHand(s, i) /\ ~(s = t /\ i = k)
    BY <1>0, <1>1, <1>2, <2>1 DEF InHand, Busy
  <2> QED
    BY <1>2, <1>3, <2>2 DEF Released, Unclaimed, Owes
<1>5. /\ OneOwner'
      /\ \A i \in Items : Pending(i)' <=> Pending(i) /\ i # k
      /\ \A s \in Tasks : Assigned(s)' = Assigned(s)
  BY <1>2, <1>3, <1>4, ReleaseKeeps
<1>6. \A i \in Items : i # k => resultOk'[i] = resultOk[i]
  BY <1>0, <1>1
<1>7. resultOk'[k] /\ resultData[k] = <<k, calls[k]>> /\ resultSizes[k] = <<k, calls[k]>>
  BY <1>0, <1>1, <1>3 DEF SlotProgress
<1>8. Quiet' /\ AttemptsBounded'
  BY <1>2 DEF Quiet, AttemptsBounded
<1>9. SlotCoherent'
  BY <1>2, <1>6, <1>7 DEF SlotCoherent
<1>10. FreshUntilTaken'
  <2>1. ~Unclaimed(k) /\ \A s \in Tasks : ~Owes(s, k)
    BY <1>3 DEF OneOwner
  <2> QED
    BY <1>2, <1>4, <1>6, <2>1 DEF Released, FreshUntilTaken, Fresh, Empty
<1>11. HandProgress'
  <2> SUFFICES ASSUME NEW s \in Tasks, NEW i \in Items, InHand(s, i)'
               PROVE  SlotProgress(s, i)'
    BY DEF HandProgress
  <2>1. InHand(s, i) /\ SlotProgress(s, i) /\ s # t /\ i # k
    BY <1>0, <1>3, <1>4 DEF Released, HandProgress, OneOwner, InHand
  <2> QED
    BY <1>1, <1>2, <1>6, <2>1 DEF SlotProgress
<1>12. NoneLost'
  <2>1. Decided(k)'
    BY <1>2, <1>7 DEF Decided
  <2>2. \A i \in Items : i # k => (Decided(i)' <=> Decided(i))
    BY <1>2, <1>6 DEF Decided
  <2> QED
    BY <1>4, <1>5, <2>1, <2>2 DEF Released, NoneLost
<1>13. EndedTasksOweNothing'
  BY <1>1, <1>2 DEF EndedTasksOweNothing, LoopExhausted, TypeOK
<1>14. SuccessKept
  <2>1. ~resultOk[k]
    BY <1>3 DEF SlotProgress
  <2> QED
    BY <1>2, <1>6, <2>1 DEF SuccessKept
<1>15. OneVerdict
  <2>1. ~joined
    BY <1>1 DEF EndedTasksOweNothing
  <2>2. Pending(k)
    BY <1>3 DEF Pending
  <2> QED
    BY <1>2, <1>5, <1>6, <2>1, <2>2 DEF OneVerdict
<1> QED
  BY <1>5, <1>8, <1>9, <1>10, <1>11, <1>12, <1>13, <1>14, <1>15

(* The loop only ends when it has nothing left.                            *)
LEMMA EndLoopKeeps ==
  ASSUME SoundConstants, IInv, TypeOK', NEW t \in Tasks, EndLoop(t)
  PROVE  IInv' /\ SuccessKept /\ SameVerdicts
<1> USE DEF IInv
<1>1. /\ pc[t] = "loop" /\ LoopExhausted(t)
      /\ \A s \in Tasks : s # t => pc'[s] = pc[s]
      /\ pc'[t] \in {"checkpoint", "done"}
  BY DEF EndLoop, At, Goto, TypeOK
<1>2. UNCHANGED <<strategy, todo, trailing, pool, cur, attempt, localOut, resultData,
                  resultSizes, resultOk, saved, joined, halted, calls>>
  BY DEF EndLoop, loop, slots
<1>4. SameOwners
  BY <1>1, <1>2 DEF SameOwners, Unclaimed, Owes, InHand, Busy
<1>5. /\ OneOwner'
      /\ \A i \in Items : Pending(i)' <=> Pending(i)
      /\ \A s \in Tasks : Assigned(s)' = Assigned(s)
  BY <1>2, <1>4, SameOwnersKeep
<1>6. Quiet' /\ SlotCoherent' /\ AttemptsBounded'
  BY <1>2 DEF Quiet, SlotCoherent, AttemptsBounded
<1>7. FreshUntilTaken'
  BY <1>2, <1>4 DEF SameOwners, FreshUntilTaken, Fresh, Empty
<1>8. HandProgress'
  <2> SUFFICES ASSUME NEW s \in Tasks, NEW i \in Items, InHand(s, i)'
               PROVE  SlotProgress(s, i)'
    BY DEF HandProgress
  <2>1. InHand(s, i) /\ SlotProgress(s, i)
    BY <1>4 DEF SameOwners, HandProgress
  <2>2. s # t
    BY <1>1, <2>1 DEF InHand, Busy
  <2> QED
    BY <1>1, <1>2, <2>1, <2>2 DEF SlotProgress
<1>9. NoneLost'
  BY <1>2, <1>4, <1>5 DEF SameOwners, NoneLost, Decided
<1>10. EndedTasksOweNothing'
  BY <1>1, <1>2 DEF EndedTasksOweNothing, LoopExhausted, TypeOK
<1>11. SuccessKept /\ SameVerdicts
  BY <1>2, <1>5 DEF SuccessKept, SameVerdicts
<1> QED
  BY <1>5, <1>6, <1>7, <1>8, <1>9, <1>10, <1>11

(* The marker is saved by a task whose loop has ended.                     *)
LEMMA CheckpointKeeps ==
  ASSUME SoundConstants, IInv, TypeOK', NEW t \in Tasks, Checkpoint(t)
  PROVE  IInv' /\ SuccessKept /\ SameVerdicts
<1> USE DEF IInv
<1>1. /\ pc[t] = "checkpoint" /\ saved' = saved \cup {t}
      /\ \A s \in Tasks : pc'[s] = IF s = t THEN "done" ELSE pc[s]
  BY DEF Checkpoint, At, Goto, TypeOK
<1>2. UNCHANGED <<strategy, todo, trailing, pool, cur, attempt, localOut, resultData,
                  resultSizes, resultOk, joined, halted, calls>>
  BY DEF Checkpoint, loop, slots
<1>4. SameOwners
  BY <1>1, <1>2 DEF SameOwners, Unclaimed, Owes, InHand, Busy
<1>5. /\ OneOwner'
      /\ \A i \in Items : Pending(i)' <=> Pending(i)
      /\ \A s \in Tasks : Assigned(s)' = Assigned(s)
  BY <1>2, <1>4, SameOwnersKeep
<1>6. Quiet' /\ SlotCoherent' /\ AttemptsBounded'
  BY <1>2 DEF Quiet, SlotCoherent, AttemptsBounded
<1>7. FreshUntilTaken'
  BY <1>2, <1>4 DEF SameOwners, FreshUntilTaken, Fresh, Empty
<1>8. HandProgress'
  <2> SUFFICES ASSUME NEW s \in Tasks, NEW i \in Items, InHand(s, i)'
               PROVE  SlotProgress(s, i)'
    BY DEF HandProgress
  <2>1. InHand(s, i) /\ SlotProgress(s, i)
    BY <1>4 DEF SameOwners, HandProgress
  <2>2. s # t
    BY <1>1, <2>1 DEF InHand, Busy
  <2> QED
    BY <1>1, <1>2, <2>1, <2>2 DEF SlotProgress
<1>9. NoneLost'
  BY <1>2, <1>4, <1>5 DEF SameOwners, NoneLost, Decided
<1>10. EndedTasksOweNothing'
  BY <1>1, <1>2 DEF EndedTasksOweNothing, LoopExhausted, TypeOK
<1>11. SuccessKept /\ SameVerdicts
  BY <1>2, <1>5 DEF SuccessKept, SameVerdicts
<1> QED
  BY <1>5, <1>6, <1>7, <1>8, <1>9, <1>10, <1>11

(* main passes the end of the coforall: no task has anything left.         *)
LEMMA JoinKeeps ==
  ASSUME SoundConstants, IInv, TypeOK', Join
  PROVE  /\ IInv' /\ SuccessKept
         /\ ~joined /\ joined'
         /\ \A i \in Items :
              ~Pending(i) /\ (Pending(i)' <=> Pending(i)) /\ resultOk'[i] = resultOk[i]
<1> USE DEF IInv
<1>1. /\ ~joined /\ joined' = TRUE
      /\ \A t \in Tasks : pc[t] = "done" /\ LoopExhausted(t)
  BY DEF Join, EndedTasksOweNothing
<1>2. UNCHANGED <<strategy, todo, trailing, pool, pc, cur, attempt, localOut,
                  resultData, resultSizes, resultOk, saved, halted, calls>>
  BY DEF Join, loop, slots
<1>3. \A i \in Items : ~Pending(i)
  <2>1. \A i \in Items : i < NItems
    BY Sets
  <2>2. \A i \in Items : ~Unclaimed(i)
    BY <1>1, <2>1, Sets, NItemsAssumption DEF Unclaimed, LoopExhausted, TypeOK
  <2> QED
    BY <1>1, <2>2 DEF Pending, Owes, InHand, Busy, LoopExhausted
<1>4. SameOwners
  BY <1>2 DEF SameOwners, Unclaimed, Owes, InHand, Busy
<1>5. /\ OneOwner'
      /\ \A i \in Items : Pending(i)' <=> Pending(i)
      /\ \A s \in Tasks : Assigned(s)' = Assigned(s)
  BY <1>2, <1>4, SameOwnersKeep
<1>6. /\ Quiet' /\ SlotCoherent' /\ AttemptsBounded' /\ FreshUntilTaken'
      /\ HandProgress' /\ NoneLost' /\ EndedTasksOweNothing'
  <2>1. Quiet' /\ SlotCoherent' /\ AttemptsBounded'
    BY <1>2 DEF Quiet, SlotCoherent, AttemptsBounded
  <2>2. FreshUntilTaken'
    BY <1>2, <1>4 DEF SameOwners, FreshUntilTaken, Fresh, Empty
  <2>3. HandProgress'
    BY <1>2, <1>4 DEF SameOwners, HandProgress, SlotProgress
  <2>4. NoneLost'
    BY <1>2, <1>4, <1>5 DEF SameOwners, NoneLost, Decided
  <2>5. EndedTasksOweNothing'
    BY <1>1, <1>2 DEF EndedTasksOweNothing, LoopExhausted
  <2> QED
    BY <2>1, <2>2, <2>3, <2>4, <2>5
<1> QED
  BY <1>1, <1>2, <1>3, <1>5, <1>6 DEF SuccessKept

(* A stuttering step keeps everything.                                     *)
LEMMA StutterKeeps ==
  ASSUME IInv, UNCHANGED vars
  PROVE  IInv' /\ SuccessKept /\ SameVerdicts
<1> USE DEF IInv
<1>2. UNCHANGED <<strategy, todo, trailing, pool, pc, cur, attempt, localOut,
                  resultData, resultSizes, resultOk, saved, joined, halted, calls>>
  BY DEF vars, loop, slots
<1>4. SameOwners
  BY <1>2 DEF SameOwners, Unclaimed, Owes, InHand, Busy
<1>5. /\ OneOwner'
      /\ \A i \in Items : Pending(i)' <=> Pending(i)
      /\ \A s \in Tasks : Assigned(s)' = Assigned(s)
  BY <1>2, <1>4, SameOwnersKeep
<1>6. TypeOK' /\ Quiet' /\ SlotCoherent' /\ AttemptsBounded'
  BY <1>2 DEF TypeOK, Quiet, SlotCoherent, AttemptsBounded
<1>7. FreshUntilTaken'
  BY <1>2, <1>4 DEF SameOwners, FreshUntilTaken, Fresh, Empty
<1>8. HandProgress'
  BY <1>2, <1>4 DEF SameOwners, HandProgress, SlotProgress
<1>9. NoneLost'
  BY <1>2, <1>4, <1>5 DEF SameOwners, NoneLost, Decided
<1>10. EndedTasksOweNothing'
  BY <1>2 DEF EndedTasksOweNothing, LoopExhausted
<1> QED
  BY <1>2, <1>5, <1>6, <1>7, <1>8, <1>9, <1>10 DEF SuccessKept, SameVerdicts

LEMMA StepKeeps ==
  ASSUME SoundConstants, IInv, [Next]_vars
  PROVE  /\ IInv' /\ SuccessKept
         /\ SameVerdicts \/ OneVerdict \/ Join
<1>1. TypeOK'
  BY StepTypeOK DEF IInv
<1>2. CASE UNCHANGED vars
  BY <1>2, StutterKeeps
<1>3. CASE Join
  BY <1>1, <1>3, JoinKeeps
<1>4. ASSUME NEW t \in Tasks, TaskStep(t)
      PROVE  IInv' /\ SuccessKept /\ (SameVerdicts \/ OneVerdict)
  BY <1>1, <1>4, ClaimKeeps, TrailingChunkKeeps, SkipItemKeeps, TakeItemKeeps,
     CallSucceedsKeeps, CallFailsKeeps, GiveUpKeeps, WriteDataKeeps,
     WriteSizeKeeps, WriteOkKeeps, EndLoopKeeps, CheckpointKeeps
     DEF TaskStep, MoreIndices
<1> QED
  BY <1>2, <1>3, <1>4 DEF Next, Finished

-----------------------------------------------------------------------------
(* The theorems                                                            *)

(* Every reachable state satisfies the inductive invariant, if no key is   *)
(* read through a remote pointer and no chunk range has a negative count.  *)
THEOREM Invariance ==
  ASSUME SoundConstants
  PROVE  Spec => []IInv
<1>1. Init => IInv
  BY InitIInv
<1>2. IInv /\ [Next]_vars => IInv'
  BY StepKeeps
<1> QED
  BY <1>1, <1>2, PTL DEF Spec, SafeSpec

(* A task with an item in hand owns it, and there is one owner.            *)
LEMMA OneOwnerIsExclusive == IInv => NoSharedItem
<1> SUFFICES ASSUME IInv, NEW s \in Tasks, NEW t \in Tasks,
                    s # t, Busy(s), Busy(t), cur[s] = cur[t]
             PROVE  FALSE
  BY DEF NoSharedItem
<1>1. cur[s] \in Items
  BY DEF IInv, TypeOK
<1>2. InHand(s, cur[s]) /\ InHand(t, cur[s])
  BY DEF InHand
<1> QED
  BY <1>1, <1>2 DEF IInv, OneOwner

(* Tasks that are done own nothing, and what nobody owns has its verdict.  *)
LEMMA NoOwnersAtJoin == IInv => DecidedAtJoin
<1> SUFFICES ASSUME IInv, joined, NEW i \in Items PROVE Decided(i)
  BY DEF DecidedAtJoin
<1>1. \A t \in Tasks : pc[t] = "done" /\ LoopExhausted(t)
  BY DEF IInv, EndedTasksOweNothing
<1>2. ~Unclaimed(i)
  BY <1>1, Sets, NItemsAssumption DEF Unclaimed, LoopExhausted, IInv, TypeOK
<1>3. ~Pending(i)
  BY <1>1, <1>2 DEF Pending, Owes, InHand, Busy, LoopExhausted
<1> QED
  BY <1>3 DEF IInv, NoneLost

(* The slots need no lock: no two tasks ever have the same item in hand.   *)
THEOREM ExclusiveSlots ==
  ASSUME SoundConstants
  PROVE  Spec => []NoSharedItem
BY OneOwnerIsExclusive, Invariance, PTL

(* A slot flagged as succeeded is never torn or stale.                     *)
THEOREM SlotsSound ==
  ASSUME SoundConstants
  PROVE  Spec => []SlotCoherent
<1>1. IInv => SlotCoherent
  BY DEF IInv
<1> QED
  BY <1>1, Invariance, PTL

(* Retries are bounded for each item over the whole run, not only for each *)
(* task that has it.                                                       *)
THEOREM RetriesBounded ==
  ASSUME SoundConstants
  PROVE  Spec => []AttemptsBounded
<1>1. IInv => AttemptsBounded
  BY DEF IInv
<1> QED
  BY <1>1, Invariance, PTL

(* Past the coforall every item has its verdict.                           *)
THEOREM NothingLost ==
  ASSUME SoundConstants
  PROVE  Spec => []DecidedAtJoin
BY NoOwnersAtJoin, Invariance, PTL

(* A checkpoint marker never claims more than was done.                    *)
THEOREM CheckpointsHonest ==
  ASSUME SoundConstants
  PROVE  Spec => []CheckpointHonest
<1>1. IInv => CheckpointHonest
  <2> SUFFICES ASSUME IInv, NEW t \in saved, NEW i \in Assigned(t)
               PROVE  Decided(i)
    BY DEF CheckpointHonest
  <2>1. t \in Tasks /\ pc[t] = "done" /\ LoopExhausted(t)
    BY DEF IInv, EndedTasksOweNothing, TypeOK
  <2>2. i \in Items
    BY <2>1, AssignedType
  <2>3. ~Owes(t, i) /\ ~InHand(t, i)
    BY <2>1 DEF Owes, InHand, Busy, LoopExhausted
  <2> QED
    BY <2>1, <2>2, <2>3 DEF IInv, NoneLost
<1> QED
  BY <1>1, Invariance, PTL

(* No step of any task undoes or repeats a success.                        *)
THEOREM SuccessesFinal ==
  ASSUME SoundConstants
  PROVE  Spec => SuccessIsFinal
<1>1. IInv /\ [Next]_vars => [SuccessKept]_vars
  BY StepKeeps
<1> QED
  BY <1>1, Invariance, PTL DEF Spec, SafeSpec, SuccessIsFinal

(* The phase refines ParallelMap: its initial states are ParallelMap's,    *)
(* and each of its steps decides one item, joins, or changes nothing that  *)
(* ParallelMap sees.                                                       *)
THEOREM RefinesParallelMap ==
  ASSUME SoundConstants
  PROVE  Spec => Abstract!SafeSpec
<1>1. Init => Abstract!Init
  BY InitOwners DEF Init, Abstract!Init, Verdict
<1>2. IInv /\ [Next]_vars => [Abstract!Next]_(Abstract!vars)
  <2> SUFFICES ASSUME IInv, [Next]_vars
               PROVE  [Abstract!Next]_(Abstract!vars)
    OBVIOUS
  <2>1. CASE SameVerdicts
    <3>1. \A i \in Items : Verdict(i)' = Verdict(i)
      BY <2>1 DEF SameVerdicts, Verdict
    <3> QED
      BY <2>1, <3>1 DEF SameVerdicts, Abstract!vars
  <2>2. CASE OneVerdict
    <3>1. PICK k \in Items :
            /\ Pending(k) /\ ~Pending(k)'
            /\ \A i \in Items \ {k} :
                 (Pending(i)' <=> Pending(i)) /\ resultOk'[i] = resultOk[i]
      BY <2>2 DEF OneVerdict
    <3>2. \A i \in Items \ {k} : Verdict(i)' = Verdict(i)
      BY <3>1 DEF Verdict
    <3>3. Verdict(k) = "pending" /\ Verdict(k)' \in {"ok", "failed"}
      BY <3>1 DEF Verdict
    <3>4. Abstract!Decide(k)
      BY <2>2, <3>2, <3>3 DEF OneVerdict, Abstract!Decide
    <3> QED
      BY <3>4 DEF Abstract!Next
  <2>3. CASE Join
    <3>1. /\ ~joined /\ joined'
          /\ \A i \in Items :
               ~Pending(i) /\ (Pending(i)' <=> Pending(i)) /\ resultOk'[i] = resultOk[i]
      BY <2>3, StepTypeOK, JoinKeeps DEF IInv
    <3>2. \A i \in Items : Verdict(i) # "pending" /\ Verdict(i)' = Verdict(i)
      BY <3>1 DEF Verdict
    <3>3. joined' = TRUE
      BY <2>3 DEF Join
    <3> QED
      BY <3>1, <3>2, <3>3 DEF Abstract!Next, Abstract!Join
  <2> QED
    BY <2>1, <2>2, <2>3, StepKeeps
<1> QED
  BY <1>1, <1>2, Invariance, PTL DEF Spec, SafeSpec, Abstract!SafeSpec
=============================================================================
