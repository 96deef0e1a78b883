-------------------------- MODULE Recovery_proofs --------------------------
(***************************************************************************)
(* What holds across crashes and restarts, for every set of strategies,    *)
(* number of locales, items, attempts and restarts.  Unlike the theorems   *)
(* of Distribution_proofs these do not need the chunk counts to be         *)
(* non-negative: a locale may walk an unspecified range.  Keys have to be  *)
(* readable where they are hashed.                                         *)
(***************************************************************************)
EXTENDS Recovery, Distribution_proofs

KeysReadable == "keyed" \in Strategies => RemotePointers \/ NumLocales = 1

\* Task t has item i in hand, and may not have called c_process_item yet.
Trying(t, i) == pc[t] = "call" /\ cur[t] = i

\* It rests with task t that item i is tried.
Bound(t, i) == Owes(t, i) \/ Trying(t, i)

\* Item i was tried or somebody is bound to try it; an assigned one the task
\* it is assigned to.
Covered(i) ==
  /\ Unclaimed(i) \/ calls[i] > 0 \/ \E t \in Tasks : Bound(t, i)
  /\ \A t \in Tasks : i \in Assigned(t) => Bound(t, i) \/ calls[i] > 0

CoverInv ==
  /\ TypeOK
  /\ \A i \in Items : Covered(i)
  /\ \A t \in Tasks : pc[t] = "call" /\ attempt[t] > 0 => calls[cur[t]] > 0
  /\ \A t \in Tasks : pc[t] \in {"checkpoint", "done"} => LoopExhausted(t)
  /\ joined => \A t \in Tasks : pc[t] = "done"

\* A step that leaves nobody out: who is bound to an item remains so or has
\* tried it, and the dynamic iterator gives items to somebody.
NoneDropped ==
  /\ strategy' = strategy
  /\ \A i \in Items :
       /\ calls[i] > 0 => calls'[i] > 0
       /\ \A t \in Tasks : Bound(t, i) => Bound(t, i)' \/ calls'[i] > 0
       /\ Unclaimed(i) => Unclaimed(i)' \/ \E t \in Tasks : Bound(t, i)'

(* A step that drops nobody keeps every item covered.                      *)
LEMMA NoneDroppedKeeps ==
  ASSUME CoverInv, NoneDropped
  PROVE  \A i \in Items : Covered(i)'
<1> TAKE i \in Items
<1>1. \A t \in Tasks : Assigned(t)' = Assigned(t)
  BY DEF NoneDropped, Assigned
<1>2. Covered(i)
  BY DEF CoverInv
<1> QED
  BY <1>1, <1>2 DEF NoneDropped, Covered

(* Everything is covered at the start.                                     *)
LEMMA InitCovers == Init => CoverInv
<1> SUFFICES ASSUME Init PROVE CoverInv
  OBVIOUS
<1>1. TypeOK
  BY InitTypeOK
<1>2. ASSUME NEW i \in Items PROVE Covered(i)
  <2>1. Unclaimed(i) \/ \E t \in Tasks : Owes(t, i)
    BY InitOwners DEF Pending
  <2> QED
    BY <2>1, InitOwners DEF Covered, Bound
<1> QED
  BY <1>1, <1>2 DEF CoverInv, Init

-----------------------------------------------------------------------------
(* No action drops an item.                                                *)

LEMMA MoreIndicesDropsNone ==
  ASSUME CoverInv, NEW t \in Tasks, MoreIndices(t)
  PROVE  NoneDropped
<1> USE DEF CoverInv, TypeOK
<1>1. CASE Claim(t)
  <2> DEFINE m == Lesser(pool + GrainSize, NItems)
  <2>1. /\ todo' = [todo EXCEPT ![t] = pool .. m - 1] /\ pool' = m
        /\ m \in 0 .. NItems /\ strategy = "adaptive"
    BY <1>1, NItemsAssumption, GrainSizeAssumption DEF Claim, Lesser
  <2>2. UNCHANGED <<strategy, pc, cur, calls>>
    BY <1>1 DEF Claim
  <2> HIDE DEF m
  <2>3. todo[t] = {}
    BY DEF MoreIndices
  <2>4. ASSUME NEW i \in Items
        PROVE  /\ calls[i] > 0 => calls'[i] > 0
               /\ \A s \in Tasks : Bound(s, i) => Bound(s, i)'
               /\ Unclaimed(i) => Unclaimed(i)' \/ Bound(t, i)'
    <3>1. i \in Nat /\ pool \in Nat
      BY Sets
    <3>2. pool <= i /\ ~(m <= i) => i \in todo'[t]
      BY <2>1, <3>1
    <3>3. \A s \in Tasks : Owes(s, i) => Owes(s, i)'
      BY <2>1, <2>2, <2>3 DEF Owes
    <3> QED
      BY <2>1, <2>2, <3>2, <3>3 DEF Bound, Owes, Trying, Unclaimed
  <2> QED
    BY <2>2, <2>4 DEF NoneDropped
<1>2. CASE TrailingChunk(t)
  <2>1. todo[t] = {} /\ UNCHANGED <<strategy, pool, pc, cur, calls>>
    BY <1>2 DEF MoreIndices, TrailingChunk
  <2>2. \A s \in Tasks : s # t => todo'[s] = todo[s]
    BY <1>2 DEF TrailingChunk
  <2> QED
    BY <2>1, <2>2 DEF NoneDropped, Bound, Owes, Trying, Unclaimed
<1> QED
  BY <1>1, <1>2 DEF MoreIndices

(* What the keyed loop skips belongs to another locale.                    *)
LEMMA SkipItemDropsNone ==
  ASSUME KeysReadable, CoverInv, NEW t \in Tasks, SkipItem(t)
  PROVE  NoneDropped
<1> USE DEF CoverInv, TypeOK
<1>1. PICK k \in Items : MaySkip(t, k) /\ todo' = [todo EXCEPT ![t] = @ \ {k}]
  BY DEF SkipItem
<1>2. UNCHANGED <<strategy, pool, pc, cur, calls>>
  BY DEF SkipItem
<1>3. ReadsKey(t)
  BY <1>1 DEF KeysReadable, ReadsKey, MaySkip, Tasks, Indices
<1>4. ~Owes(t, k)
  BY <1>1, <1>3 DEF MaySkip, Owes
<1>5. \A i \in Items, s \in Tasks : Owes(s, i) => Owes(s, i)'
  BY <1>1, <1>2, <1>4 DEF Owes
<1> QED
  BY <1>2, <1>5 DEF NoneDropped, Bound, Trying, Unclaimed

LEMMA TakeItemDropsNone ==
  ASSUME CoverInv, NEW t \in Tasks, TakeItem(t)
  PROVE  NoneDropped
<1> USE DEF CoverInv, TypeOK
<1>1. PICK k \in Items : /\ todo' = [todo EXCEPT ![t] = @ \ {k}]
                         /\ cur' = [cur EXCEPT ![t] = k]
  BY DEF TakeItem
<1>2. pc[t] = "loop" /\ pc' = [pc EXCEPT ![t] = "call"]
  BY DEF TakeItem, At, Goto
<1>3. UNCHANGED <<strategy, pool, calls>>
  BY DEF TakeItem
<1>4. \A i \in Items, s \in Tasks : Owes(s, i) => Owes(s, i)' \/ Trying(s, i)'
  BY <1>1, <1>2, <1>3 DEF Owes, Trying
<1>5. \A i \in Items, s \in Tasks : Trying(s, i) => Trying(s, i)'
  BY <1>1, <1>2 DEF Trying
<1> QED
  BY <1>3, <1>4, <1>5 DEF NoneDropped, Bound, Unclaimed

\* c_process_item was called for the item task t has in hand.
Called(t) ==
  /\ pc[t] = "call"
  /\ calls' = [calls EXCEPT ![cur[t]] = @ + 1]
  /\ UNCHANGED loop
  /\ UNCHANGED cur
  /\ \A s \in Tasks \ {t} : pc'[s] = pc[s]

(* A call tries the item.                                                  *)
LEMMA CalledDropsNone ==
  ASSUME CoverInv, NEW t \in Tasks, Called(t)
  PROVE  NoneDropped
<1> USE DEF CoverInv, TypeOK
<1>1. cur[t] \in Items /\ calls'[cur[t]] > 0
  BY DEF Called
<1>2. \A i \in Items : calls[i] > 0 => calls'[i] > 0
  BY DEF Called
<1>3. \A i \in Items, s \in Tasks : Owes(s, i)' <=> Owes(s, i)
  BY DEF Called, loop, Owes
<1>4. \A i \in Items, s \in Tasks : Trying(s, i) => Trying(s, i)' \/ calls'[i] > 0
  BY <1>1 DEF Called, Trying
<1> QED
  BY <1>2, <1>3, <1>4 DEF Called, loop, NoneDropped, Bound, Unclaimed

(* A step that leaves the loops and the calls alone drops nobody unless it *)
(* ends the attempts for an item that was not tried.                       *)
LEMMA QuietStepDropsNone ==
  ASSUME CoverInv, UNCHANGED loop, UNCHANGED cur, UNCHANGED calls,
         \A s \in Tasks : pc[s] = "call" /\ pc'[s] # "call" => calls[cur[s]] > 0
  PROVE  NoneDropped
BY DEF loop, NoneDropped, Bound, Owes, Trying, Unclaimed

LEMMA GiveUpDropsNone ==
  ASSUME CoverInv, MaxRetries > 0, NEW t \in Tasks, GiveUp(t)
  PROVE  NoneDropped
<1> USE DEF CoverInv, TypeOK
<1>1. attempt[t] > 0 /\ pc[t] = "call"
  BY MaxRetriesAssumption DEF GiveUp, At
<1>2. \A s \in Tasks : s # t => pc'[s] = pc[s]
  BY DEF GiveUp, Goto
<1>3. \A s \in Tasks : pc[s] = "call" /\ pc'[s] # "call" => calls[cur[s]] > 0
  BY <1>1, <1>2
<1>4. UNCHANGED loop /\ UNCHANGED cur /\ UNCHANGED calls
  BY DEF GiveUp
<1> QED
  BY <1>3, <1>4, QuietStepDropsNone

(* No task's step drops an item.                                           *)
LEMMA TaskDropsNone ==
  ASSUME KeysReadable, MaxRetries > 0, CoverInv, NEW t \in Tasks, TaskStep(t)
  PROVE  NoneDropped
<1>1. CASE CallSucceeds(t) \/ CallFails(t)
  <2>1. Called(t)
    BY <1>1 DEF Called, CallSucceeds, CallFails, At, Goto, CoverInv, TypeOK
  <2> QED
    BY <2>1, CalledDropsNone
<1>2. CASE WriteData(t) \/ WriteSize(t) \/ WriteOk(t) \/ EndLoop(t) \/ Checkpoint(t)
  <2>1. UNCHANGED loop /\ UNCHANGED cur /\ UNCHANGED calls
    BY <1>2 DEF WriteData, WriteSize, WriteOk, EndLoop, Checkpoint
  <2>2. pc[t] # "call" /\ \A s \in Tasks : s # t => pc'[s] = pc[s]
    BY <1>2 DEF WriteData, WriteSize, WriteOk, EndLoop, Checkpoint, At, Goto, CoverInv, TypeOK
  <2> QED
    BY <2>1, <2>2, QuietStepDropsNone
<1> QED
  BY <1>1, <1>2, MoreIndicesDropsNone, SkipItemDropsNone, TakeItemDropsNone,
     GiveUpDropsNone DEF TaskStep

-----------------------------------------------------------------------------
(* The invariant of the running program.                                   *)

(* An item in hand after a failed attempt was tried.                       *)
LEMMA AttemptsCount ==
  ASSUME CoverInv, NEW t \in Tasks, TaskStep(t)
  PROVE  \A s \in Tasks : (pc[s] = "call" /\ attempt[s] > 0 => calls[cur[s]] > 0)'
<1> USE DEF CoverInv, TypeOK
<1>1. CASE TakeItem(t)
  <2>1. attempt'[t] = 0 /\ UNCHANGED calls
    BY <1>1 DEF TakeItem
  <2>2. \A s \in Tasks : s # t => /\ pc'[s] = pc[s]
                                  /\ attempt'[s] = attempt[s]
                                  /\ cur'[s] = cur[s]
    BY <1>1 DEF TakeItem, Goto
  <2> QED
    BY <2>1, <2>2
<1>2. CASE CallSucceeds(t) \/ CallFails(t)
  <2>1. /\ calls'[cur[t]] > 0 /\ cur' = cur
        /\ \A i \in Items : calls[i] > 0 => calls'[i] > 0
    BY <1>2 DEF CallSucceeds, CallFails
  <2>2. \A s \in Tasks : s # t => pc'[s] = pc[s] /\ attempt'[s] = attempt[s]
    BY <1>2 DEF CallSucceeds, CallFails, Goto
  <2> QED
    BY <2>1, <2>2
<1>3. CASE ~TakeItem(t) /\ ~CallSucceeds(t) /\ ~CallFails(t)
  <2>1. UNCHANGED <<calls, cur, attempt>>
    BY <1>3 DEF TaskStep, MoreIndices, Claim, TrailingChunk, SkipItem, GiveUp,
                WriteData, WriteSize, WriteOk, EndLoop, Checkpoint
  <2>2. \A s \in Tasks : pc'[s] = "call" => pc[s] = "call"
    BY <1>3 DEF TaskStep, MoreIndices, Claim, TrailingChunk, SkipItem, GiveUp,
                WriteData, WriteSize, WriteOk, EndLoop, Checkpoint, Goto
  <2> QED
    BY <2>1, <2>2
<1> QED
  BY <1>1, <1>2, <1>3

(* A task that has left its loop had finished it.                          *)
LEMMA EndedStayExhausted ==
  ASSUME CoverInv, NEW t \in Tasks, TaskStep(t)
  PROVE  \A s \in Tasks : (pc[s] \in {"checkpoint", "done"} => LoopExhausted(s))'
<1> USE DEF CoverInv, TypeOK, LoopExhausted
<1>1. CASE MoreIndices(t)
  <2>1. pc[t] = "loop" /\ UNCHANGED <<pc, strategy>>
    BY <1>1 DEF MoreIndices, At, Claim, TrailingChunk
  <2>2. \A s \in Tasks : s # t => todo'[s] = todo[s] /\ trailing'[s] = trailing[s]
    BY <1>1 DEF MoreIndices, Claim, TrailingChunk
  <2>3. strategy = "adaptive" /\ pool >= NItems => UNCHANGED pool
    BY <1>1, NItemsAssumption DEF MoreIndices, Claim, TrailingChunk
  <2> QED
    BY <2>1, <2>2, <2>3
<1>2. CASE SkipItem(t) \/ TakeItem(t)
  <2>1. UNCHANGED <<strategy, trailing, pool>>
    BY <1>2 DEF SkipItem, TakeItem
  <2>2. \A s \in Tasks : s # t => pc'[s] = pc[s] /\ todo'[s] = todo[s]
    BY <1>2 DEF SkipItem, TakeItem, Goto
  <2>3. pc'[t] \in {"loop", "call"}
    BY <1>2 DEF SkipItem, TakeItem, Goto, At
  <2> QED
    BY <2>1, <2>2, <2>3
<1>3. CASE EndLoop(t)
  <2>1. UNCHANGED loop /\ LoopExhausted(t)
    BY <1>3 DEF EndLoop
  <2>2. \A s \in Tasks : s # t => pc'[s] = pc[s]
    BY <1>3 DEF EndLoop, Goto
  <2> QED
    BY <2>1, <2>2 DEF loop
<1>4. CASE \/ CallSucceeds(t) \/ CallFails(t) \/ GiveUp(t)
           \/ WriteData(t) \/ WriteSize(t) \/ WriteOk(t) \/ Checkpoint(t)
  <2>1. UNCHANGED loop
    BY <1>4 DEF CallSucceeds, CallFails, GiveUp, WriteData, WriteSize, WriteOk, Checkpoint
  <2>2. \A s \in Tasks : pc'[s] \in {"checkpoint", "done"} =>
                            pc[s] \in {"checkpoint", "done"}
    BY <1>4 DEF CallSucceeds, CallFails, GiveUp, WriteData, WriteSize, WriteOk,
                Checkpoint, At, Goto
  <2> QED
    BY <2>1, <2>2 DEF loop
<1> QED
  BY <1>1, <1>2, <1>3, <1>4 DEF TaskStep

(* Main does not pass a task that is still at work, and no task takes up   *)
(* work again.                                                             *)
LEMMA JoinedStayDone ==
  ASSUME CoverInv, NEW t \in Tasks, TaskStep(t)
  PROVE  (joined => \A s \in Tasks : pc[s] = "done")'
<1>1. pc[t] # "done"
  BY DEF TaskStep, MoreIndices, SkipItem, TakeItem, CallSucceeds, CallFails,
         GiveUp, WriteData, WriteSize, WriteOk, EndLoop, Checkpoint, At
<1>2. ~joined
  BY <1>1 DEF CoverInv
<1>3. joined' = joined
  BY DEF TaskStep, MoreIndices, Claim, TrailingChunk, SkipItem, TakeItem,
         CallSucceeds, CallFails, GiveUp, WriteData, WriteSize, WriteOk,
         EndLoop, Checkpoint
<1> QED
  BY <1>2, <1>3, Sets DEF CoverInv, TypeOK

(* Every step of the phase keeps the invariant.                            *)
LEMMA StepCovers ==
  ASSUME KeysReadable, MaxRetries > 0
  PROVE  CoverInv /\ [Next]_vars => CoverInv'
<1> SUFFICES ASSUME CoverInv, [Next]_vars PROVE CoverInv'
  OBVIOUS
<1>1. TypeOK'
  BY StepTypeOK DEF CoverInv
<1>2. ASSUME NEW t \in Tasks, TaskStep(t) PROVE CoverInv'
  BY <1>1, <1>2, TaskDropsNone, NoneDroppedKeeps, AttemptsCount,
     EndedStayExhausted, JoinedStayDone DEF CoverInv
<1>3. CASE Join
  <2>1. UNCHANGED loop /\ UNCHANGED <<pc, cur, attempt, calls>>
    BY <1>3 DEF Join
  <2>2. \A i \in Items : Covered(i)'
    BY <2>1, QuietStepDropsNone, NoneDroppedKeeps
  <2>3. joined' => \A t \in Tasks : pc'[t] = "done"
    BY <1>3 DEF Join
  <2> QED
    BY <1>1, <2>1, <2>2, <2>3 DEF CoverInv, loop, LoopExhausted
<1>4. CASE UNCHANGED vars
  <2>1. UNCHANGED loop /\ UNCHANGED <<pc, cur, attempt, calls, joined>>
    BY <1>4 DEF vars
  <2>2. \A i \in Items : Covered(i)'
    BY <2>1, QuietStepDropsNone, NoneDroppedKeeps
  <2> QED
    BY <1>1, <2>1, <2>2 DEF CoverInv, loop, LoopExhausted
<1> QED
  BY <1>2, <1>3, <1>4 DEF Next, Finished

(* A restarted program is one that begins.                                 *)
LEMMA RestartBegins == Restart => Init'
<1> SUFFICES ASSUME Restart PROVE Init'
  OBVIOUS
<1>1. PICK s \in Strategies, owner \in BlockOwners :
        /\ strategy' = s
        /\ todo' = [t \in Tasks |->
                     CASE s = "keyed" -> Items
                       [] s = "spatial" -> {i \in Items : owner[i] = t}
                       [] OTHER -> AssignedBy(t, s)]
        /\ trailing' = [t \in Tasks |->
                         /\ s = "chunk"
                         /\ NegativeChunk(t, NumLocales, NItems, GrainSize)]
  BY DEF Restart, NewLoops
<1>2. \A t \in Tasks : AssignedBy(t, s) = Assigned(t)'
  BY <1>1 DEF AssignedBy, Assigned
<1>3. InitialTodo'
  <2>1. CASE s = "keyed"
    BY <1>1, <2>1 DEF InitialTodo
  <2>2. CASE s = "spatial"
    BY <1>1, <2>2 DEF InitialTodo
  <2>3. CASE s \notin {"keyed", "spatial"}
    BY <1>1, <1>2, <2>3 DEF InitialTodo
  <2> QED
    BY <2>1, <2>2, <2>3
<1>4. pool' = 0 /\ NewVariables
  BY DEF Restart, NewLoops
<1> QED
  BY <1>1, <1>3, <1>4 DEF Init, NewVariables

LEMMA RestartCovers == Restart => CoverInv'
BY RestartBegins, InitCovers, PTL

(* A locale that reaches its checkpoint hook has seen every item assigned  *)
(* to it passed to c_process_item.                                         *)
LEMMA HookSeesAllTried ==
  ASSUME CoverInv, NEW t \in Tasks, Checkpoint(t)
  PROVE  AssignedBy(t, strategy) \subseteq Tried
<1>1. pc[t] = "checkpoint" /\ todo[t] = {}
  BY DEF Checkpoint, At, CoverInv, LoopExhausted
<1>2. AssignedBy(t, strategy) = Assigned(t)
  BY DEF AssignedBy, Assigned
<1>3. ASSUME NEW i \in Assigned(t) PROVE i \in Tried
  <2>1. i \in Items
    BY AssignedType
  <2> QED
    BY <1>1, <1>3, <2>1 DEF CoverInv, Covered, Bound, Owes, Trying, Tried
<1> QED
  BY <1>2, <1>3

-----------------------------------------------------------------------------
(* Across crashes.                                                         *)

RecoveryInv == CoverInv /\ MarkersTellOfTriedItems

LEMMA RunKeepsMarkers ==
  ASSUME MaxRetries > 0, RecoveryInv, NEW t \in Tasks, Run(TaskStep(t))
  PROVE  MarkersTellOfTriedItems'
<1> SUFFICES ASSUME NEW s \in Tasks, markers'[s] # NoMarker
             PROVE  AssignedBy(s, markers'[s].strategy) \subseteq markers'[s].tried
  BY DEF MarkersTellOfTriedItems, AssignedBy
<1>1. markers'[s] = Kept(s)
  BY DEF Run
<1>2. CASE s \in saved' \ saved
  <2>1. Checkpoint(t) /\ s = t
    <3>1. \/ UNCHANGED saved
          \/ Checkpoint(t) /\ saved' = saved \cup {t}
      BY DEF Run, TaskStep, MoreIndices, Claim, TrailingChunk, SkipItem, TakeItem,
             CallSucceeds, CallFails, GiveUp, WriteData, WriteSize, WriteOk,
             EndLoop, Checkpoint
    <3> QED
      BY <1>2, <3>1
  <2>2. AssignedBy(s, strategy) \subseteq Tried
    BY <2>1, HookSeesAllTried DEF RecoveryInv
  <2>3. markers'[s] = [run |-> run, strategy |-> strategy, tried |-> Tried]
    BY <1>1, <1>2 DEF Kept
  <2> QED
    BY <2>2, <2>3
<1>3. CASE s \notin saved' \ saved
  BY <1>1, <1>3 DEF Kept, RecoveryInv, MarkersTellOfTriedItems
<1> QED
  BY <1>2, <1>3

LEMMA RecoveryInvStep ==
  ASSUME KeysReadable, MaxRetries > 0
  PROVE  RecoveryInv /\ [RecoveryNext]_recoveryVars => RecoveryInv'
<1> SUFFICES ASSUME RecoveryInv, [RecoveryNext]_recoveryVars PROVE RecoveryInv'
  OBVIOUS
<1>1. ASSUME NEW t \in Tasks, Run(TaskStep(t)) PROVE RecoveryInv'
  <2>1. CoverInv'
    BY <1>1, StepCovers DEF RecoveryInv, Run, Next
  <2> QED
    BY <1>1, <2>1, RunKeepsMarkers DEF RecoveryInv
<1>2. CASE Run(Join) \/ Run(Finished)
  <2>1. CoverInv'
    BY <1>2, StepCovers DEF RecoveryInv, Run, Next
  <2>2. UNCHANGED saved /\ \A s \in Tasks : markers'[s] = markers[s]
    BY <1>2 DEF Run, Kept, Join, Finished, vars
  <2>3. MarkersTellOfTriedItems'
    BY <2>2 DEF RecoveryInv, MarkersTellOfTriedItems, AssignedBy
  <2> QED
    BY <2>1, <2>3 DEF RecoveryInv
<1>3. CASE Crash \/ UNCHANGED recoveryVars
  <2>1. UNCHANGED vars /\ UNCHANGED markers
    BY <1>3 DEF Crash, recoveryVars
  <2>2. CoverInv'
    BY <2>1, StepCovers DEF RecoveryInv
  <2>3. MarkersTellOfTriedItems'
    BY <2>1 DEF RecoveryInv, MarkersTellOfTriedItems, AssignedBy
  <2> QED
    BY <2>2, <2>3 DEF RecoveryInv
<1>4. CASE Restart
  <2>1. CoverInv'
    BY <1>4, RestartCovers
  <2>2. MarkersTellOfTriedItems'
    BY <1>4 DEF Restart, RecoveryInv, MarkersTellOfTriedItems, AssignedBy
  <2> QED
    BY <2>1, <2>2 DEF RecoveryInv
<1> QED
  BY <1>1, <1>2, <1>3, <1>4 DEF RecoveryNext

LEMMA RecoveryInvInit == RecoveryInit => RecoveryInv
BY InitCovers DEF RecoveryInit, RecoveryInv, MarkersTellOfTriedItems

(* With at least one attempt per item, no item is dropped by any number of *)
(* crashes and restarts nor by an unspecified chunk range: when main of    *)
(* the last run passes the end of the coforall it has tried every item.    *)
THEOREM NothingSkipped ==
  ASSUME KeysReadable
  PROVE  RecoverySpec => []NoItemSkipped
<1>1. CASE MaxRetries > 0
  <2>1. RecoveryInv => NoItemSkipped
    <3> SUFFICES ASSUME CoverInv, joined, NEW i \in Items PROVE calls[i] > 0
      BY DEF RecoveryInv, NoItemSkipped
    <3>1. \A t \in Tasks : pc[t] = "done" /\ LoopExhausted(t)
      BY DEF CoverInv
    <3>2. ~Unclaimed(i)
      BY <3>1, Sets, NItemsAssumption DEF LoopExhausted, Unclaimed, CoverInv, TypeOK
    <3>3. \A t \in Tasks : ~Bound(t, i)
      BY <3>1 DEF LoopExhausted, Bound, Owes, Trying
    <3> QED
      BY <3>2, <3>3 DEF CoverInv, Covered
  <2> QED
    BY <1>1, <2>1, RecoveryInvInit, RecoveryInvStep, PTL DEF RecoverySpec
<1>2. CASE ~(MaxRetries > 0)
  <2>1. NoItemSkipped
    BY <1>2 DEF NoItemSkipped
  <2> QED
    BY <2>1, PTL
<1> QED
  BY <1>1, <1>2

(* A marker found after any number of crashes was saved when every item of *)
(* its locale had been tried in the run that saved it.                     *)
THEOREM MarkersHonest ==
  ASSUME KeysReadable
  PROVE  RecoverySpec => []MarkersTellOfTriedItems
<1>1. CASE MaxRetries > 0
  <2>1. RecoveryInv => MarkersTellOfTriedItems
    BY DEF RecoveryInv
  <2> QED
    BY <1>1, <2>1, RecoveryInvInit, RecoveryInvStep, PTL DEF RecoverySpec
<1>2. CASE ~(MaxRetries > 0)
  <2>1. MarkersTellOfTriedItems
    BY <1>2 DEF MarkersTellOfTriedItems
  <2> QED
    BY <2>1, PTL
<1> QED
  BY <1>1, <1>2

-----------------------------------------------------------------------------
(* Where Chapel leaves nothing open, what holds of one run holds of each.  *)

LEMMA EachRunKeeps ==
  ASSUME SoundConstants
  PROVE  IInv /\ [RecoveryNext]_recoveryVars => IInv'
<1> SUFFICES ASSUME IInv, [RecoveryNext]_recoveryVars PROVE IInv'
  OBVIOUS
<1>1. CASE Restart
  BY <1>1, RestartBegins, InitIInv, PTL
<1>2. CASE ~Restart
  <2>1. [Next]_vars
    BY <1>2 DEF RecoveryNext, Run, Crash, Next, recoveryVars
  <2> QED
    BY <2>1, StepKeeps
<1> QED
  BY <1>1, <1>2

(* No crash, wherever it comes, leaves a later run with two tasks that     *)
(* have one item in hand, a slot that is torn or of an earlier run, an     *)
(* item called too often, or one without a verdict past the coforall.      *)
THEOREM RunsUndisturbed ==
  ASSUME SoundConstants
  PROVE  RecoverySpec =>
           [](NoSharedItem /\ SlotCoherent /\ AttemptsBounded /\ DecidedAtJoin)
<1>1. RecoveryInit => IInv
  BY InitIInv DEF RecoveryInit
<1>2. IInv => NoSharedItem /\ SlotCoherent /\ AttemptsBounded /\ DecidedAtJoin
  BY OneOwnerIsExclusive, NoOwnersAtJoin DEF IInv
<1> QED
  BY <1>1, <1>2, EachRunKeeps, PTL DEF RecoverySpec
=============================================================================
