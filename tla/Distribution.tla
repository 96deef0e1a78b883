---------------------------- MODULE Distribution ----------------------------
(***************************************************************************)
(* Phase 2 of a generated program: the tasks that process the items.       *)
(*                                                                         *)
(* Under per-item, chunk and keyed partitioning, task t is the body of the *)
(* coforall on locale t.  Under adaptive and spatial partitioning the      *)
(* tasks are those of Chapel's own iterators and t is only a name.  All    *)
(* tasks write the arrays resultData, resultSizes and resultOk that live   *)
(* on locale 0; nothing is locked, so what keeps the slots sound is that   *)
(* no two tasks are ever given the same item.                              *)
(*                                                                         *)
(* A buffer is abstracted to the call of c_process_item that filled it:    *)
(* <<i, k>> is the output of the k-th call for item i.                     *)
(***************************************************************************)
EXTENDS Partitioning, Sequences

CONSTANTS
  NumLocales,       \* numLocales
  NItems,           \* nItems, positive when the phase is reached
  GrainSize,        \* config const grainSize
  MaxRetries,       \* config const maxRetries
  Strategies,       \* the partition strategies a manifest may name here
  KeyHash,          \* c_key_hash of each item's bytes
  RemotePointers,   \* c_ptrTo of an element of a locale-0 array can be
                    \* followed on the other locales
  EnableCheckpoint  \* config const enableCheckpoint

ASSUME NumLocalesAssumption == NumLocales \in Nat \ {0}
ASSUME NItemsAssumption == NItems \in Nat \ {0}
ASSUME GrainSizeAssumption == GrainSize \in Nat \ {0}
ASSUME MaxRetriesAssumption == MaxRetries \in Nat
ASSUME StrategiesAssumption ==
  Strategies \subseteq {"per-item", "chunk", "adaptive", "spatial", "keyed"}
ASSUME KeyHashAssumption == KeyHash \in [Indices(NItems) -> Nat]
ASSUME SwitchesAssumption ==
  RemotePointers \in BOOLEAN /\ EnableCheckpoint \in BOOLEAN

Items == Indices(NItems)
Tasks == Indices(NumLocales)

\* Contents of a buffer no successful call has filled.
NoOutput == <<>>

VARIABLES
  strategy,      \* workload.partition
  todo,          \* the indices each task's loop has still to visit
  trailing,      \* the task's chunk loop has an index past the last chunk
  pool,          \* the next index of the dynamic iterator
  pc,            \* where each task is
  cur,           \* the index each task works on
  attempt,       \* attempts made for it
  localOut,      \* localOut and outLen, which one call fills together
  resultData,
  resultSizes,
  resultOk,
  saved,         \* tasks whose "locale-<id>" marker was handed to
                 \* c_checkpoint_save
  joined,        \* main is past the coforall or forall
  halted,        \* the program was stopped by a Chapel halt
  calls          \* history: calls of c_process_item for each item

slots == <<resultData, resultSizes, resultOk>>
loop  == <<strategy, todo, trailing, pool>>
vars  == <<loop, pc, cur, attempt, localOut, slots, saved, joined, halted, calls>>

-----------------------------------------------------------------------------
(* What the loop of each task ranges over.                                 *)

\* The locale whose loop is meant to process item i, where the generated
\* code itself decides it.
Assigned(t) ==
  CASE strategy = "per-item" -> LocaleRange(t, NumLocales, NItems)
    [] strategy = "chunk" -> ChunkItems(t, NumLocales, NItems, GrainSize)
    [] strategy = "keyed" -> {i \in Items : KeyOwner(KeyHash[i], NumLocales) = t}
    [] OTHER -> {}

\* blockDist gives every index to one task, in contiguous regions; how long
\* they are is the library's affair.
BlockOwners ==
  {owner \in [Items -> Tasks] : \A i, j \in Items : i <= j => owner[i] <= owner[j]}

InitialTodo ==
  CASE strategy = "keyed" -> todo = [t \in Tasks |-> Items]
    [] strategy = "spatial" ->
         \E owner \in BlockOwners :
           todo = [t \in Tasks |-> {i \in Items : owner[i] = t}]
    [] OTHER -> todo = [t \in Tasks |-> Assigned(t)]

Init ==
  /\ strategy \in Strategies
  /\ InitialTodo
  /\ trailing = [t \in Tasks |->
                   /\ strategy = "chunk"
                   /\ NegativeChunk(t, NumLocales, NItems, GrainSize)]
  /\ pool = 0
  /\ pc = [t \in Tasks |-> "loop"]
  /\ cur = [t \in Tasks |-> 0]
  /\ attempt = [t \in Tasks |-> 0]
  /\ localOut = [t \in Tasks |-> NoOutput]
  /\ resultData = [i \in Items |-> NoOutput]
  /\ resultSizes = [i \in Items |-> NoOutput]
  /\ resultOk = [i \in Items |-> FALSE]
  /\ saved = {}
  /\ joined = FALSE
  /\ halted = FALSE
  /\ calls = [i \in Items |-> 0]

-----------------------------------------------------------------------------
(* Steps of a task.                                                        *)

At(t, label) == ~halted /\ pc[t] = label
Goto(t, label) == pc' = [pc EXCEPT ![t] = label]

\* The hash of item i as locale t computes it: of the item's bytes if the
\* pointer can be followed there, else of whatever memory it names.
ReadsKey(t) == RemotePointers \/ t = 0
MayTake(t, i) ==
  strategy = "keyed" /\ ReadsKey(t) => KeyOwner(KeyHash[i], NumLocales) = t
MaySkip(t, i) ==
  /\ strategy = "keyed"
  /\ ReadsKey(t) => KeyOwner(KeyHash[i], NumLocales) # t

\* Mutant: the pool advances by one index too few.
Claim_Overlap(t) ==
  /\ strategy = "adaptive"
  /\ pool < NItems
  /\ todo' = [todo EXCEPT ![t] = pool .. Lesser(pool + GrainSize, NItems) - 1]
  /\ pool' = Lesser(pool + GrainSize, NItems) - (IF pool = 0 THEN 1 ELSE 0)
  /\ UNCHANGED <<strategy, trailing, pc, cur, attempt, localOut, slots,
                 saved, joined, halted, calls>>

\* A worker of the dynamic iterator claims the next grainSize indices.
Claim(t) ==
  /\ strategy = "adaptive"
  /\ pool < NItems
  /\ todo' = [todo EXCEPT ![t] = pool .. Lesser(pool + GrainSize, NItems) - 1]
  /\ pool' = Lesser(pool + GrainSize, NItems)
  /\ UNCHANGED <<strategy, trailing, pc, cur, attempt, localOut, slots,
                 saved, joined, halted, calls>>

\* The chunk loop reaches an index past the last chunk and evaluates
\* lo..#count with count < 0.  With bounds checks Chapel halts; without them
\* (the generated build passes --fast) the range is unspecified.
TrailingChunk(t) ==
  /\ trailing[t]
  /\ trailing' = [trailing EXCEPT ![t] = FALSE]
  /\ \/ /\ halted' = TRUE
        /\ UNCHANGED todo
     \/ /\ \E S \in SUBSET Items : todo' = [todo EXCEPT ![t] = S]
        /\ UNCHANGED halted
  /\ UNCHANGED <<strategy, pool, pc, cur, attempt, localOut, slots,
                 saved, joined, calls>>

\* A loop that is out of indices goes on to what it iterates over next.
MoreIndices(t) ==
  /\ At(t, "loop")
  /\ todo[t] = {}
  /\ Claim(t) \/ TrailingChunk(t)

IsNext(t, i) == i \in todo[t] /\ \A j \in todo[t] : i <= j

\* Mutant: the loop does not move past an item of another locale.
SkipItem_NoAdvance(t) ==
  /\ At(t, "loop")
  /\ \E i \in Items : IsNext(t, i) /\ MaySkip(t, i)
  /\ UNCHANGED vars

\* Keyed: the item hashes to another locale.
SkipItem(t) ==
  /\ At(t, "loop")
  /\ \E i \in Items :
       /\ IsNext(t, i)
       /\ MaySkip(t, i)
       /\ todo' = [todo EXCEPT ![t] = @ \ {i}]
  /\ UNCHANGED <<strategy, trailing, pool, pc, cur, attempt, localOut, slots,
                 saved, joined, halted, calls>>

\* Mutant: the loop does not move past the item it takes.
TakeItem_NoAdvance(t) ==
  /\ At(t, "loop")
  /\ \E i \in Items :
       /\ IsNext(t, i)
       /\ MayTake(t, i)
       /\ cur' = [cur EXCEPT ![t] = i]
  /\ attempt' = [attempt EXCEPT ![t] = 0]
  /\ localOut' = [localOut EXCEPT ![t] = NoOutput]
  /\ Goto(t, "call")
  /\ UNCHANGED <<loop, slots, saved, joined, halted, calls>>

\* Copy the item to a local buffer and enter processWithRetry.
TakeItem(t) ==
  /\ At(t, "loop")
  /\ \E i \in Items :
       /\ IsNext(t, i)
       /\ MayTake(t, i)
       /\ todo' = [todo EXCEPT ![t] = @ \ {i}]
       /\ cur' = [cur EXCEPT ![t] = i]
  /\ attempt' = [attempt EXCEPT ![t] = 0]
  /\ localOut' = [localOut EXCEPT ![t] = NoOutput]
  /\ Goto(t, "call")
  /\ UNCHANGED <<strategy, trailing, pool, slots, saved, joined, halted, calls>>

\* Mutant: the assignment of resultData is left out.
CallSucceeds_NoData(t) ==
  /\ At(t, "call")
  /\ attempt[t] < MaxRetries
  /\ attempt' = [attempt EXCEPT ![t] = @ + 1]
  /\ calls' = [calls EXCEPT ![cur[t]] = @ + 1]
  /\ localOut' = [localOut EXCEPT ![t] = <<cur[t], calls[cur[t]] + 1>>]
  /\ Goto(t, "size")
  /\ UNCHANGED <<loop, cur, slots, saved, joined, halted>>

\* c_process_item returns 0.
CallSucceeds(t) ==
  /\ At(t, "call")
  /\ attempt[t] < MaxRetries
  /\ attempt' = [attempt EXCEPT ![t] = @ + 1]
  /\ calls' = [calls EXCEPT ![cur[t]] = @ + 1]
  /\ localOut' = [localOut EXCEPT ![t] = <<cur[t], calls[cur[t]] + 1>>]
  /\ Goto(t, "data")
  /\ UNCHANGED <<loop, cur, slots, saved, joined, halted>>

\* Mutant: one attempt more than maxRetries.
CallFails_OneMore(t) ==
  /\ At(t, "call")
  /\ attempt[t] <= MaxRetries
  /\ attempt' = [attempt EXCEPT ![t] = @ + 1]
  /\ calls' = [calls EXCEPT ![cur[t]] = @ + 1]
  /\ UNCHANGED <<loop, pc, cur, localOut, slots, saved, joined, halted>>

\* c_process_item returns anything else; the next iteration tries again.
CallFails(t) ==
  /\ At(t, "call")
  /\ attempt[t] < MaxRetries
  /\ attempt' = [attempt EXCEPT ![t] = @ + 1]
  /\ calls' = [calls EXCEPT ![cur[t]] = @ + 1]
  /\ UNCHANGED <<loop, pc, cur, localOut, slots, saved, joined, halted>>

\* The retry loop is used up: the item is marked failed.
GiveUp(t) ==
  /\ At(t, "call")
  /\ attempt[t] >= MaxRetries
  /\ resultOk' = [resultOk EXCEPT ![cur[t]] = FALSE]
  /\ Goto(t, "loop")
  /\ UNCHANGED <<loop, cur, attempt, localOut, resultData, resultSizes,
                 saved, joined, halted, calls>>

\* The three assignments to the item's slot, each a remote write of its own.
WriteData(t) ==
  /\ At(t, "data")
  /\ resultData' = [resultData EXCEPT ![cur[t]] = localOut[t]]
  /\ Goto(t, "size")
  /\ UNCHANGED <<loop, cur, attempt, localOut, resultSizes, resultOk,
                 saved, joined, halted, calls>>

WriteSize(t) ==
  /\ At(t, "size")
  /\ resultSizes' = [resultSizes EXCEPT ![cur[t]] = localOut[t]]
  /\ Goto(t, "ok")
  /\ UNCHANGED <<loop, cur, attempt, localOut, resultData, resultOk,
                 saved, joined, halted, calls>>

WriteOk(t) ==
  /\ At(t, "ok")
  /\ resultOk' = [resultOk EXCEPT ![cur[t]] = TRUE]
  /\ Goto(t, "loop")
  /\ UNCHANGED <<loop, cur, attempt, localOut, resultData, resultSizes,
                 saved, joined, halted, calls>>

\* The checkpoint hook follows the loop in the three coforall strategies.
HasCheckpointHook == strategy \in {"per-item", "chunk", "keyed"}

LoopExhausted(t) ==
  /\ todo[t] = {}
  /\ ~trailing[t]
  /\ strategy = "adaptive" => pool >= NItems

\* Mutant: the loop is left before it has visited everything.
EndLoop_Early(t) ==
  /\ At(t, "loop")
  /\ ~trailing[t]
  /\ Goto(t, IF EnableCheckpoint /\ HasCheckpointHook THEN "checkpoint" ELSE "done")
  /\ UNCHANGED <<loop, cur, attempt, localOut, slots, saved, joined, halted, calls>>

EndLoop(t) ==
  /\ At(t, "loop")
  /\ LoopExhausted(t)
  /\ Goto(t, IF EnableCheckpoint /\ HasCheckpointHook THEN "checkpoint" ELSE "done")
  /\ UNCHANGED <<loop, cur, attempt, localOut, slots, saved, joined, halted, calls>>

\* c_checkpoint_save; its return code is not looked at.
Checkpoint(t) ==
  /\ At(t, "checkpoint")
  /\ saved' = saved \cup {t}
  /\ Goto(t, "done")
  /\ UNCHANGED <<loop, cur, attempt, localOut, slots, joined, halted, calls>>

\* Mutant: main does not wait for the tasks (a begin instead of a coforall).
Join_NoWait ==
  /\ ~halted
  /\ ~joined
  /\ joined' = TRUE
  /\ UNCHANGED <<loop, pc, cur, attempt, localOut, slots, saved, halted, calls>>

\* The coforall ends when all its tasks have.
Join ==
  /\ ~halted
  /\ ~joined
  /\ \A t \in Tasks : pc[t] = "done"
  /\ joined' = TRUE
  /\ UNCHANGED <<loop, pc, cur, attempt, localOut, slots, saved, halted, calls>>

Finished ==
  /\ joined \/ halted
  /\ UNCHANGED vars

TaskStep(t) ==
  \/ MoreIndices(t) \/ SkipItem(t) \/ TakeItem(t)
  \/ CallSucceeds(t) \/ CallFails(t) \/ GiveUp(t)
  \/ WriteData(t) \/ WriteSize(t) \/ WriteOk(t)
  \/ EndLoop(t) \/ Checkpoint(t)

Next ==
  \/ \E t \in Tasks : TaskStep(t)
  \/ Join
  \/ Finished

SafeSpec == Init /\ [][Next]_vars

\* Every task that can take a step takes one: Chapel runs all tasks of a
\* coforall or forall, and the user's c_process_item returns.
Fairness == WF_vars(Join) /\ \A t \in Tasks : WF_vars(TaskStep(t))

Spec == SafeSpec /\ Fairness

-----------------------------------------------------------------------------
(* Properties.                                                             *)

Labels == {"loop", "call", "data", "size", "ok", "checkpoint", "done"}
Buffer == {NoOutput} \cup (Items \X (Nat \ {0}))

\* Types of the phase's state, of the arrays on locale 0 and of the locals.
TypeOK ==
  /\ strategy \in Strategies
  /\ todo \in [Tasks -> SUBSET Items]
  /\ trailing \in [Tasks -> BOOLEAN]
  /\ pool \in 0 .. NItems
  /\ pc \in [Tasks -> Labels]
  /\ cur \in [Tasks -> Items]
  /\ attempt \in [Tasks -> 0 .. MaxRetries]
  /\ localOut \in [Tasks -> Buffer]
  /\ resultData \in [Items -> Buffer]
  /\ resultSizes \in [Items -> Buffer]
  /\ resultOk \in [Items -> BOOLEAN]
  /\ saved \subseteq Tasks
  /\ joined \in BOOLEAN
  /\ halted \in BOOLEAN
  /\ calls \in [Items -> Nat]

Busy(t) == pc[t] \in {"call", "data", "size", "ok"}

\* No two tasks have the same item in hand, so the unlocked writes of
\* write_process_single_item never meet in a slot.
NoSharedItem ==
  \A s, t \in Tasks : s # t /\ Busy(s) /\ Busy(t) => cur[s] # cur[t]

\* c_process_item is called at most maxRetries times for an item in the whole
\* run, whichever tasks call it.
AttemptsBounded == \A i \in Items : calls[i] <= MaxRetries

\* A slot flagged resultOk holds the bytes and the length of one call, the
\* last one made for that item: neither half is stale or of another item.
SlotCoherent ==
  \A i \in Items :
    resultOk[i] => /\ resultData[i] = <<i, calls[i]>>
                   /\ resultSizes[i] = <<i, calls[i]>>

\* Item i has its final verdict: it succeeded, or all attempts were used up
\* and no result was written.
Decided(i) ==
  \/ resultOk[i]
  \/ calls[i] = MaxRetries /\ resultData[i] = NoOutput /\ resultSizes[i] = NoOutput

\* When main passes the end of the coforall no item has been lost, and the
\* ones marked failed were given every attempt.
DecidedAtJoin == joined => \A i \in Items : Decided(i)

\* The checkpoint marker of a locale ("this locale finished") is only saved
\* once every item assigned to the locale has its verdict.
CheckpointHonest == \A t \in saved : \A i \in Assigned(t) : Decided(i)

SuccessKept ==
  \A i \in Items :
    resultOk[i] => /\ resultOk'[i]
                   /\ resultData'[i] = resultData[i]
                   /\ resultSizes'[i] = resultSizes[i]
                   /\ calls'[i] = calls[i]

\* A success is final: no later step of any task calls c_process_item for
\* that item again or touches its slot.
SuccessIsFinal == [][SuccessKept]_vars

\* No chunk loop evaluates a range whose count is negative (which halts the
\* program when bounds checks are on).
NoNegativeRange == ~halted

\* Even when a chunk loop walks an unspecified range, main only reaches the
\* end of the coforall after every item was passed to c_process_item.
NoItemSkipped == joined /\ MaxRetries > 0 => \A i \in Items : calls[i] > 0

\* Keyed: items whose keys hash alike are processed by the same locale.
SameKeySameLocale ==
  \A s, t \in Tasks :
    strategy = "keyed" /\ Busy(s) /\ Busy(t)
      /\ KeyHash[cur[s]] = KeyHash[cur[t]] => s = t

-----------------------------------------------------------------------------
(* The phase implements ParallelMap: an item is undecided while some loop  *)
(* has still to take it or some task has it in hand.                       *)


\* Task t will still take item i.
Owes(t, i) ==
  /\ i \in todo[t]
  /\ strategy = "keyed" => KeyOwner(KeyHash[i], NumLocales) = t

InHand(t, i) == Busy(t) /\ cur[t] = i

\* The dynamic iterator has not given the item out.
Unclaimed(i) == strategy = "adaptive" /\ pool <= i

Pending(i) == Unclaimed(i) \/ \E t \in Tasks : Owes(t, i) \/ InHand(t, i)

Verdict(i) ==
  CASE Pending(i) -> "pending"
    [] ~Pending(i) /\ resultOk[i] -> "ok"
    [] OTHER -> "failed"

Abstract == INSTANCE ParallelMap WITH
  outcome <- [i \in Items |-> Verdict(i)]

\* The phase decides every item exactly once and then joins, as ParallelMap
\* promises, including that it gets there.
ImplementsParallelMap == Abstract!Spec

-----------------------------------------------------------------------------
(* The inductive invariant: an item has at most one owner, and the owner's *)
(* program counter says how far its slot is written.                       *)

\* The constants keep clear of the two cases where Chapel promises nothing:
\* a key read through a remote pointer and a range with a negative count.
SoundConstants ==
  /\ "keyed" \in Strategies => RemotePointers \/ NumLocales = 1
  /\ "chunk" \in Strategies =>
       \A t \in Tasks : ~NegativeChunk(t, NumLocales, NItems, GrainSize)

Quiet == ~halted /\ \A t \in Tasks : ~trailing[t]

Empty(i) == ~resultOk[i] /\ resultData[i] = NoOutput /\ resultSizes[i] = NoOutput

\* Nobody has touched the slot of an item that is still to be taken.
Fresh(i) == Empty(i) /\ calls[i] = 0

OneOwner ==
  \A i \in Items :
    /\ \A s, t \in Tasks :
         (Owes(s, i) \/ InHand(s, i)) /\ (Owes(t, i) \/ InHand(t, i)) => s = t
    /\ \A t \in Tasks : ~(Owes(t, i) /\ InHand(t, i))
    /\ Unclaimed(i) => \A t \in Tasks : ~Owes(t, i) /\ ~InHand(t, i)

FreshUntilTaken ==
  \A i \in Items :
    Unclaimed(i) \/ (\E t \in Tasks : Owes(t, i)) => Fresh(i)

\* What the program counter of the task that has item i says of i's slot.
SlotProgress(t, i) ==
  /\ ~resultOk[i]
  /\ calls[i] = attempt[t]
  /\ pc[t] # "call" => localOut[t] = <<i, calls[i]>>
  /\ resultData[i] = IF pc[t] \in {"size", "ok"} THEN localOut[t] ELSE NoOutput
  /\ resultSizes[i] = IF pc[t] = "ok" THEN localOut[t] ELSE NoOutput

HandProgress == \A t \in Tasks : \A i \in Items : InHand(t, i) => SlotProgress(t, i)

\* An item nobody owns has its verdict, and an assigned one is owned by the
\* task it is assigned to for as long as it has none.
NoneLost ==
  \A i \in Items :
    /\ ~Pending(i) => Decided(i)
    /\ \A t \in Tasks :
         i \in Assigned(t) /\ Pending(i) => Owes(t, i) \/ InHand(t, i)

EndedTasksOweNothing ==
  /\ \A t \in Tasks : pc[t] \in {"checkpoint", "done"} => LoopExhausted(t)
  /\ \A t \in saved : pc[t] = "done"
  /\ joined => \A t \in Tasks : pc[t] = "done"

IInv ==
  /\ TypeOK
  /\ Quiet
  /\ OneOwner
  /\ FreshUntilTaken
  /\ HandProgress
  /\ SlotCoherent
  /\ AttemptsBounded
  /\ NoneLost
  /\ EndedTasksOweNothing
=============================================================================
