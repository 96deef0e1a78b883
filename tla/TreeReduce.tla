----------------------------- MODULE TreeReduce -----------------------------
(***************************************************************************)
(* Phase 3 of a generated program under gather = "tree-reduce".            *)
(*                                                                         *)
(* Every locale folds the successful results of its localeRange into one   *)
(* value; then rounds of pairwise reductions run until one locale is       *)
(* active, and what slot 0 holds is the result.  The arrays of the         *)
(* accumulators live on locale 0 and no task locks anything.  c_reduce is  *)
(* given the addresses of their elements, which a locale other than 0 may  *)
(* not be able to follow: what it then combines is junk.                   *)
(*                                                                         *)
(* A buffer is abstracted to the sequence of the items combined in it, in  *)
(* the order of the arguments of c_reduce, so the reduction modelled is    *)
(* concatenation: associative, and it shows every loss, repetition and     *)
(* change of order.                                                        *)
(***************************************************************************)
EXTENDS Partitioning, SequencesExt

CONSTANTS
  NumLocales,       \* numLocales
  NItems,           \* nItems, positive when the phase is reached
  ReduceMayFail,    \* c_reduce may return non-zero
  RemotePointers    \* whether c_ptrTo of an element of a locale-0 array can
                    \* be followed on the other locales: the cases to look at

ASSUME TreeLocalesAssumption == NumLocales \in Nat \ {0}
ASSUME TreeItemsAssumption == NItems \in Nat \ {0}
ASSUME ReduceMayFailAssumption == ReduceMayFail \in BOOLEAN
ASSUME RemotePointersAssumption == RemotePointers \subseteq BOOLEAN

Items == Indices(NItems)
Locales == Indices(NumLocales)

\* A buffer nothing was written to.
NoOutput == <<>>

\* In place of an item: bytes that are no result.
Junk == -1

VARIABLES
  followed,      \* pointers into locale 0 can be followed everywhere
  phase,         \* "fold", "between" rounds, "round", "stored"
  todo,          \* the indices each locale's fold has still to visit
  localAccum,    \* localAccum and localAccumLen of each locale
  first,         \* no result was folded on the locale yet
  busy,          \* locales whose task of the current coforall has not ended
  reduced,       \* locales whose task of the round is back from c_reduce
  tmpBuf,        \* tmpBuf and tmpLen of the round's tasks
  localeResult,  \* localeResultBuf and localeResultLen
  localeHasResult,
  active,        \* accumulators still in play
  resultData,    \* resultData and resultSizes
  resultOk,
  succeeded,     \* history: items that succeeded in the distribution phase
  reduceFailed,  \* history: some call of c_reduce returned non-zero
  garbled        \* history: some call of c_reduce read other memory

locals == <<todo, localAccum, first>>
round  == <<reduced, tmpBuf>>
accums == <<localeResult, localeHasResult>>
result == <<resultData, resultOk>>
calls  == <<reduceFailed, garbled>>
fixed  == <<followed, succeeded>>
vars   == <<fixed, phase, locals, busy, round, accums, active, result, calls>>

Init ==
  /\ followed \in RemotePointers
  /\ phase = "fold"
  /\ todo = [l \in Locales |-> LocaleRange(l, NumLocales, NItems)]
  /\ localAccum = [l \in Locales |-> NoOutput]
  /\ first = [l \in Locales |-> TRUE]
  /\ busy = Locales
  /\ reduced = {}
  /\ tmpBuf = [l \in Locales |-> NoOutput]
  /\ localeResult = [l \in Locales |-> NoOutput]
  /\ localeHasResult = [l \in Locales |-> FALSE]
  /\ active = NumLocales
  /\ resultOk \in [Items -> BOOLEAN]
  /\ resultData = [i \in Items |-> IF resultOk[i] THEN <<i>> ELSE NoOutput]
  /\ succeeded = {i \in Items : resultOk[i]}
  /\ reduceFailed = FALSE
  /\ garbled = FALSE

-----------------------------------------------------------------------------
(* Calls of c_reduce, whose return code neither caller looks at.           *)

\* On locale l, c_reduce(a, b) leaves out in its output buffer.
Reduced(l, a, b, out) ==
  \/ /\ out = a \o b
     /\ UNCHANGED calls
  \/ /\ ReduceMayFail
     /\ out = NoOutput
     /\ reduceFailed' = TRUE
     /\ UNCHANGED garbled
  \/ /\ ~followed
     /\ l # 0
     /\ out = <<Junk>>
     /\ garbled' = TRUE
     /\ UNCHANGED reduceFailed

\* The outputs c_reduce(a, b) can leave.
Outputs(a, b) == {a \o b, NoOutput, <<Junk>>}

-----------------------------------------------------------------------------
(* The fold of a locale's own slice.                                       *)

Folding(l, i) ==
  /\ phase = "fold"
  /\ l \in busy
  /\ i \in todo[l]
  /\ \A j \in todo[l] : i <= j
  /\ todo' = [todo EXCEPT ![l] = @ \ {i}]

SkipFailed(l) ==
  /\ \E i \in Items : Folding(l, i) /\ ~resultOk[i]
  /\ UNCHANGED <<phase, localAccum, first, busy, round, accums, active, result,
                 fixed, calls>>

\* Mutant: the accumulator is seeded with the slice's first item, failed or not.
Seed_Blindly(l) ==
  /\ first[l]
  /\ \E i \in Items :
       /\ Folding(l, i)
       /\ localAccum' = [localAccum EXCEPT ![l] = <<i>>]
  /\ first' = [first EXCEPT ![l] = FALSE]
  /\ UNCHANGED <<phase, busy, round, accums, active, result, fixed, calls>>

Seed(l) ==
  /\ first[l]
  /\ \E i \in Items :
       /\ Folding(l, i)
       /\ resultOk[i]
       /\ localAccum' = [localAccum EXCEPT ![l] = resultData[i]]
  /\ first' = [first EXCEPT ![l] = FALSE]
  /\ UNCHANGED <<phase, busy, round, accums, active, result, fixed, calls>>

FoldStep(l) ==
  /\ ~first[l]
  /\ \E i \in Items :
       /\ Folding(l, i)
       /\ resultOk[i]
       /\ \E out \in Outputs(localAccum[l], resultData[i]) :
            /\ Reduced(l, localAccum[l], resultData[i], out)
            /\ localAccum' = [localAccum EXCEPT ![l] = out]
  /\ UNCHANGED <<phase, first, busy, round, accums, active, result, fixed>>

\* The three assignments that end a locale's task.  Each locale writes its own
\* slot and nobody reads it before the coforall is over.
Publish(l) ==
  /\ phase = "fold"
  /\ l \in busy
  /\ todo[l] = {}
  /\ localeResult' = [localeResult EXCEPT ![l] = localAccum[l]]
  /\ localeHasResult' = [localeHasResult EXCEPT ![l] = ~first[l]]
  /\ busy' = busy \ {l}
  /\ UNCHANGED <<phase, locals, round, active, result, fixed, calls>>

EndFold ==
  /\ phase = "fold"
  /\ busy = {}
  /\ phase' = "between"
  /\ UNCHANGED <<locals, busy, round, accums, active, result, fixed, calls>>

-----------------------------------------------------------------------------
(* The rounds.                                                             *)

Half == active \div 2

\* Mutant: neighbours are paired, as in a tree of strides.
Partner_Neighbour(l) == l + 1

Partner(l) == l + Half

StartRound ==
  /\ phase = "between"
  /\ active > 1
  /\ phase' = "round"
  /\ busy' = Indices(Half)
  /\ UNCHANGED <<locals, round, accums, active, result, fixed, calls>>

InRound(l) == phase = "round" /\ l \in busy /\ l \notin reduced

NoPartner(l) ==
  /\ InRound(l)
  /\ ~localeHasResult[Partner(l)]
  /\ busy' = busy \ {l}
  /\ UNCHANGED <<phase, locals, round, accums, active, result, fixed, calls>>

\* Mutant: an absent accumulator is combined as if it were an empty one.
Adopt_Reduced(l) ==
  /\ InRound(l)
  /\ localeHasResult[Partner(l)]
  /\ ~localeHasResult[l]
  /\ \E out \in Outputs(NoOutput, localeResult[Partner(l)]) :
       /\ Reduced(l, NoOutput, localeResult[Partner(l)], out)
       /\ localeResult' = [localeResult EXCEPT ![l] = out]
  /\ localeHasResult' = [localeHasResult EXCEPT ![l] = TRUE]
  /\ busy' = busy \ {l}
  /\ UNCHANGED <<phase, locals, round, active, result, fixed>>

Adopt(l) ==
  /\ InRound(l)
  /\ localeHasResult[Partner(l)]
  /\ ~localeHasResult[l]
  /\ localeResult' = [localeResult EXCEPT ![l] = localeResult[Partner(l)]]
  /\ localeHasResult' = [localeHasResult EXCEPT ![l] = TRUE]
  /\ busy' = busy \ {l}
  /\ UNCHANGED <<phase, locals, round, active, result, fixed, calls>>

\* Mutant: the partner's buffer is passed for both arguments.
Reduce_PartnerTwice(l) ==
  /\ InRound(l)
  /\ localeHasResult[Partner(l)]
  /\ localeHasResult[l]
  /\ tmpBuf' = [tmpBuf EXCEPT ![l] = localeResult[Partner(l)]]
  /\ reduced' = reduced \cup {l}
  /\ UNCHANGED <<phase, locals, busy, accums, active, result, fixed, calls>>

\* Mutant: the two arguments change places.
Reduce_Swapped(l) ==
  /\ InRound(l)
  /\ localeHasResult[Partner(l)]
  /\ localeHasResult[l]
  /\ LET mine == localeResult[l]
         other == localeResult[Partner(l)]
     IN  \E out \in Outputs(other, mine) :
           /\ Reduced(l, other, mine, out)
           /\ tmpBuf' = [tmpBuf EXCEPT ![l] = out]
  /\ reduced' = reduced \cup {l}
  /\ UNCHANGED <<phase, locals, busy, accums, active, result, fixed>>

\* c_reduce of the two slots into tmpBuf.
Reduce(l) ==
  /\ InRound(l)
  /\ localeHasResult[Partner(l)]
  /\ localeHasResult[l]
  /\ LET mine == localeResult[l]
         other == localeResult[Partner(l)]
     IN  \E out \in Outputs(mine, other) :
           /\ Reduced(l, mine, other, out)
           /\ tmpBuf' = [tmpBuf EXCEPT ![l] = out]
  /\ reduced' = reduced \cup {l}
  /\ UNCHANGED <<phase, locals, busy, accums, active, result, fixed>>

\* Mutant: the copy back to the accumulator is left out.
WriteBack_Lost(l) ==
  /\ phase = "round"
  /\ l \in reduced
  /\ reduced' = reduced \ {l}
  /\ busy' = busy \ {l}
  /\ UNCHANGED <<phase, locals, tmpBuf, accums, active, result, fixed, calls>>

\* Mutant: the task can go on to write its value back once more.
WriteBack_Again(l) ==
  /\ phase = "round"
  /\ l \in reduced
  /\ localeResult' = [localeResult EXCEPT ![l] = tmpBuf[l]]
  /\ busy' = busy \ {l}
  /\ UNCHANGED <<phase, locals, round, localeHasResult, active, result,
                 fixed, calls>>

WriteBack(l) ==
  /\ phase = "round"
  /\ l \in reduced
  /\ localeResult' = [localeResult EXCEPT ![l] = tmpBuf[l]]
  /\ reduced' = reduced \ {l}
  /\ busy' = busy \ {l}
  /\ UNCHANGED <<phase, locals, tmpBuf, localeHasResult, active, result,
                 fixed, calls>>

EndRound ==
  /\ phase = "round"
  /\ busy = {}
  /\ active' = (active + 1) \div 2
  /\ phase' = "between"
  /\ UNCHANGED <<locals, busy, round, accums, result, fixed, calls>>

StoreSlot0 ==
  /\ phase = "between"
  /\ active <= 1
  /\ resultData' = [resultData EXCEPT ![0] = localeResult[0]]
  /\ resultOk' = [resultOk EXCEPT ![0] = localeHasResult[0]]
  /\ phase' = "stored"
  /\ UNCHANGED <<locals, busy, round, accums, active, fixed, calls>>

Finished ==
  /\ phase = "stored"
  /\ UNCHANGED vars

TaskStep(l) ==
  \/ SkipFailed(l) \/ Seed(l) \/ FoldStep(l) \/ Publish(l)
  \/ NoPartner(l) \/ Adopt(l) \/ Reduce(l) \/ WriteBack(l)

MainStep == EndFold \/ StartRound \/ EndRound \/ StoreSlot0

Next ==
  \/ \E l \in Locales : TaskStep(l)
  \/ MainStep
  \/ Finished

SafeSpec == Init /\ [][Next]_vars

\* Chapel runs every task of a coforall, and c_reduce returns.
Fairness == WF_vars(MainStep) /\ \A l \in Locales : WF_vars(TaskStep(l))

Spec == SafeSpec /\ Fairness

-----------------------------------------------------------------------------
(* Properties.                                                             *)

Values == Seq(Items \cup {Junk})

\* Types of the phase's state.
TypeOK ==
  /\ followed \in RemotePointers
  /\ phase \in {"fold", "between", "round", "stored"}
  /\ todo \in [Locales -> SUBSET Items]
  /\ localAccum \in [Locales -> Values]
  /\ first \in [Locales -> BOOLEAN]
  /\ busy \subseteq Locales
  /\ reduced \subseteq busy
  /\ tmpBuf \in [Locales -> Values]
  /\ localeResult \in [Locales -> Values]
  /\ localeHasResult \in [Locales -> BOOLEAN]
  /\ active \in 1 .. NumLocales
  /\ resultData \in [Items -> Values]
  /\ resultOk \in [Items -> BOOLEAN]
  /\ succeeded \subseteq Items
  /\ reduceFailed \in BOOLEAN
  /\ garbled \in BOOLEAN

\* A value has every item of S exactly once, in whatever order.
HoldsOnce(value, S) == ToSet(value) = S /\ Len(value) = Cardinality(S)

\* The successes of locale l's slice, and of the locales congruent to a
\* modulo n.
Successes(l) == succeeded \cap LocaleRange(l, NumLocales, NItems)
Residue(a, n) == UNION {Successes(l) : l \in {k \in Locales : k % n = a}}

\* No locale but 0 ever has two results to combine.
OnlyLocale0Combines ==
  \A n \in {d \in 2 .. NumLocales : NumLocales % d = 0} :
    \A a \in 1 .. n - 1 : Cardinality(Residue(a, n)) <= 1

\* "Gather functions preserve all results": unless c_reduce failed, or was
\* called where its arguments cannot be read, what ends up in slot 0 has
\* every successful result combined into it exactly once.
PreservesResults ==
  phase = "stored" /\ ~reduceFailed /\ (followed \/ OnlyLocale0Combines) =>
    HoldsOnce(resultData[0], succeeded)

\* Between two rounds accumulator a holds what the locales congruent to a
\* modulo the number of active ones succeeded with, each result once.  It is
\* why halving a power of two loses nothing.
SlotsHoldResidues ==
  phase = "between" /\ ~reduceFailed /\ followed =>
    \A a \in Indices(active) : HoldsOnce(localeResult[a], Residue(a, active))

\* The slots a task of a round has reduced are still the ones it read when it
\* writes the value back: no other task of the round writes either of them.
ReducesCurrentSlots ==
  \A l \in reduced :
    tmpBuf[l] \in Outputs(localeResult[l], localeResult[Partner(l)])

\* Nothing but successful results is ever combined, whatever c_reduce returns
\* and however many locales there are.
OnlySuccessfulInputs ==
  \A l \in Locales :
    ToSet(localAccum[l]) \cup ToSet(localeResult[l]) \subseteq succeeded \cup {Junk}

\* The locales in the order that reverses the bits of their ids: with n
\* accumulators left, slot a has what slots a and then a + n of the 2n had.
LocaleBefore(k, l) ==
  \E n \in 1 .. NumLocales :
    NumLocales % (2 * n) = 0 /\ k % n = l % n /\ k % (2 * n) < l % (2 * n)

\* The items in the order of their locales, each locale's by their indices.
ItemBefore(i, j) ==
  \E k, l \in Locales :
    /\ i \in LocaleRange(k, NumLocales, NItems)
    /\ j \in LocaleRange(l, NumLocales, NItems)
    /\ \/ k = l /\ i < j
       \/ LocaleBefore(k, l)

InTreeOrder(value) ==
  \A p, q \in DOMAIN value : p < q => ItemBefore(value[p], value[q])

\* For a power of two there is one order only in which results can be combined
\* into slot 0, whatever the interleaving and whichever locales have none: that
\* of the bit-reversed ids of the locales.
CombinedInTreeOrder ==
  phase = "stored" /\ ~reduceFailed /\ (followed \/ OnlyLocale0Combines) =>
    HoldsOnce(resultData[0], succeeded) /\ InTreeOrder(resultData[0])

\* "gather/store must never report success on failed inputs": a reduction with
\* a failed call of c_reduce is not reported as a valid result.
FailedReduceInvalidates == phase = "stored" /\ reduceFailed => ~resultOk[0]

-----------------------------------------------------------------------------
(* The phase implements Reduction: the parts are the results still to be   *)
(* folded and the accumulators that no round has merged into another.      *)

\* Accumulator a was merged in the round that runs.
Merged(a) ==
  /\ phase = "round"
  /\ a \in Half .. 2 * Half - 1
  /\ a - Half \notin busy

Unfolded == UNION {{i \in todo[l] : resultOk[i]} : l \in Locales}

Parts ==
  CASE phase = "fold" ->
         {{i} : i \in Unfolded} \cup {ToSet(localAccum[l]) : l \in Locales}
    [] phase = "stored" -> {ToSet(resultData[0])}
    [] OTHER -> {ToSet(localeResult[a]) : a \in {b \in Indices(active) : ~Merged(b)}}

Verdict ==
  CASE phase # "stored" -> "open"
    [] phase = "stored" /\ resultOk[0] -> "valid"
    [] OTHER -> "none"

Abstract == INSTANCE Reduction WITH
  parts <- {part \ {Junk} : part \in Parts} \ {{}},
  lossy <- reduceFailed \/ garbled,
  verdict <- Verdict

\* Each step combines two parts or none, only a c_reduce that fails or cannot
\* read its arguments loses any, and the phase ends with one part.
ImplementsReduction == Abstract!Spec
=============================================================================
