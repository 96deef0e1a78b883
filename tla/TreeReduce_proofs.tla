-------------------------- MODULE TreeReduce_proofs --------------------------
(***************************************************************************)
(* The tree-reduce gather needs no lock, for every number of locales (not  *)
(* only powers of two) and items, whatever c_reduce returns and whether or *)
(* not it can read its arguments.  For every number of locales that is a   *)
(* power of two it implements Reduction, and where c_reduce can be relied  *)
(* on it preserves all results and combines them in one order.             *)
(***************************************************************************)
EXTENDS TreeReduce, Partitioning_proofs, FiniteSetTheorems

\* Nothing but successful results, or junk, is in a buffer.
Clean(value) == ToSet(value) \subseteq succeeded \cup {Junk}

\* A round's tasks are the lower half; outside of a round nobody is between
\* c_reduce and the copy back; the slots hold successes until the last store.
RoundShape ==
  /\ phase = "round" => busy \subseteq Indices(Half)
  /\ phase # "round" => reduced = {}
  /\ phase # "stored" => \A i \in Items : resultOk[i] => Clean(resultData[i])

IInv ==
  /\ TypeOK
  /\ RoundShape
  /\ OnlySuccessfulInputs
  /\ ReducesCurrentSlots

-----------------------------------------------------------------------------
(* Buffers and accumulators.                                               *)

(* What c_reduce leaves is a buffer.                                       *)
LEMMA OutputsType ==
  ASSUME NEW a \in Values, NEW b \in Values
  PROVE  Outputs(a, b) \subseteq Values
BY DEF Outputs, Values, NoOutput

(* A concatenation has the elements of both sequences.                     *)
LEMMA ToSetConcat ==
  ASSUME NEW a \in Values, NEW b \in Values
  PROVE  ToSet(a \o b) = ToSet(a) \cup ToSet(b)
<1> DEFINE c == a \o b
<1>1. /\ c \in Values /\ Len(c) = Len(a) + Len(b)
      /\ Len(a) \in Nat /\ Len(b) \in Nat
      /\ DOMAIN a = 1 .. Len(a) /\ DOMAIN b = 1 .. Len(b) /\ DOMAIN c = 1 .. Len(c)
  BY DEF Values
<1>2. \A k \in 1 .. Len(a) + Len(b) :
        c[k] = IF k <= Len(a) THEN a[k] ELSE b[k - Len(a)]
  BY DEF Values
<1>3. \A k \in 1 .. Len(a) : c[k] = a[k] /\ k \in DOMAIN c
  BY <1>1, <1>2
<1>4. \A k \in 1 .. Len(b) : c[k + Len(a)] = b[k] /\ k + Len(a) \in DOMAIN c
  BY <1>1, <1>2
<1>5. \A k \in DOMAIN c : c[k] \in ToSet(a) \cup ToSet(b)
  <2> TAKE k \in DOMAIN c
  <2>1. CASE k <= Len(a)
    BY <1>1, <1>3, <2>1 DEF ToSet
  <2>2. CASE ~(k <= Len(a))
    <3>1. k - Len(a) \in 1 .. Len(b) /\ c[k] = b[k - Len(a)]
      BY <1>1, <1>2, <2>2
    <3> QED
      BY <1>1, <3>1 DEF ToSet
  <2> QED
    BY <2>1, <2>2
<1> HIDE DEF c
<1>6. ToSet(c) = ToSet(a) \cup ToSet(b)
  <2>1. ToSet(a) \subseteq ToSet(c)
    BY <1>1, <1>3 DEF ToSet
  <2>2. ToSet(b) \subseteq ToSet(c)
    BY <1>1, <1>4 DEF ToSet
  <2>3. ToSet(c) \subseteq ToSet(a) \cup ToSet(b)
    BY <1>5 DEF ToSet
  <2> QED
    BY <2>1, <2>2, <2>3
<1> QED
  BY <1>6 DEF c

(* c_reduce brings nothing but successes and junk into a buffer.           *)
LEMMA OutputsClean ==
  ASSUME NEW a \in Values, NEW b \in Values, Clean(a), Clean(b)
  PROVE  \A out \in Outputs(a, b) : Clean(out)
<1>1. ToSet(NoOutput) = {} /\ ToSet(<<Junk>>) = {Junk}
  BY DEF ToSet, NoOutput
<1> QED
  BY <1>1, ToSetConcat DEF Clean, Outputs

LEMMA Sets ==
  /\ Items \subseteq Nat /\ Locales \subseteq Nat
  /\ 0 \in Items /\ 0 \in Locales
  /\ \A l \in Locales : LocaleRange(l, NumLocales, NItems) \subseteq Items
<1>1. \A l \in Locales : LocaleRange(l, NumLocales, NItems) \subseteq Items
  BY LocaleRangesPartition, TreeLocalesAssumption, TreeItemsAssumption
     DEF IsPartition, Items, Locales
<1> QED
  BY <1>1, TreeLocalesAssumption, TreeItemsAssumption DEF Items, Locales, Indices

(* Partners are accumulators of the upper half, which no task of the round *)
(* writes.                                                                 *)
LEMMA PartnersApart ==
  ASSUME active \in 1 .. NumLocales
  PROVE  /\ Indices(Half) \subseteq Locales
         /\ \A l \in Indices(Half) :
              Partner(l) \in Locales /\ Partner(l) \notin Indices(Half)
BY TreeLocalesAssumption DEF Half, Partner, Indices, Locales

-----------------------------------------------------------------------------
(* The invariant.                                                          *)

LEMMA InitIInv == Init => IInv
<1> SUFFICES ASSUME Init PROVE IInv
  OBVIOUS
<1>1. ToSet(NoOutput) = {} /\ NoOutput \in Values
  BY DEF ToSet, NoOutput, Values
<1>2. \A i \in Items : <<i>> \in Values /\ ToSet(<<i>>) = {i}
  BY DEF ToSet, Values
<1>3. \A i \in Items : /\ resultData[i] = IF resultOk[i] THEN <<i>> ELSE NoOutput
                       /\ resultOk[i] <=> i \in succeeded
  BY DEF Init
<1>4. TypeOK
  <2>1. resultData \in [Items -> Values]
    BY <1>1, <1>2 DEF Init
  <2>2. active \in 1 .. NumLocales
    BY TreeLocalesAssumption DEF Init
  <2>3. todo \in [Locales -> SUBSET Items]
    BY Sets DEF Init
  <2> QED
    BY <1>1, <2>1, <2>2, <2>3 DEF Init, TypeOK
<1>5. RoundShape
  BY <1>2, <1>3 DEF Init, RoundShape, Clean
<1>6. OnlySuccessfulInputs /\ ReducesCurrentSlots
  BY <1>1 DEF Init, OnlySuccessfulInputs, ReducesCurrentSlots
<1> QED
  BY <1>4, <1>5, <1>6 DEF IInv

LEMMA FoldKeeps ==
  ASSUME IInv, NEW l \in Locales, SkipFailed(l) \/ Seed(l) \/ FoldStep(l)
  PROVE  IInv'
<1> USE DEF IInv, TypeOK, Clean
<1>1. /\ phase = "fold" /\ reduced = {} /\ todo' \in [Locales -> SUBSET Items]
      /\ UNCHANGED <<fixed, phase, busy, round, accums, active, result>>
  BY DEF SkipFailed, Seed, FoldStep, Folding, RoundShape, vars
<1>2. /\ localAccum' \in [Locales -> Values]
      /\ \A k \in Locales : Clean(localAccum'[k])
      /\ first' \in [Locales -> BOOLEAN]
      /\ reduceFailed' \in BOOLEAN /\ garbled' \in BOOLEAN
  <2>1. CASE SkipFailed(l)
    BY <2>1 DEF SkipFailed, OnlySuccessfulInputs, calls
  <2>2. CASE Seed(l)
    <3>1. PICK i \in Items : resultOk[i] /\ localAccum' = [localAccum EXCEPT ![l] = resultData[i]]
      BY <2>2 DEF Seed
    <3>2. Clean(resultData[i])
      BY <1>1, <3>1 DEF RoundShape
    <3> QED
      BY <2>2, <3>1, <3>2 DEF Seed, OnlySuccessfulInputs, calls
  <2>3. CASE FoldStep(l)
    <3>1. PICK i \in Items : /\ resultOk[i]
                             /\ \E out \in Outputs(localAccum[l], resultData[i]) :
                                  /\ Reduced(l, localAccum[l], resultData[i], out)
                                  /\ localAccum' = [localAccum EXCEPT ![l] = out]
      BY <2>3 DEF FoldStep
    <3>2. PICK out \in Outputs(localAccum[l], resultData[i]) :
            /\ Reduced(l, localAccum[l], resultData[i], out)
            /\ localAccum' = [localAccum EXCEPT ![l] = out]
      BY <3>1
    <3>3. Clean(resultData[i]) /\ Clean(localAccum[l])
      BY <1>1, <3>1 DEF RoundShape, OnlySuccessfulInputs
    <3>4. Clean(out) /\ out \in Values
      BY <3>3, OutputsClean, OutputsType
    <3>5. first' = first /\ reduceFailed' \in BOOLEAN /\ garbled' \in BOOLEAN
      BY <2>3, <3>2 DEF FoldStep, Reduced, calls
    <3> QED
      BY <3>2, <3>4, <3>5 DEF OnlySuccessfulInputs
  <2> QED
    BY <2>1, <2>2, <2>3
<1>3. TypeOK'
  BY <1>1, <1>2 DEF fixed, round, accums, result
<1>4. RoundShape'
  BY <1>1 DEF RoundShape, fixed, round, result
<1>5. OnlySuccessfulInputs' /\ ReducesCurrentSlots'
  BY <1>1, <1>2 DEF OnlySuccessfulInputs, ReducesCurrentSlots, fixed, round, accums
<1> QED
  BY <1>3, <1>4, <1>5

LEMMA PublishKeeps ==
  ASSUME IInv, NEW l \in Locales, Publish(l)
  PROVE  IInv'
<1> USE DEF IInv, TypeOK, Publish
<1>1. /\ phase = "fold" /\ phase' = "fold" /\ reduced = {} /\ reduced' = {}
      /\ succeeded' = succeeded
  BY DEF RoundShape, round, fixed
<1>2. TypeOK'
  BY <1>1 DEF fixed, locals, round, result, calls
<1>3. RoundShape'
  BY <1>1 DEF RoundShape, Clean, result
<1>4. OnlySuccessfulInputs' /\ ReducesCurrentSlots'
  BY <1>1 DEF OnlySuccessfulInputs, ReducesCurrentSlots, locals
<1> QED
  BY <1>2, <1>3, <1>4

LEMMA NoPartnerKeeps ==
  ASSUME IInv, NEW l \in Locales, NoPartner(l)
  PROVE  IInv'
<1> USE DEF IInv, TypeOK, NoPartner, InRound
<1>1. TypeOK'
  BY DEF fixed, locals, round, accums, result, calls
<1>2. RoundShape'
  BY DEF RoundShape, Clean, Half, result, round, fixed
<1>3. OnlySuccessfulInputs' /\ ReducesCurrentSlots'
  BY DEF OnlySuccessfulInputs, ReducesCurrentSlots, Partner, Half, Outputs,
         fixed, locals, round, accums
<1> QED
  BY <1>1, <1>2, <1>3

\* A task of the round that is back from c_reduce stays as it is while
\* another one writes its own slot.
OthersCurrent(l) ==
  \A m \in reduced \ {l} :
    /\ m # l /\ Partner(m) # l
    /\ tmpBuf[m] \in Outputs(localeResult[m], localeResult[Partner(m)])

LEMMA OneWriterPerSlot ==
  ASSUME IInv, phase = "round", NEW l \in busy
  PROVE  OthersCurrent(l) /\ l \in Indices(Half) /\ Partner(l) \in Locales
         /\ \A m \in reduced : m \in Locales /\ Partner(m) \in Locales
BY PartnersApart DEF IInv, TypeOK, RoundShape, ReducesCurrentSlots, OthersCurrent

LEMMA AdoptKeeps ==
  ASSUME IInv, NEW l \in Locales, Adopt(l)
  PROVE  IInv'
<1> USE DEF IInv, TypeOK, Adopt, InRound
<1>1. OthersCurrent(l) /\ Partner(l) \in Locales
      /\ \A m \in reduced : m \in Locales /\ Partner(m) \in Locales
  BY OneWriterPerSlot
<1>2. TypeOK'
  BY <1>1 DEF fixed, locals, round, result, calls
<1>3. RoundShape'
  BY DEF RoundShape, Clean, Half, result, round, fixed
<1>4. OnlySuccessfulInputs'
  BY <1>1 DEF OnlySuccessfulInputs, fixed, locals
<1>5. ReducesCurrentSlots'
  BY <1>1 DEF OthersCurrent, ReducesCurrentSlots, Partner, Half, Outputs, round
<1> QED
  BY <1>2, <1>3, <1>4, <1>5

LEMMA ReduceKeeps ==
  ASSUME IInv, NEW l \in Locales, Reduce(l)
  PROVE  IInv'
<1> USE DEF IInv, TypeOK
<1>1. PICK out \in Outputs(localeResult[l], localeResult[Partner(l)]) :
        /\ Reduced(l, localeResult[l], localeResult[Partner(l)], out)
        /\ tmpBuf' = [tmpBuf EXCEPT ![l] = out]
  BY DEF Reduce
<1>2. /\ phase = "round" /\ l \in busy /\ reduced' = reduced \cup {l}
      /\ UNCHANGED <<phase, locals, busy, accums, active, result, fixed>>
  BY DEF Reduce, InRound
<1>3. Partner(l) \in Locales
  BY <1>2, OneWriterPerSlot
<1>4. out \in Values
  BY <1>1, <1>3, OutputsType
<1>5. reduceFailed' \in BOOLEAN /\ garbled' \in BOOLEAN
  BY <1>1 DEF Reduced, calls
<1>6. TypeOK'
  BY <1>1, <1>2, <1>4, <1>5 DEF fixed, locals, accums, result
<1>7. RoundShape'
  BY <1>2 DEF RoundShape, Clean, Half, result, fixed
<1>8. OnlySuccessfulInputs'
  BY <1>2 DEF OnlySuccessfulInputs, fixed, locals, accums
<1>9. ReducesCurrentSlots'
  BY <1>1, <1>2 DEF ReducesCurrentSlots, Partner, Half, Outputs, accums
<1> QED
  BY <1>6, <1>7, <1>8, <1>9

LEMMA WriteBackKeeps ==
  ASSUME IInv, NEW l \in Locales, WriteBack(l)
  PROVE  IInv'
<1> USE DEF IInv, TypeOK, WriteBack
<1>1. OthersCurrent(l) /\ Partner(l) \in Locales
      /\ \A m \in reduced : m \in Locales /\ Partner(m) \in Locales
  BY OneWriterPerSlot
<1>2. tmpBuf[l] \in Outputs(localeResult[l], localeResult[Partner(l)])
  BY DEF ReducesCurrentSlots
<1>3. Clean(tmpBuf[l])
  BY <1>1, <1>2, OutputsClean DEF OnlySuccessfulInputs, Clean
<1>4. TypeOK'
  BY DEF fixed, locals, result, calls
<1>5. RoundShape'
  BY DEF RoundShape, Clean, Half, result, fixed
<1>6. OnlySuccessfulInputs'
  BY <1>3 DEF OnlySuccessfulInputs, Clean, fixed, locals
<1>7. ReducesCurrentSlots'
  BY <1>1 DEF OthersCurrent, ReducesCurrentSlots, Partner, Half, Outputs
<1> QED
  BY <1>4, <1>5, <1>6, <1>7

LEMMA MainKeeps ==
  ASSUME IInv, MainStep
  PROVE  IInv'
<1> USE DEF IInv, TypeOK
<1>1. CASE EndFold
  <2>1. TypeOK'
    BY <1>1 DEF EndFold, fixed, locals, round, accums, result, calls
  <2>2. RoundShape'
    BY <1>1 DEF EndFold, RoundShape, Clean, fixed, round, result
  <2>3. OnlySuccessfulInputs' /\ ReducesCurrentSlots'
    BY <1>1 DEF EndFold, RoundShape, OnlySuccessfulInputs, ReducesCurrentSlots,
                fixed, locals, round, accums
  <2> QED
    BY <2>1, <2>2, <2>3
<1>2. CASE StartRound
  <2>1. reduced' = {}
    BY <1>2 DEF StartRound, RoundShape, round
  <2>2. busy' \subseteq Locales
    BY <1>2, PartnersApart DEF StartRound
  <2>3. TypeOK'
    BY <1>2, <2>1, <2>2 DEF StartRound, fixed, locals, round, accums, result, calls
  <2>4. RoundShape'
    BY <1>2, <2>1 DEF StartRound, RoundShape, Clean, Half, fixed, result
  <2>5. OnlySuccessfulInputs' /\ ReducesCurrentSlots'
    BY <1>2, <2>1 DEF StartRound, OnlySuccessfulInputs, ReducesCurrentSlots,
                      fixed, locals, accums
  <2> QED
    BY <2>3, <2>4, <2>5
<1>3. CASE EndRound
  <2>1. reduced = {} /\ reduced' = {}
    BY <1>3 DEF EndRound, round
  <2>2. (active + 1) \div 2 \in 1 .. NumLocales
    BY TreeLocalesAssumption
  <2>3. TypeOK'
    BY <1>3, <2>1, <2>2 DEF EndRound, fixed, locals, round, accums, result, calls
  <2>4. RoundShape'
    BY <1>3, <2>1 DEF EndRound, RoundShape, Clean, fixed, result
  <2>5. OnlySuccessfulInputs' /\ ReducesCurrentSlots'
    BY <1>3, <2>1 DEF EndRound, OnlySuccessfulInputs, ReducesCurrentSlots,
                      fixed, locals, accums
  <2> QED
    BY <2>3, <2>4, <2>5
<1>4. CASE StoreSlot0
  <2>1. TypeOK'
    BY <1>4, Sets DEF StoreSlot0, fixed, locals, round, accums, calls
  <2>2. RoundShape'
    BY <1>4 DEF StoreSlot0, RoundShape, round
  <2>3. OnlySuccessfulInputs' /\ ReducesCurrentSlots'
    BY <1>4 DEF StoreSlot0, RoundShape, OnlySuccessfulInputs, ReducesCurrentSlots,
                fixed, locals, round, accums
  <2> QED
    BY <2>1, <2>2, <2>3
<1> QED
  BY <1>1, <1>2, <1>3, <1>4 DEF MainStep

LEMMA StepKeeps == IInv /\ [Next]_vars => IInv'
<1> SUFFICES ASSUME IInv, [Next]_vars PROVE IInv'
  OBVIOUS
<1>1. CASE UNCHANGED vars
  BY <1>1 DEF IInv, TypeOK, RoundShape, OnlySuccessfulInputs, ReducesCurrentSlots,
              Clean, Partner, Half, Outputs, vars, fixed, locals, round, accums,
              result, calls
<1> QED
  BY <1>1, FoldKeeps, PublishKeeps, NoPartnerKeeps, AdoptKeeps, ReduceKeeps,
     WriteBackKeeps, MainKeeps DEF Next, TaskStep, Finished

-----------------------------------------------------------------------------
(* For every number of locales.                                            *)

(* Every reachable state of the phase satisfies the inductive invariant.   *)
THEOREM Invariance == Spec => []IInv
BY InitIInv, StepKeeps, PTL DEF Spec, SafeSpec

(* Every reachable state of the phase is well typed.                       *)
THEOREM TypeCorrect == Spec => []TypeOK
<1>1. IInv => TypeOK
  BY DEF IInv
<1> QED
  BY <1>1, Invariance, PTL

(* The rounds need no lock: what a task reduced is what the slots still    *)
(* hold when it writes back, as no other task writes them in the round.    *)
THEOREM RoundsUndisturbed == Spec => []ReducesCurrentSlots
<1>1. IInv => ReducesCurrentSlots
  BY DEF IInv
<1> QED
  BY <1>1, Invariance, PTL

(* No failed item's bytes get into an accumulator, however many calls of   *)
(* c_reduce fail or read elsewhere.                                        *)
THEOREM FailuresStayOut == Spec => []OnlySuccessfulInputs
<1>1. IInv => OnlySuccessfulInputs
  BY DEF IInv
<1> QED
  BY <1>1, Invariance, PTL

-----------------------------------------------------------------------------
(* On a power of two, nothing is lost.                                     *)

\* n can be halved until it is 1.
PowerOfTwo(n) ==
  \E S \in SUBSET (Nat \ {0}) :
    /\ n \in S
    /\ \A k \in S : k = 1 \/ (k % 2 = 0 /\ k \div 2 \in S)

(* Half of a power of two is one, and what it divides its half divides.    *)
LEMMA Halving ==
  ASSUME NEW n \in Nat, PowerOfTwo(n), n > 1
  PROVE  /\ n \div 2 \in Nat \ {0} /\ n = 2 * (n \div 2)
         /\ PowerOfTwo(n \div 2)
         /\ (n + 1) \div 2 = n \div 2
         /\ \A m \in Nat : m % n = 0 => m % (n \div 2) = 0
<1>1. PICK S \in SUBSET (Nat \ {0}) :
        /\ n \in S
        /\ \A k \in S : k = 1 \/ (k % 2 = 0 /\ k \div 2 \in S)
  BY DEF PowerOfTwo
<1> DEFINE h == n \div 2
<1>2. n % 2 = 0 /\ h \in S
  BY <1>1
<1>3. h \in Nat \ {0} /\ n = 2 * h /\ (n + 1) \div 2 = h
  BY <1>1, <1>2
<1>4. PowerOfTwo(h)
  BY <1>1, <1>2 DEF PowerOfTwo
<1>5. ASSUME NEW m \in Nat, m % n = 0 PROVE m % h = 0
  <2> DEFINE q == m \div n
  <2>1. q \in Nat /\ m = n * q
    <3>1. n \in Nat \ {0}
      OBVIOUS
    <3>2. m \div n \in Nat /\ m = n * (m \div n) + (m % n)
      BY <3>1, DivMod
    <3> QED
      BY <1>5, <3>2
  <2> HIDE DEF q, h
  <2>2. m = (2 * q) * h + 0
    BY <1>3, <2>1
  <2>3. 2 * q \in Nat /\ 0 \in 0 .. h - 1
    BY <1>3, <2>1
  <2> QED
    BY <1>3, <2>2, <2>3, DivModUnique
<1> QED
  BY <1>3, <1>4, <1>5

(* A remainder modulo half is a remainder modulo the whole, or half more.  *)
LEMMA HalfResidues ==
  ASSUME NEW h \in Nat \ {0}, NEW k \in Nat, NEW a \in 0 .. h - 1
  PROVE  k % h = a <=> k % (2 * h) \in {a, a + h}
<1> DEFINE n == 2 * h
           q == k \div n
           r == k % n
<1>1. n \in Nat \ {0} /\ q \in Nat /\ r \in 0 .. n - 1 /\ k = n * q + r
  <2>1. n \in Nat \ {0}
    OBVIOUS
  <2> HIDE DEF n
  <2> QED
    BY <2>1, DivMod
<1> HIDE DEF q, r
<1>2. CASE r < h
  <2>1. k = (2 * q) * h + r /\ 2 * q \in Nat /\ r \in 0 .. h - 1
    BY <1>1, <1>2
  <2>2. k % h = r
    BY <2>1, DivModUnique
  <2> QED
    BY <1>2, <2>1, <2>2 DEF r
<1>3. CASE ~(r < h)
  <2>1. k = (2 * q + 1) * h + (r - h) /\ 2 * q + 1 \in Nat /\ r - h \in 0 .. h - 1
    BY <1>1, <1>3
  <2>2. k % h = r - h
    BY <2>1, DivModUnique
  <2> QED
    BY <1>1, <1>3, <2>1, <2>2 DEF r
<1> QED
  BY <1>1, <1>2, <1>3

LEMMA SmallResidue ==
  ASSUME NEW n \in Nat \ {0}, NEW k \in 0 .. n - 1
  PROVE  k % n = k
<1>1. k = 0 * n + k
  OBVIOUS
<1> QED
  BY <1>1, DivModUnique

-----------------------------------------------------------------------------
(* Values and the results combined in them.                                *)

LEMMA FiniteItems ==
  ASSUME NEW S, S \subseteq Items
  PROVE  IsFiniteSet(S) /\ Cardinality(S) \in Nat
<1>1. IsFiniteSet(Items)
  BY FS_Interval, TreeItemsAssumption DEF Items, Indices
<1> QED
  BY <1>1, FS_Subset, FS_CardinalityType

LEMMA OnceEmpty ==
  ASSUME NEW v \in Values, NEW S, S \subseteq Items, HoldsOnce(v, S)
  PROVE  v = NoOutput <=> S = {}
<1>1. v = NoOutput <=> Len(v) = 0
  BY DEF Values, NoOutput
<1>2. Cardinality(S) = 0 <=> S = {}
  BY FiniteItems, FS_EmptySet
<1> QED
  BY <1>1, <1>2 DEF HoldsOnce

LEMMA EmptyOnce == HoldsOnce(NoOutput, {}) /\ NoOutput \in Values
BY FS_EmptySet DEF HoldsOnce, NoOutput, ToSet, Values

LEMMA OneOnce ==
  ASSUME NEW i \in Items
  PROVE  HoldsOnce(<<i>>, {i}) /\ <<i>> \in Values
BY FS_Singleton DEF HoldsOnce, ToSet, Values

LEMMA ConcatOnce ==
  ASSUME NEW a \in Values, NEW b \in Values, NEW S, NEW T,
         S \subseteq Items, T \subseteq Items, S \cap T = {},
         HoldsOnce(a, S), HoldsOnce(b, T)
  PROVE  HoldsOnce(a \o b, S \cup T) /\ a \o b \in Values
<1>1. ToSet(a \o b) = S \cup T
  BY ToSetConcat DEF HoldsOnce
<1>2. Len(a \o b) = Len(a) + Len(b) /\ a \o b \in Values
  BY DEF Values
<1>3. Cardinality(S \cup T) = Cardinality(S) + Cardinality(T)
  <2>1. Cardinality(S \cup T) =
          Cardinality(S) + Cardinality(T) - Cardinality(S \cap T)
    BY FiniteItems, FS_Union
  <2> QED
    BY <2>1, FiniteItems, FS_EmptySet
<1> QED
  BY <1>1, <1>2, <1>3 DEF HoldsOnce

LEMMA AtMostOne ==
  ASSUME NEW S, S \subseteq Items, Cardinality(S) <= 1, NEW x \in S, NEW y \in S
  PROVE  x = y
<1>1. IsFiniteSet({x}) /\ Cardinality({x}) = 1 /\ Cardinality({x}) <= Cardinality(S)
  BY FiniteItems, FS_Singleton, FS_Subset
<1>2. Cardinality(S) = 1
  BY <1>1, FiniteItems
<1>3. S = {x}
  BY <1>1, <1>2, FiniteItems, FS_Subset
<1> QED
  BY <1>3

-----------------------------------------------------------------------------
(* The locales congruent to a modulo n.                                    *)

(* The locales' slices share no item and together have all of them.        *)
LEMMA SlicesApart ==
  /\ \A l \in Locales : Successes(l) \subseteq succeeded
  /\ \A k, l \in Locales : k # l => Successes(k) \cap Successes(l) = {}
  /\ succeeded \subseteq Items => \A i \in succeeded : \E l \in Locales : i \in Successes(l)
<1>1. /\ \A i \in Items : \E l \in Locales : i \in LocaleRange(l, NumLocales, NItems)
      /\ \A k, l \in Locales : k # l =>
           LocaleRange(k, NumLocales, NItems) \cap LocaleRange(l, NumLocales, NItems) = {}
  BY LocaleRangesPartition, TreeLocalesAssumption, TreeItemsAssumption
     DEF IsPartition, Items, Locales
<1> QED
  BY <1>1 DEF Successes

LEMMA ResidueMembers ==
  ASSUME NEW n, NEW a
  PROVE  /\ Residue(a, n) \subseteq succeeded
         /\ \A i : i \in Residue(a, n) <=>
                    \E k \in Locales : k % n = a /\ i \in Successes(k)
BY SlicesApart DEF Residue

LEMMA ResidueHalves ==
  ASSUME NEW h \in Nat \ {0}, NEW a \in 0 .. h - 1
  PROVE  /\ Residue(a, h) = Residue(a, 2 * h) \cup Residue(a + h, 2 * h)
         /\ Residue(a, 2 * h) \cap Residue(a + h, 2 * h) = {}
<1>1. \A k \in Locales : k % h = a <=> k % (2 * h) = a \/ k % (2 * h) = a + h
  BY HalfResidues, Sets
<1>2. a # a + h
  OBVIOUS
<1>3. Residue(a, h) = Residue(a, 2 * h) \cup Residue(a + h, 2 * h)
  BY <1>1, ResidueMembers
<1>4. ASSUME NEW i, i \in Residue(a, 2 * h), i \in Residue(a + h, 2 * h)
      PROVE  FALSE
  <2>1. PICK k \in Locales : k % (2 * h) = a /\ i \in Successes(k)
    BY <1>4, ResidueMembers
  <2>2. PICK l \in Locales : l % (2 * h) = a + h /\ i \in Successes(l)
    BY <1>4, ResidueMembers
  <2> QED
    BY <1>2, <2>1, <2>2, SlicesApart
<1> QED
  BY <1>3, <1>4

LEMMA ResidueOfAll ==
  ASSUME NEW a \in Locales
  PROVE  Residue(a, NumLocales) = Successes(a)
<1>1. \A k \in Locales : k % NumLocales = k
  BY SmallResidue, TreeLocalesAssumption DEF Locales, Indices
<1> QED
  BY <1>1, ResidueMembers

LEMMA ResidueOfOne ==
  ASSUME succeeded \subseteq Items
  PROVE  Residue(0, 1) = succeeded
<1>1. \A k \in Locales : k % 1 = 0
  BY Sets
<1> QED
  BY <1>1, ResidueMembers, SlicesApart

-----------------------------------------------------------------------------
(* What each buffer holds while c_reduce can be relied on.                 *)

Reliable == ~reduceFailed /\ (followed \/ OnlyLocale0Combines)

\* The number of accumulators is a power of two that divides the locales,
\* and the slots are as the distribution phase left them.
Shape ==
  /\ PowerOfTwo(active) /\ NumLocales % active = 0
  /\ phase = "fold" => active = NumLocales
  /\ phase = "round" => active > 1
  /\ phase # "stored" =>
       \A i \in Items : /\ resultOk[i] <=> i \in succeeded
                        /\ resultOk[i] => resultData[i] = <<i>>
  /\ \A l \in Locales : todo[l] \subseteq LocaleRange(l, NumLocales, NItems)

\* A fold has what it visited of its slice.
FoldHolds(l) ==
  /\ HoldsOnce(localAccum[l], Successes(l) \ todo[l])
  /\ first[l] <=> localAccum[l] = NoOutput
  /\ l \notin busy => /\ todo[l] = {}
                      /\ localeResult[l] = localAccum[l]
                      /\ localeHasResult[l] <=> ~first[l]

\* Accumulator a has been given its partner's in the round that runs.
Halved(a) == phase = "round" /\ a \in Indices(Half) /\ a \notin busy

Due(a) == IF Halved(a) THEN Residue(a, Half) ELSE Residue(a, active)

SlotHolds(a) ==
  /\ HoldsOnce(localeResult[a], Due(a))
  /\ localeHasResult[a] <=> localeResult[a] # NoOutput

TmpHolds(l) ==
  /\ HoldsOnce(tmpBuf[l], Residue(l, Half))
  /\ tmpBuf[l] # NoOutput
  /\ localeHasResult[l]

AllHeld ==
  /\ phase = "fold" => \A l \in Locales : FoldHolds(l)
  /\ phase \in {"between", "round"} => \A a \in Indices(active) : SlotHolds(a)
  /\ phase = "round" => \A l \in reduced : TmpHolds(l)
  /\ phase = "stored" => HoldsOnce(resultData[0], succeeded)

HoldInv == IInv /\ Shape /\ (Reliable => AllHeld)

(* c_reduce was reliable before a step if it is after.                     *)
LEMMA ReliableBefore ==
  ASSUME [Next]_vars, Reliable'
  PROVE  Reliable
<1>1. UNCHANGED fixed
  BY DEF Next, TaskStep, MainStep, SkipFailed, Seed, FoldStep, Publish, NoPartner,
         Adopt, Reduce, WriteBack, EndFold, StartRound, EndRound, StoreSlot0,
         Finished, vars
<1>2. ~reduceFailed
  BY DEF Reliable, Next, TaskStep, MainStep, SkipFailed, Seed, FoldStep, Publish,
         NoPartner, Adopt, Reduce, Reduced, WriteBack, EndFold, StartRound, EndRound,
         StoreSlot0, Finished, vars, calls
<1> QED
  BY <1>1, <1>2 DEF Reliable, fixed, OnlyLocale0Combines, Residue, Successes

(* Where c_reduce is reliable, a call for disjoint sets of results that    *)
(* belong to locale l concatenates them.                                   *)
LEMMA ReliableCall ==
  ASSUME TypeOK, Reliable, ~reduceFailed',
         NEW l \in Locales, NEW n \in 1 .. NumLocales, NumLocales % n = 0, l < n,
         NEW a, NEW b, NEW out, Reduced(l, a, b, out),
         NEW x \in Residue(l, n), NEW y \in Residue(l, n), x # y
  PROVE  out = a \o b
<1>1. CASE ~followed /\ l # 0
  <2>1. n \in {d \in 2 .. NumLocales : NumLocales % d = 0} /\ l \in 1 .. n - 1
    BY <1>1, Sets, TreeLocalesAssumption
  <2>2. Cardinality(Residue(l, n)) <= 1
    BY <1>1, <2>1 DEF Reliable, OnlyLocale0Combines
  <2>3. Residue(l, n) \subseteq Items
    BY ResidueMembers DEF TypeOK
  <2> QED
    BY <2>2, <2>3, AtMostOne
<1> QED
  BY <1>1 DEF Reduced

LEMMA InitHolds == PowerOfTwo(NumLocales) /\ Init => HoldInv
<1> SUFFICES ASSUME PowerOfTwo(NumLocales), Init PROVE HoldInv
  OBVIOUS
<1>1. IInv
  BY InitIInv
<1>2. NumLocales % NumLocales = 0
  BY TreeLocalesAssumption
<1>3. Shape
  BY <1>2 DEF Init, Shape
<1>4. \A l \in Locales : FoldHolds(l)
  BY EmptyOnce DEF Init, FoldHolds, Successes
<1> QED
  BY <1>1, <1>3, <1>4 DEF HoldInv, AllHeld, Init

(* No step disturbs the shape.                                             *)
LEMMA ShapeKept ==
  ASSUME TypeOK, Shape, [Next]_vars
  PROVE  Shape'
<1>1. CASE \E l \in Locales : SkipFailed(l) \/ Seed(l) \/ FoldStep(l)
  <2>1. /\ UNCHANGED <<fixed, phase, active, result>>
        /\ \A l \in Locales : todo'[l] \subseteq todo[l]
    BY <1>1 DEF SkipFailed, Seed, FoldStep, Folding, TypeOK
  <2> QED
    BY <2>1 DEF Shape, fixed, result
<1>2. CASE EndRound
  <2>1. active > 1 /\ active \in Nat /\ NumLocales \in Nat
    BY <1>2, TreeLocalesAssumption DEF EndRound, Shape, TypeOK
  <2>2. /\ PowerOfTwo(active) /\ NumLocales % active = 0
        /\ active' = (active + 1) \div 2
    BY <1>2 DEF EndRound, Shape
  <2>3. active' = active \div 2
    BY <2>1, <2>2, Halving
  <2>4. PowerOfTwo(active \div 2) /\ NumLocales % (active \div 2) = 0
    BY <2>1, <2>2, Halving
  <2> QED
    BY <1>2, <2>3, <2>4 DEF EndRound, Shape, fixed, result, locals
<1>3. CASE StartRound \/ EndFold \/ StoreSlot0
  BY <1>3 DEF StartRound, EndFold, StoreSlot0, Shape, fixed, result, locals
<1>4. CASE \/ \E l \in Locales :
                Publish(l) \/ NoPartner(l) \/ Adopt(l) \/ Reduce(l) \/ WriteBack(l)
           \/ UNCHANGED vars
  <2>1. UNCHANGED <<fixed, phase, active, result, locals>>
    BY <1>4 DEF Publish, NoPartner, Adopt, Reduce, WriteBack, vars
  <2> QED
    BY <2>1 DEF Shape, fixed, result, locals
<1> QED
  BY <1>1, <1>2, <1>3, <1>4 DEF Next, TaskStep, MainStep, Finished

(* The fold takes each result of the slice once.                           *)
LEMMA FoldHoldsAll ==
  ASSUME HoldInv, Reliable, Reliable', NEW l \in Locales,
         SkipFailed(l) \/ Seed(l) \/ FoldStep(l)
  PROVE  AllHeld'
<1> USE DEF HoldInv, IInv, TypeOK
<1>1. /\ phase = "fold" /\ l \in busy
      /\ UNCHANGED <<fixed, phase, busy, round, accums, active, result>>
  BY DEF SkipFailed, Seed, FoldStep, Folding
<1>2. PICK i \in Items :
        /\ i \in todo[l]
        /\ todo' = [todo EXCEPT ![l] = @ \ {i}]
        /\ SkipFailed(l) => ~resultOk[i]
        /\ Seed(l) => resultOk[i] /\ localAccum' = [localAccum EXCEPT ![l] = resultData[i]]
        /\ FoldStep(l) => resultOk[i] /\ \E out \in Outputs(localAccum[l], resultData[i]) :
             /\ Reduced(l, localAccum[l], resultData[i], out)
             /\ localAccum' = [localAccum EXCEPT ![l] = out]
  <2>1. PICK i \in Items : Folding(l, i)
    BY DEF SkipFailed, Seed, FoldStep
  <2>2. \A j \in Items : Folding(l, j) => j = i
    BY <2>1, Sets DEF Folding
  <2>3. i \in todo[l] /\ todo' = [todo EXCEPT ![l] = @ \ {i}]
    BY <2>1 DEF Folding
  <2>4. SkipFailed(l) => ~resultOk[i]
    BY <2>2 DEF SkipFailed
  <2>5. Seed(l) => resultOk[i] /\ localAccum' = [localAccum EXCEPT ![l] = resultData[i]]
    BY <2>2 DEF Seed
  <2>6. FoldStep(l) => resultOk[i] /\ \E out \in Outputs(localAccum[l], resultData[i]) :
          /\ Reduced(l, localAccum[l], resultData[i], out)
          /\ localAccum' = [localAccum EXCEPT ![l] = out]
    BY <2>2 DEF FoldStep
  <2> QED
    BY <2>3, <2>4, <2>5, <2>6
<1> DEFINE S == Successes(l) \ todo[l]
<1>3. FoldHolds(l) /\ localAccum[l] \in Values /\ S \subseteq Items
  BY <1>1 DEF AllHeld, Successes
<1>4. \A k \in Locales : Successes(k)' = Successes(k)
  BY <1>1 DEF Successes, fixed
<1>5. i \in Successes(l) <=> resultOk[i]
  BY <1>1, <1>2 DEF Successes, Shape
<1>6. /\ HoldsOnce(localAccum'[l], Successes(l) \ todo'[l])
      /\ first'[l] <=> localAccum'[l] = NoOutput
      /\ \A k \in Locales \ {l} : localAccum'[k] = localAccum[k] /\ first'[k] = first[k]
  <2>1. CASE SkipFailed(l)
    <3>1. Successes(l) \ todo'[l] = S
      BY <1>2, <1>5, <2>1
    <3> QED
      BY <1>3, <2>1, <3>1 DEF SkipFailed, FoldHolds
  <2>2. Seed(l) \/ FoldStep(l) =>
          /\ Successes(l) \ todo'[l] = S \cup {i} /\ i \notin S
          /\ resultData[i] = <<i>>
    BY <1>1, <1>2, <1>5 DEF Shape
  <2>3. CASE Seed(l)
    <3>1. S = {}
      BY <1>3, <2>3, OnceEmpty DEF FoldHolds, Seed
    <3>2. /\ localAccum'[l] = <<i>> /\ first'[l] = FALSE
          /\ \A k \in Locales \ {l} : localAccum'[k] = localAccum[k] /\ first'[k] = first[k]
      BY <1>2, <2>2, <2>3 DEF Seed
    <3>3. <<i>> # NoOutput
      BY DEF NoOutput
    <3>4. HoldsOnce(<<i>>, {i})
      BY OneOnce
    <3>5. Successes(l) \ todo'[l] = {i}
      BY <2>2, <2>3, <3>1
    <3> QED
      BY <3>2, <3>3, <3>4, <3>5
  <2>4. CASE FoldStep(l)
    <3>1. PICK out \in Outputs(localAccum[l], <<i>>) :
            /\ Reduced(l, localAccum[l], <<i>>, out)
            /\ localAccum' = [localAccum EXCEPT ![l] = out]
      BY <1>2, <2>2, <2>4
    <3>2. ~first[l] /\ first' = first
      BY <2>4 DEF FoldStep
    <3>3. S # {} /\ HoldsOnce(localAccum[l], S)
      BY <1>3, <3>2, OnceEmpty DEF FoldHolds
    <3>4. PICK j \in S : TRUE
      BY <3>3
    <3>5. i \in Residue(l, NumLocales) /\ j \in Residue(l, NumLocales) /\ i # j
      BY <1>5, <2>2, <2>4, <1>2, <3>4, ResidueOfAll
    <3>6. out = localAccum[l] \o <<i>>
      <4>1. NumLocales \in 1 .. NumLocales /\ NumLocales % NumLocales = 0 /\ l < NumLocales
        BY TreeLocalesAssumption DEF Locales, Indices
      <4>2. ~reduceFailed' /\ TypeOK
        BY DEF Reliable
      <4> HIDE DEF TypeOK
      <4> QED
        BY <3>1, <3>5, <4>1, <4>2, ReliableCall
    <3>7. HoldsOnce(out, S \cup {i}) /\ out \in Values
      <4>1. S \cap {i} = {} /\ {i} \subseteq Items
        BY <2>2, <2>4
      <4>2. HoldsOnce(<<i>>, {i}) /\ <<i>> \in Values
        BY OneOnce
      <4>3. localAccum[l] \in Values /\ S \subseteq Items
        BY <1>3
      <4> HIDE DEF S, TypeOK, IInv, HoldInv
      <4> QED
        BY <3>3, <3>6, <4>1, <4>2, <4>3, ConcatOnce
    <3>8. out # NoOutput
      BY <1>3, <3>7, OnceEmpty
    <3> QED
      BY <2>2, <2>4, <3>1, <3>2, <3>7, <3>8
  <2> QED
    BY <2>1, <2>3, <2>4
<1>7. \A k \in Locales : FoldHolds(k)'
  <2> TAKE k \in Locales
  <2>1. CASE k = l
    BY <1>1, <1>4, <1>6, <2>1 DEF FoldHolds
  <2>2. CASE k # l
    BY <1>1, <1>2, <1>4, <1>6, <2>2 DEF AllHeld, FoldHolds, accums
  <2> QED
    BY <2>1, <2>2
<1> QED
  BY <1>1, <1>7 DEF AllHeld

LEMMA PublishHoldsAll ==
  ASSUME HoldInv, Reliable, NEW l \in Locales, Publish(l)
  PROVE  AllHeld'
<1> USE DEF HoldInv, IInv, TypeOK
<1>1. \A k \in Locales : FoldHolds(k)'
  <2> TAKE k \in Locales
  <2>1. FoldHolds(k) /\ Successes(k)' = Successes(k)
    BY DEF Publish, AllHeld, Successes, fixed
  <2> QED
    BY <2>1 DEF Publish, FoldHolds, locals
<1> QED
  BY <1>1 DEF AllHeld, Publish

(* A task of a round has its own residue and its partner's, which together *)
(* are the residue that remains when the accumulators are halved.          *)
LEMMA RoundResiduesOf ==
  ASSUME IInv, Shape, phase = "round", NEW l \in Indices(Half)
  PROVE  /\ l \in Indices(active) /\ Partner(l) \in Indices(active)
         /\ l \in Locales /\ Partner(l) \in Locales /\ Partner(l) \notin Indices(Half)
         /\ Residue(l, Half) = Residue(l, active) \cup Residue(Partner(l), active)
         /\ Residue(l, active) \cap Residue(Partner(l), active) = {}
         /\ \A n, a : Residue(a, n) \subseteq Items
         /\ Half \in 1 .. NumLocales /\ NumLocales % Half = 0 /\ l < Half
<1> USE DEF IInv, TypeOK
<1>1. active \in 1 .. NumLocales /\ active > 1 /\ PowerOfTwo(active) /\ NumLocales % active = 0
  BY DEF Shape
<1>2. Half \in Nat \ {0} /\ active = 2 * Half /\ NumLocales % Half = 0
  <2>1. active \in Nat /\ active > 1 /\ NumLocales \in Nat
    BY <1>1, TreeLocalesAssumption
  <2> HIDE DEF IInv, TypeOK
  <2> QED
    BY <1>1, <2>1, Halving DEF Half
<1>3. l \in 0 .. Half - 1 /\ Partner(l) = l + Half
  BY DEF Indices, Partner
<1> HIDE DEF IInv
<1>4. /\ Residue(l, Half) = Residue(l, active) \cup Residue(Partner(l), active)
      /\ Residue(l, active) \cap Residue(Partner(l), active) = {}
  BY <1>2, <1>3, ResidueHalves
<1>5. \A n, a : Residue(a, n) \subseteq Items
  BY ResidueMembers DEF IInv
<1>6. /\ l \in Indices(active) /\ Partner(l) \in Indices(active)
      /\ l \in Locales /\ Partner(l) \in Locales /\ Partner(l) \notin Indices(Half)
      /\ Half \in 1 .. NumLocales /\ l < Half
  BY <1>1, <1>2, <1>3, TreeLocalesAssumption DEF Indices, Locales
<1> QED
  BY <1>2, <1>4, <1>5, <1>6

LEMMA RoundResidues ==
  ASSUME HoldInv, phase = "round", NEW l \in Indices(Half)
  PROVE  /\ l \in Indices(active) /\ Partner(l) \in Indices(active)
         /\ l \in Locales /\ Partner(l) \in Locales /\ Partner(l) \notin Indices(Half)
         /\ Residue(l, Half) = Residue(l, active) \cup Residue(Partner(l), active)
         /\ Residue(l, active) \cap Residue(Partner(l), active) = {}
         /\ \A n, a : Residue(a, n) \subseteq Items
         /\ Half \in 1 .. NumLocales /\ NumLocales % Half = 0 /\ l < Half
BY RoundResiduesOf DEF HoldInv

\* Only what task l of a round holds changes.
OnlyMine(l) ==
  /\ UNCHANGED <<fixed, phase, active, result, locals>>
  /\ \A a \in Locales \ {l} : /\ localeResult'[a] = localeResult[a]
                              /\ localeHasResult'[a] <=> localeHasResult[a]
                              /\ a \in busy' <=> a \in busy
                              /\ a \in reduced' <=> a \in reduced
                              /\ tmpBuf'[a] = tmpBuf[a]

(* A round's step keeps what the others hold.                              *)
LEMMA OthersHold ==
  ASSUME HoldInv, Reliable, phase = "round", NEW l \in Locales, OnlyMine(l),
         SlotHolds(l)' \/ l \notin Indices(active),
         l \in reduced' => TmpHolds(l)', reduced' \subseteq Locales
  PROVE  AllHeld'
<1>1. phase' = "round" /\ active' = active /\ Half' = Half
      /\ \A a, n : Residue(a, n)' = Residue(a, n)
  BY DEF OnlyMine, Half, Residue, Successes, fixed
<1>2. Indices(active) \subseteq Locales
  BY TreeLocalesAssumption DEF HoldInv, IInv, TypeOK, Indices, Locales
<1>3. \A a \in Indices(active) : SlotHolds(a)'
  <2> TAKE a \in Indices(active)
  <2>1. CASE a = l
    BY <2>1
  <2>2. CASE a # l
    <3>1. a \in Locales /\ SlotHolds(a)
      BY <1>2 DEF HoldInv, AllHeld
    <3>2. Halved(a)' <=> Halved(a)
      BY <1>1, <2>2, <3>1 DEF Halved, OnlyMine
    <3>3. Due(a)' = Due(a)
      BY <1>1, <3>2 DEF Due, OnlyMine, Residue, Successes, fixed
    <3>4. localeResult'[a] = localeResult[a] /\ (localeHasResult'[a] <=> localeHasResult[a])
      BY <2>2, <3>1 DEF OnlyMine
    <3> QED
      BY <3>1, <3>3, <3>4 DEF SlotHolds
  <2> QED
    BY <2>1, <2>2
<1>4. \A a \in reduced' : TmpHolds(a)'
  <2> TAKE a \in reduced'
  <2>1. CASE a = l
    BY <2>1
  <2>2. CASE a # l
    <3>1. a \in Locales /\ a \in reduced
      BY <2>2 DEF OnlyMine
    <3>2. TmpHolds(a)
      BY <3>1 DEF HoldInv, AllHeld
    <3>3. Residue(a, Half)' = Residue(a, Half)
      BY <1>1 DEF OnlyMine, Residue, Successes, fixed
    <3>4. tmpBuf'[a] = tmpBuf[a] /\ (localeHasResult'[a] <=> localeHasResult[a])
      BY <2>2, <3>1 DEF OnlyMine
    <3> QED
      BY <3>2, <3>3, <3>4 DEF TmpHolds
  <2> QED
    BY <2>1, <2>2
<1> QED
  BY <1>1, <1>3, <1>4 DEF AllHeld

LEMMA NoPartnerHoldsAll ==
  ASSUME HoldInv, Reliable, NEW l \in Locales, NoPartner(l)
  PROVE  AllHeld'
<1>1. /\ phase = "round" /\ l \in busy /\ l \notin reduced /\ l \in Indices(Half)
      /\ TypeOK
  BY DEF NoPartner, InRound, HoldInv, IInv, RoundShape
<1>2. OnlyMine(l) /\ l \notin reduced' /\ reduced' \subseteq Locales
  <2>1. UNCHANGED <<fixed, phase, active, result, locals>>
    BY DEF NoPartner
  <2>2. UNCHANGED <<reduced, tmpBuf>> /\ busy' = busy \ {l}
    BY DEF NoPartner, round, accums
  <2>3. \A a \in Locales \ {l} : /\ localeResult'[a] = localeResult[a]
                                 /\ localeHasResult'[a] = localeHasResult[a]
    BY <1>1 DEF NoPartner, accums, TypeOK
  <2> QED
    BY <1>1, <2>1, <2>2, <2>3 DEF OnlyMine, TypeOK
<1>3. SlotHolds(l) /\ SlotHolds(Partner(l)) /\ Due(l) = Residue(l, active)
      /\ Due(Partner(l)) = Residue(Partner(l), active)
  BY <1>1, RoundResidues DEF HoldInv, AllHeld, Due, Halved
<1>4. Residue(Partner(l), active) = {}
  <2>1. localeResult[Partner(l)] = NoOutput
    BY <1>3 DEF SlotHolds, NoPartner
  <2>2. localeResult[Partner(l)] \in Values /\ Residue(Partner(l), active) \subseteq Items
    BY <1>1, RoundResidues DEF TypeOK
  <2> QED
    BY <1>3, <2>1, <2>2, OnceEmpty DEF SlotHolds
<1>5. Residue(l, Half) = Residue(l, active)
  BY <1>1, <1>4, RoundResidues
<1>6. Due(l)' = Residue(l, Half)
  BY <1>1, <1>2 DEF Due, Halved, OnlyMine, NoPartner, Half, Residue, Successes, fixed
<1>7. SlotHolds(l)'
  BY <1>3, <1>5, <1>6 DEF SlotHolds, NoPartner, accums
<1> QED
  BY <1>1, <1>2, <1>7, OthersHold

LEMMA AdoptHoldsAll ==
  ASSUME HoldInv, Reliable, NEW l \in Locales, Adopt(l)
  PROVE  AllHeld'
<1>1. /\ phase = "round" /\ l \in busy /\ l \notin reduced /\ l \in Indices(Half)
      /\ TypeOK
  BY DEF Adopt, InRound, HoldInv, IInv, RoundShape
<1>2. OnlyMine(l) /\ l \notin reduced' /\ reduced' \subseteq Locales
  <2>1. UNCHANGED <<fixed, phase, active, result, locals>>
    BY DEF Adopt
  <2>2. UNCHANGED <<reduced, tmpBuf>> /\ busy' = busy \ {l}
    BY DEF Adopt, round
  <2>3. \A a \in Locales \ {l} : /\ localeResult'[a] = localeResult[a]
                                 /\ localeHasResult'[a] = localeHasResult[a]
    BY <1>1 DEF Adopt, accums, TypeOK
  <2> QED
    BY <1>1, <2>1, <2>2, <2>3 DEF OnlyMine, TypeOK
<1>3. SlotHolds(l) /\ SlotHolds(Partner(l)) /\ Due(l) = Residue(l, active)
      /\ Due(Partner(l)) = Residue(Partner(l), active)
  BY <1>1, RoundResidues DEF HoldInv, AllHeld, Due, Halved
<1>4. Residue(l, active) = {}
  <2>1. localeResult[l] = NoOutput
    BY <1>3 DEF SlotHolds, Adopt
  <2>2. localeResult[l] \in Values /\ Residue(l, active) \subseteq Items
    BY <1>1, RoundResidues DEF TypeOK
  <2> QED
    BY <1>3, <2>1, <2>2, OnceEmpty DEF SlotHolds
<1>5. Residue(l, Half) = Residue(Partner(l), active)
  BY <1>1, <1>4, RoundResidues
<1>6. Due(l)' = Residue(l, Half)
  BY <1>1, <1>2 DEF Due, Halved, OnlyMine, Adopt, Half, Residue, Successes, fixed
<1>7. localeResult'[l] = localeResult[Partner(l)] /\ localeHasResult'[l]
      /\ localeHasResult[Partner(l)]
  BY <1>1 DEF Adopt, TypeOK
<1>8. SlotHolds(l)'
  BY <1>3, <1>5, <1>6, <1>7 DEF SlotHolds
<1> QED
  BY <1>1, <1>2, <1>8, OthersHold

LEMMA ReduceHoldsAll ==
  ASSUME HoldInv, Reliable, Reliable', NEW l \in Locales, Reduce(l)
  PROVE  AllHeld'
<1>1. /\ phase = "round" /\ l \in busy /\ l \notin reduced /\ l \in Indices(Half)
      /\ TypeOK
  BY DEF Reduce, InRound, HoldInv, IInv, RoundShape
<1>2. OnlyMine(l) /\ reduced' \subseteq Locales
  <2>1. UNCHANGED <<fixed, phase, active, result, locals>>
    BY DEF Reduce
  <2>2. UNCHANGED <<busy, localeResult, localeHasResult>> /\ reduced' = reduced \cup {l}
    BY DEF Reduce, accums
  <2>3. \A a \in Locales \ {l} : tmpBuf'[a] = tmpBuf[a]
    BY <1>1 DEF Reduce, TypeOK
  <2> QED
    BY <1>1, <2>1, <2>2, <2>3 DEF OnlyMine, TypeOK
<1>3. SlotHolds(l) /\ SlotHolds(Partner(l)) /\ Due(l) = Residue(l, active)
      /\ Due(Partner(l)) = Residue(Partner(l), active)
  BY <1>1, RoundResidues DEF HoldInv, AllHeld, Due, Halved
<1> DEFINE mine == localeResult[l]
           other == localeResult[Partner(l)]
           A == Residue(l, active)
           B == Residue(Partner(l), active)
<1>4. /\ mine \in Values /\ other \in Values /\ A \subseteq Items /\ B \subseteq Items
      /\ A \cap B = {} /\ Residue(l, Half) = A \cup B
      /\ HoldsOnce(mine, A) /\ HoldsOnce(other, B)
  BY <1>1, <1>3, RoundResidues DEF TypeOK, SlotHolds
<1>5. mine # NoOutput /\ other # NoOutput
  BY <1>3 DEF SlotHolds, Reduce
<1>6. PICK out : Reduced(l, mine, other, out) /\ tmpBuf'[l] = out
  BY <1>1 DEF Reduce, TypeOK
<1>7. Half \in 1 .. NumLocales /\ NumLocales % Half = 0 /\ l < Half
  BY <1>1, RoundResidues
<1> HIDE DEF mine, other, A, B
<1>8. PICK x \in A, y \in B : x # y
  BY <1>4, <1>5, OnceEmpty
<1>9. out = mine \o other
  <2>1. x \in Residue(l, Half) /\ y \in Residue(l, Half) /\ ~reduceFailed'
    BY <1>4, <1>8 DEF Reliable
  <2> QED
    BY <1>1, <1>6, <1>7, <1>8, <2>1, ReliableCall
<1>10. HoldsOnce(out, A \cup B) /\ out \in Values
  BY <1>4, <1>9, ConcatOnce
<1>11. out # NoOutput
  BY <1>4, <1>8, <1>10, OnceEmpty
<1>12. TmpHolds(l)'
  <2>1. Residue(l, Half)' = A \cup B /\ localeHasResult'[l]
    BY <1>4 DEF Reduce, Half, Residue, Successes, fixed, accums
  <2> QED
    BY <1>6, <1>10, <1>11, <2>1 DEF TmpHolds
<1>13. SlotHolds(l)'
  <2>1. Due(l)' = Due(l)
    BY <1>1 DEF Reduce, Due, Halved, Half, Residue, Successes, fixed
  <2> QED
    BY <1>3, <2>1 DEF SlotHolds, Reduce, accums
<1> QED
  BY <1>1, <1>2, <1>12, <1>13, OthersHold

LEMMA WriteBackHoldsAll ==
  ASSUME HoldInv, Reliable, NEW l \in Locales, WriteBack(l)
  PROVE  AllHeld'
<1>1. phase = "round" /\ l \in reduced /\ l \in busy /\ l \in Indices(Half) /\ TypeOK
  BY DEF WriteBack, HoldInv, IInv, RoundShape, TypeOK
<1>2. OnlyMine(l) /\ l \notin reduced' /\ reduced' \subseteq Locales
  <2>1. UNCHANGED <<fixed, phase, active, result, locals>>
    BY DEF WriteBack
  <2>2. /\ UNCHANGED <<tmpBuf, localeHasResult>>
        /\ busy' = busy \ {l} /\ reduced' = reduced \ {l}
    BY DEF WriteBack
  <2>3. \A a \in Locales \ {l} : localeResult'[a] = localeResult[a]
    BY <1>1 DEF WriteBack, TypeOK
  <2> QED
    BY <1>1, <2>1, <2>2, <2>3 DEF OnlyMine, TypeOK
<1>3. TmpHolds(l)
  BY <1>1 DEF HoldInv, AllHeld
<1>4. Due(l)' = Residue(l, Half)
  BY <1>1, <1>2 DEF Due, Halved, OnlyMine, WriteBack, Half, Residue, Successes, fixed
<1>5. localeResult'[l] = tmpBuf[l] /\ localeHasResult' = localeHasResult
  BY <1>1 DEF WriteBack, TypeOK
<1>6. SlotHolds(l)'
  BY <1>3, <1>4, <1>5 DEF SlotHolds, TmpHolds
<1> QED
  BY <1>1, <1>2, <1>6, OthersHold

LEMMA MainHoldsAll ==
  ASSUME HoldInv, Reliable, MainStep
  PROVE  AllHeld'
<1>1. TypeOK /\ Shape /\ active \in 1 .. NumLocales
  BY DEF HoldInv, IInv, TypeOK
<1>2. \A a, n : Residue(a, n)' = Residue(a, n)
  BY DEF MainStep, EndFold, StartRound, EndRound, StoreSlot0, Residue, Successes, fixed
<1>3. CASE EndFold
  <2>1. ASSUME NEW a \in Indices(active) PROVE SlotHolds(a)'
    <3>1. a \in Locales /\ active = NumLocales
      BY <1>1, <1>3 DEF EndFold, Shape, Locales
    <3>2. FoldHolds(a) /\ a \notin busy
      BY <1>3, <3>1 DEF EndFold, HoldInv, AllHeld
    <3>3. HoldsOnce(localeResult[a], Residue(a, active))
          /\ (localeHasResult[a] <=> localeResult[a] # NoOutput)
      <4>1. /\ todo[a] = {} /\ localeResult[a] = localAccum[a]
            /\ (localeHasResult[a] <=> ~first[a])
            /\ (first[a] <=> localAccum[a] = NoOutput)
            /\ HoldsOnce(localAccum[a], Successes(a) \ todo[a])
        BY <3>2 DEF FoldHolds
      <4>2. Successes(a) \ todo[a] = Residue(a, active)
        BY <3>1, <4>1, ResidueOfAll
      <4> QED
        BY <4>1, <4>2
    <3>4. Due(a)' = Residue(a, active)
      BY <1>2, <1>3 DEF EndFold, Due, Halved
    <3> QED
      BY <1>3, <3>3, <3>4 DEF EndFold, SlotHolds, accums
  <2> QED
    BY <1>3, <2>1 DEF EndFold, AllHeld
<1>4. CASE StartRound
  <2>1. ASSUME NEW a \in Indices(active) PROVE SlotHolds(a)'
    <3>1. SlotHolds(a) /\ Due(a) = Residue(a, active)
      BY <1>4 DEF StartRound, HoldInv, AllHeld, Due, Halved
    <3>2. Due(a)' = Residue(a, active)
      BY <1>2, <1>4 DEF StartRound, Due, Halved, Half
    <3> QED
      BY <1>4, <3>1, <3>2 DEF StartRound, SlotHolds, accums
  <2>2. reduced' = {}
    BY <1>4 DEF StartRound, HoldInv, IInv, RoundShape, round
  <2> QED
    BY <1>4, <2>1, <2>2 DEF StartRound, AllHeld
<1>5. CASE EndRound
  <2>1. active' = Half /\ Half \in Nat /\ Half <= active
    BY <1>1, <1>5, Halving, TreeLocalesAssumption DEF EndRound, Shape, Half
  <2>2. ASSUME NEW a \in Indices(active') PROVE SlotHolds(a)'
    <3>1. SlotHolds(a) /\ Due(a) = Residue(a, Half)
      BY <1>1, <1>5, <2>1 DEF EndRound, HoldInv, AllHeld, Due, Halved, Indices
    <3>2. Due(a)' = Residue(a, Half)
      BY <1>2, <1>5, <2>1 DEF EndRound, Due, Halved
    <3> QED
      BY <1>5, <3>1, <3>2 DEF EndRound, SlotHolds, accums
  <2> QED
    BY <1>5, <2>2 DEF EndRound, AllHeld
<1>6. CASE StoreSlot0
  <2>1. active = 1 /\ 0 \in Indices(active)
    BY <1>1, <1>6, TreeLocalesAssumption DEF StoreSlot0, Indices
  <2>2. SlotHolds(0) /\ Due(0) = Residue(0, 1)
    BY <1>6, <2>1 DEF StoreSlot0, HoldInv, AllHeld, Due, Halved
  <2>3. Residue(0, 1) = succeeded
    BY <1>1, ResidueOfOne DEF TypeOK
  <2>4. resultData'[0] = localeResult[0] /\ succeeded' = succeeded
    BY <1>1, <1>6, Sets DEF StoreSlot0, TypeOK, fixed
  <2> QED
    BY <1>6, <2>2, <2>3, <2>4 DEF StoreSlot0, AllHeld, SlotHolds
<1> QED
  BY <1>3, <1>4, <1>5, <1>6 DEF MainStep

LEMMA StepHolds == HoldInv /\ [Next]_vars => HoldInv'
<1> SUFFICES ASSUME HoldInv, [Next]_vars PROVE HoldInv'
  OBVIOUS
<1>1. IInv' /\ Shape'
  BY StepKeeps, ShapeKept DEF HoldInv, IInv
<1>2. ASSUME Reliable' PROVE AllHeld'
  <2>1. Reliable
    BY <1>2, ReliableBefore
  <2>2. ASSUME NEW l \in Locales, TaskStep(l) PROVE AllHeld'
    BY <1>2, <2>1, <2>2, FoldHoldsAll, PublishHoldsAll, NoPartnerHoldsAll,
       AdoptHoldsAll, ReduceHoldsAll, WriteBackHoldsAll DEF TaskStep
  <2>3. CASE UNCHANGED vars
    <3>1. /\ AllHeld
          /\ \A a, n : Residue(a, n)' = Residue(a, n)
          /\ \A l : Successes(l)' = Successes(l)
      BY <2>1, <2>3 DEF HoldInv, vars, fixed, Residue, Successes
    <3>2. \A a : Due(a)' = Due(a)
      BY <2>3, <3>1 DEF Due, Halved, Half, vars
    <3> QED
      BY <2>3, <3>1, <3>2 DEF AllHeld, FoldHolds, SlotHolds, TmpHolds, Half, vars,
         fixed, locals, round, accums, result
  <2> QED
    BY <2>1, <2>2, <2>3, MainHoldsAll DEF Next, Finished
<1> QED
  BY <1>1, <1>2 DEF HoldInv

(* On a power of two, the locales' residues are where they should be.      *)
THEOREM ResiduesHeld ==
  ASSUME PowerOfTwo(NumLocales)
  PROVE  Spec => []SlotsHoldResidues
<1>1. HoldInv => SlotsHoldResidues
  <2> SUFFICES ASSUME HoldInv, phase = "between", ~reduceFailed, followed,
                      NEW a \in Indices(active)
               PROVE  HoldsOnce(localeResult[a], Residue(a, active))
    BY DEF SlotsHoldResidues
  <2>1. SlotHolds(a)
    BY DEF HoldInv, AllHeld, Reliable
  <2> QED
    BY <2>1 DEF SlotHolds, Due, Halved
<1> QED
  BY <1>1, InitHolds, StepHolds, PTL DEF Spec, SafeSpec

(* On a power of two every result is combined into slot 0 exactly once, as *)
(* long as c_reduce succeeds and reads what it was given.                  *)
THEOREM ResultsPreserved ==
  ASSUME PowerOfTwo(NumLocales)
  PROVE  Spec => []PreservesResults
<1>1. HoldInv => PreservesResults
  BY DEF HoldInv, AllHeld, Reliable, PreservesResults
<1> QED
  BY <1>1, InitHolds, StepHolds, PTL DEF Spec, SafeSpec

-----------------------------------------------------------------------------
(* The refinement: what each buffer holds, whatever c_reduce does.         *)

Lossy == reduceFailed \/ garbled

\* The results in a buffer.
Real(value) == ToSet(value) \ {Junk}

\* A fold holds results of its own slice that it visited; it holds none before
\* the first, and some after it unless a call went wrong.
FoldWithin(l) ==
  /\ Real(localAccum[l]) \subseteq Successes(l) \ todo[l]
  /\ first[l] => localAccum[l] = NoOutput
  /\ ~Lossy /\ ~first[l] => Real(localAccum[l]) # {}
  /\ l \notin busy => /\ todo[l] = {}
                      /\ localeResult[l] = localAccum[l]
                      /\ localeHasResult[l] <=> ~first[l]

SlotWithin(a) ==
  /\ Real(localeResult[a]) \subseteq Due(a)
  /\ ~localeHasResult[a] => Real(localeResult[a]) = {}
  /\ ~Lossy /\ localeHasResult[a] => Real(localeResult[a]) # {}

TmpWithin(l) ==
  /\ localeHasResult[l]
  /\ Lossy \/ tmpBuf[l] = localeResult[l] \o localeResult[Partner(l)]

AllWithin ==
  /\ phase = "fold" => \A l \in Locales : FoldWithin(l)
  /\ phase \in {"between", "round"} => \A a \in Indices(active) : SlotWithin(a)
  /\ phase = "round" => \A l \in reduced : TmpWithin(l)

WithinInv == IInv /\ Shape /\ AllWithin

LEMMA RealValues ==
  /\ Real(NoOutput) = {} /\ Real(<<Junk>>) = {}
  /\ \A i \in Items : Real(<<i>>) = {i}
  /\ \A a, b \in Values : Real(a \o b) = Real(a) \cup Real(b)
<1>1. ToSet(NoOutput) = {} /\ ToSet(<<Junk>>) = {Junk}
  BY DEF ToSet, NoOutput
<1>2. \A i \in Items : ToSet(<<i>>) = {i} /\ i # Junk
  BY Sets DEF ToSet, Junk
<1>3. \A a, b \in Values : ToSet(a \o b) = ToSet(a) \cup ToSet(b)
  BY ToSetConcat
<1> QED
  BY <1>1, <1>2, <1>3 DEF Real

(* What the calls of c_reduce did does not get undone.                     *)
LEMMA LossyKept ==
  ASSUME [Next]_vars, Lossy
  PROVE  Lossy'
<1>1. ASSUME NEW l, NEW a, NEW b, NEW out, Reduced(l, a, b, out)
      PROVE  Lossy'
  BY <1>1 DEF Reduced, Lossy, calls
<1>2. UNCHANGED calls => Lossy'
  BY DEF calls, Lossy
<1>3. ASSUME NEW l \in Locales, FoldStep(l) PROVE Lossy'
  BY <1>1, <1>3 DEF FoldStep
<1>4. ASSUME NEW l \in Locales, Reduce(l) PROVE Lossy'
  BY <1>1, <1>4 DEF Reduce
<1> QED
  BY <1>2, <1>3, <1>4 DEF Next, TaskStep, MainStep, SkipFailed, Seed, Publish,
     NoPartner, Adopt, WriteBack, EndFold, StartRound, EndRound, StoreSlot0,
     Finished, vars

(* A call of c_reduce concatenates, or it goes wrong and leaves no result. *)
LEMMA CallOutcome ==
  ASSUME NEW l, NEW a, NEW b, NEW out, Reduced(l, a, b, out)
  PROVE  \/ out = a \o b /\ UNCHANGED calls
         \/ Real(out) = {} /\ Lossy'
BY RealValues DEF Reduced, Lossy

LEMMA InitWithin == PowerOfTwo(NumLocales) /\ Init => WithinInv
<1> SUFFICES ASSUME PowerOfTwo(NumLocales), Init PROVE WithinInv
  OBVIOUS
<1>1. HoldInv
  BY InitHolds
<1>2. \A l \in Locales : FoldWithin(l)
  BY RealValues DEF Init, FoldWithin
<1> QED
  BY <1>1, <1>2 DEF HoldInv, WithinInv, AllWithin, Init

\* A step of locale l's fold takes index i.
Takes(l, i) ==
  /\ phase = "fold" /\ l \in busy /\ i \in todo[l]
  /\ todo' = [todo EXCEPT ![l] = @ \ {i}]
  /\ UNCHANGED <<fixed, phase, busy, round, accums, active, result>>
  /\ \A k \in Locales \ {l} : localAccum'[k] = localAccum[k] /\ (first'[k] <=> first[k])

(* The three steps of a fold, by what they do to the accumulator.          *)
LEMMA FoldOutcome ==
  ASSUME WithinInv, NEW l \in Locales, SkipFailed(l) \/ Seed(l) \/ FoldStep(l)
  PROVE  \E i \in Items :
           /\ Takes(l, i)
           /\ \/ /\ ~resultOk[i]
                 /\ localAccum'[l] = localAccum[l] /\ (first'[l] <=> first[l])
                 /\ UNCHANGED calls
              \/ /\ resultOk[i] /\ first[l] /\ ~first'[l]
                 /\ localAccum'[l] = <<i>>
                 /\ UNCHANGED calls
              \/ /\ resultOk[i] /\ ~first[l] /\ ~first'[l]
                 /\ localAccum'[l] = localAccum[l] \o <<i>>
                 /\ UNCHANGED calls
              \/ /\ resultOk[i] /\ ~first[l] /\ ~first'[l]
                 /\ Real(localAccum'[l]) = {} /\ Lossy'
<1> USE DEF WithinInv, IInv, TypeOK
<1>1. phase = "fold"
  BY DEF SkipFailed, Seed, FoldStep, Folding
<1>2. CASE SkipFailed(l)
  <2>1. PICK i \in Items : Folding(l, i) /\ ~resultOk[i]
    BY <1>2 DEF SkipFailed
  <2>2. Takes(l, i)
    BY <1>2, <2>1 DEF SkipFailed, Takes, Folding
  <2> QED
    BY <1>2, <2>1, <2>2 DEF SkipFailed
<1>3. CASE Seed(l)
  <2>1. PICK i \in Items : /\ Folding(l, i) /\ resultOk[i]
                           /\ localAccum' = [localAccum EXCEPT ![l] = resultData[i]]
    BY <1>3 DEF Seed
  <2>2. Takes(l, i)
    BY <1>3, <2>1 DEF Seed, Takes, Folding
  <2>3. resultData[i] = <<i>>
    BY <1>1, <2>1 DEF Shape
  <2> QED
    BY <1>3, <2>1, <2>2, <2>3 DEF Seed
<1>4. CASE FoldStep(l)
  <2>1. PICK i \in Items : /\ Folding(l, i) /\ resultOk[i]
                           /\ \E out \in Outputs(localAccum[l], resultData[i]) :
                                /\ Reduced(l, localAccum[l], resultData[i], out)
                                /\ localAccum' = [localAccum EXCEPT ![l] = out]
    BY <1>4 DEF FoldStep
  <2>2. PICK out : /\ Reduced(l, localAccum[l], resultData[i], out)
                   /\ localAccum' = [localAccum EXCEPT ![l] = out]
    BY <2>1
  <2>3. Takes(l, i)
    BY <1>4, <2>1, <2>2 DEF FoldStep, Takes, Folding
  <2>4. resultData[i] = <<i>>
    BY <1>1, <2>1 DEF Shape
  <2>5. \/ out = localAccum[l] \o <<i>> /\ UNCHANGED calls
        \/ Real(out) = {} /\ Lossy'
    BY <2>2, <2>4, CallOutcome
  <2>6. ~first[l] /\ ~first'[l] /\ localAccum'[l] = out
    BY <1>4, <2>2 DEF FoldStep
  <2> QED
    BY <2>1, <2>3, <2>5, <2>6
<1> QED
  BY <1>2, <1>3, <1>4

LEMMA FoldWithinAll ==
  ASSUME WithinInv, [Next]_vars, NEW l \in Locales, SkipFailed(l) \/ Seed(l) \/ FoldStep(l)
  PROVE  AllWithin'
<1>1. PICK i \in Items :
           /\ Takes(l, i)
           /\ \/ /\ ~resultOk[i]
                 /\ localAccum'[l] = localAccum[l] /\ (first'[l] <=> first[l])
                 /\ UNCHANGED calls
              \/ /\ resultOk[i] /\ first[l] /\ ~first'[l]
                 /\ localAccum'[l] = <<i>>
                 /\ UNCHANGED calls
              \/ /\ resultOk[i] /\ ~first[l] /\ ~first'[l]
                 /\ localAccum'[l] = localAccum[l] \o <<i>>
                 /\ UNCHANGED calls
              \/ /\ resultOk[i] /\ ~first[l] /\ ~first'[l]
                 /\ Real(localAccum'[l]) = {} /\ Lossy'
  BY FoldOutcome
<1>2. /\ phase = "fold" /\ phase' = "fold" /\ l \in busy /\ busy' = busy
      /\ i \in todo[l] /\ todo'[l] = todo[l] \ {i}
      /\ \A k \in Locales \ {l} : todo'[k] = todo[k]
      /\ UNCHANGED <<localeResult, localeHasResult, succeeded>>
  BY <1>1 DEF Takes, WithinInv, IInv, TypeOK, accums, fixed
<1>3. \A k \in Locales : Successes(k)' = Successes(k)
  BY <1>2 DEF Successes
<1>4. \A k \in Locales : FoldWithin(k)
  BY <1>2 DEF WithinInv, AllWithin
<1>5. /\ resultOk[i] <=> i \in Successes(l)
      /\ localAccum[l] \in Values
  BY <1>2 DEF WithinInv, IInv, TypeOK, Shape, Successes
<1>6. Lossy => Lossy'
  BY LossyKept
<1>7. UNCHANGED calls => (Lossy' <=> Lossy)
  BY DEF calls, Lossy
<1>8. FoldWithin(l)'
  <2>1. FoldWithin(l) /\ Successes(l)' = Successes(l)
    BY <1>3, <1>4
  <2>2. Real(<<i>>) = {i} /\ Real(localAccum[l] \o <<i>>) = Real(localAccum[l]) \cup {i}
    <3>1. <<i>> \in Values
      BY OneOnce
    <3> QED
      BY <1>5, <3>1, RealValues
  <2>3. Real(localAccum'[l]) \subseteq Successes(l) \ todo'[l]
    BY <1>1, <1>2, <1>5, <2>1, <2>2 DEF FoldWithin
  <2>4. first'[l] => localAccum'[l] = NoOutput
    BY <1>1, <2>1 DEF FoldWithin
  <2>5. ~Lossy' /\ ~first'[l] => Real(localAccum'[l]) # {}
    BY <1>1, <1>6, <2>1, <2>2 DEF FoldWithin
  <2> QED
    BY <1>2, <2>1, <2>3, <2>4, <2>5 DEF FoldWithin
<1>9. \A k \in Locales : FoldWithin(k)'
  <2> TAKE k \in Locales
  <2>1. CASE k # l
    <3>1. /\ FoldWithin(k) /\ Successes(k)' = Successes(k)
          /\ localAccum'[k] = localAccum[k] /\ (first'[k] <=> first[k])
          /\ todo'[k] = todo[k]
      BY <1>1, <1>2, <1>3, <1>4, <2>1 DEF Takes
    <3> QED
      BY <1>2, <1>6, <3>1 DEF FoldWithin
  <2> QED
    BY <1>8, <2>1
<1> QED
  BY <1>2, <1>9 DEF AllWithin

LEMMA PublishWithin ==
  ASSUME WithinInv, NEW l \in Locales, Publish(l)
  PROVE  AllWithin'
<1> USE DEF WithinInv, IInv, TypeOK
<1>1. \A k \in Locales : FoldWithin(k)'
  <2> TAKE k \in Locales
  <2>1. FoldWithin(k) /\ Successes(k)' = Successes(k) /\ (Lossy' <=> Lossy)
    BY DEF Publish, AllWithin, Successes, fixed, Lossy, calls
  <2> QED
    BY <2>1 DEF Publish, FoldWithin, locals
<1> QED
  BY <1>1 DEF AllWithin, Publish

\* A round's step of locale l keeps what the others hold.
LEMMA OthersWithin ==
  ASSUME WithinInv, [Next]_vars, phase = "round", NEW l \in busy, OnlyMine(l),
         SlotWithin(l)', l \in reduced' => TmpWithin(l)', reduced' \subseteq Locales
  PROVE  AllWithin'
<1> USE DEF WithinInv
<1>1. /\ phase' = "round" /\ active' = active /\ Half' = Half /\ l \in Locales
      /\ \A a, n : Residue(a, n)' = Residue(a, n)
      /\ \A a : Partner(a)' = Partner(a)
  BY DEF OnlyMine, Half, Residue, Successes, fixed, Partner, IInv, TypeOK
<1>2. Indices(active) \subseteq Locales
  BY TreeLocalesAssumption DEF IInv, TypeOK, Indices, Locales
<1>3. Lossy => Lossy'
  BY LossyKept
<1>4. \A a \in Indices(active) : SlotWithin(a)'
  <2> TAKE a \in Indices(active)
  <2>1. CASE a # l
    <3>1. a \in Locales /\ SlotWithin(a)
      BY <1>2 DEF AllWithin
    <3>2. Halved(a)' <=> Halved(a)
      BY <1>1, <2>1, <3>1 DEF Halved, OnlyMine
    <3>3. Due(a)' = Due(a)
      BY <1>1, <3>2 DEF Due, OnlyMine, Residue, Successes, fixed
    <3>4. localeResult'[a] = localeResult[a] /\ (localeHasResult'[a] <=> localeHasResult[a])
      BY <2>1, <3>1 DEF OnlyMine
    <3> QED
      BY <1>3, <3>1, <3>3, <3>4 DEF SlotWithin
  <2> QED
    BY <2>1
<1>5. \A a \in reduced' : TmpWithin(a)'
  <2> TAKE a \in reduced'
  <2>1. CASE a # l
    <3>1. a \in Locales /\ a \in reduced
      BY <2>1 DEF OnlyMine
    <3>2. TmpWithin(a) /\ Partner(a) \in Locales /\ Partner(a) # l
      BY <2>1, <3>1, OneWriterPerSlot DEF AllWithin, OthersCurrent
    <3>3. /\ tmpBuf'[a] = tmpBuf[a] /\ (localeHasResult'[a] <=> localeHasResult[a])
          /\ localeResult'[a] = localeResult[a]
          /\ localeResult'[Partner(a)] = localeResult[Partner(a)]
      BY <2>1, <3>1, <3>2 DEF OnlyMine
    <3> QED
      BY <1>1, <1>3, <3>2, <3>3 DEF TmpWithin
  <2> QED
    BY <2>1
<1> QED
  BY <1>1, <1>4, <1>5 DEF AllWithin

LEMMA NoPartnerWithin ==
  ASSUME WithinInv, [Next]_vars, NEW l \in Locales, NoPartner(l)
  PROVE  AllWithin'
<1>1. /\ phase = "round" /\ l \in busy /\ l \notin reduced /\ l \in Indices(Half)
      /\ TypeOK /\ IInv /\ Shape
  BY DEF NoPartner, InRound, WithinInv, IInv, RoundShape
<1>2. OnlyMine(l) /\ l \notin reduced' /\ reduced' \subseteq Locales
      /\ UNCHANGED <<localeResult, localeHasResult, calls>> /\ busy' = busy \ {l}
  BY <1>1 DEF NoPartner, OnlyMine, round, accums, TypeOK
<1>3. SlotWithin(l) /\ Due(l) = Residue(l, active)
  BY <1>1, RoundResiduesOf DEF WithinInv, AllWithin, Due, Halved
<1>4. Residue(l, active) \subseteq Residue(l, Half)
  BY <1>1, RoundResiduesOf
<1>5. Due(l)' = Residue(l, Half)
  BY <1>1, <1>2 DEF Due, Halved, OnlyMine, Half, Residue, Successes, fixed
<1>6. SlotWithin(l)'
  BY <1>2, <1>3, <1>4, <1>5 DEF SlotWithin, Lossy, calls
<1> QED
  BY <1>1, <1>2, <1>6, OthersWithin

LEMMA AdoptWithin ==
  ASSUME WithinInv, [Next]_vars, NEW l \in Locales, Adopt(l)
  PROVE  AllWithin'
<1>1. /\ phase = "round" /\ l \in busy /\ l \notin reduced /\ l \in Indices(Half)
      /\ TypeOK /\ IInv /\ Shape
  BY DEF Adopt, InRound, WithinInv, IInv, RoundShape
<1>2. OnlyMine(l) /\ l \notin reduced' /\ reduced' \subseteq Locales
      /\ UNCHANGED calls /\ busy' = busy \ {l}
  BY <1>1 DEF Adopt, OnlyMine, round, TypeOK
<1>3. SlotWithin(Partner(l)) /\ Due(Partner(l)) = Residue(Partner(l), active)
  BY <1>1, RoundResiduesOf DEF WithinInv, AllWithin, Due, Halved
<1>4. Residue(Partner(l), active) \subseteq Residue(l, Half)
  BY <1>1, RoundResiduesOf
<1>5. Due(l)' = Residue(l, Half)
  BY <1>1, <1>2 DEF Due, Halved, OnlyMine, Half, Residue, Successes, fixed
<1>6. localeResult'[l] = localeResult[Partner(l)] /\ localeHasResult'[l]
      /\ localeHasResult[Partner(l)]
  BY <1>1 DEF Adopt, TypeOK
<1>7. SlotWithin(l)'
  BY <1>2, <1>3, <1>4, <1>5, <1>6 DEF SlotWithin, Lossy, calls
<1> QED
  BY <1>1, <1>2, <1>7, OthersWithin

LEMMA ReduceWithin ==
  ASSUME WithinInv, [Next]_vars, NEW l \in Locales, Reduce(l)
  PROVE  AllWithin'
<1>1. /\ phase = "round" /\ l \in busy /\ l \notin reduced /\ l \in Indices(Half)
      /\ TypeOK /\ IInv /\ Shape /\ localeHasResult[l]
  BY DEF Reduce, InRound, WithinInv, IInv, RoundShape
<1>2. /\ OnlyMine(l) /\ reduced' \subseteq Locales
      /\ UNCHANGED <<busy, localeResult, localeHasResult>>
  BY <1>1 DEF Reduce, OnlyMine, accums, TypeOK
<1>3. PICK out : /\ Reduced(l, localeResult[l], localeResult[Partner(l)], out)
                 /\ tmpBuf'[l] = out
  BY <1>1 DEF Reduce, TypeOK
<1>4. TmpWithin(l)'
  <2>1. Partner(l)' = Partner(l)
    BY <1>2 DEF OnlyMine, Partner, Half
  <2> QED
    BY <1>1, <1>2, <1>3, <2>1, CallOutcome DEF TmpWithin
<1>5. SlotWithin(l)'
  <2>1. SlotWithin(l)
    BY <1>1, RoundResiduesOf DEF WithinInv, AllWithin
  <2>2. Due(l)' = Due(l)
    BY <1>1, <1>2 DEF Due, Halved, OnlyMine, Half, Residue, Successes, fixed
  <2>3. Lossy => Lossy'
    BY LossyKept
  <2> QED
    BY <1>2, <2>1, <2>2, <2>3 DEF SlotWithin
<1> QED
  BY <1>1, <1>2, <1>4, <1>5, OthersWithin

LEMMA WriteBackWithin ==
  ASSUME WithinInv, [Next]_vars, NEW l \in Locales, WriteBack(l)
  PROVE  AllWithin'
<1>1. /\ phase = "round" /\ l \in reduced /\ l \in busy /\ l \in Indices(Half)
      /\ TypeOK /\ IInv /\ Shape
  BY DEF WriteBack, WithinInv, IInv, RoundShape, TypeOK
<1>2. OnlyMine(l) /\ l \notin reduced' /\ reduced' \subseteq Locales
      /\ UNCHANGED <<localeHasResult, calls>> /\ busy' = busy \ {l}
  BY <1>1 DEF WriteBack, OnlyMine, TypeOK
<1>3. /\ SlotWithin(l) /\ Due(l) = Residue(l, active)
      /\ SlotWithin(Partner(l)) /\ Due(Partner(l)) = Residue(Partner(l), active)
  BY <1>1, RoundResiduesOf DEF WithinInv, AllWithin, Due, Halved
<1>4. /\ Residue(l, Half) = Residue(l, active) \cup Residue(Partner(l), active)
      /\ localeResult[l] \in Values /\ localeResult[Partner(l)] \in Values
  BY <1>1, RoundResiduesOf DEF TypeOK
<1>5. Due(l)' = Residue(l, Half)
  BY <1>1, <1>2 DEF Due, Halved, OnlyMine, Half, Residue, Successes, fixed
<1>6. TmpWithin(l) /\ localeResult'[l] = tmpBuf[l]
  BY <1>1 DEF WriteBack, WithinInv, AllWithin, TypeOK
<1>7. /\ tmpBuf[l] \in Outputs(localeResult[l], localeResult[Partner(l)])
      /\ Real(localeResult[l] \o localeResult[Partner(l)])
           = Real(localeResult[l]) \cup Real(localeResult[Partner(l)])
  BY <1>1, <1>4, RealValues DEF IInv, ReducesCurrentSlots
<1>8. Real(tmpBuf[l]) \subseteq Real(localeResult[l]) \cup Real(localeResult[Partner(l)])
  BY <1>7, RealValues DEF Outputs
<1>9. ~Lossy => Real(tmpBuf[l]) # {}
  BY <1>3, <1>6, <1>7 DEF TmpWithin, SlotWithin
<1>10. localeHasResult'[l] /\ (Lossy' <=> Lossy)
  BY <1>2, <1>6 DEF TmpWithin, Lossy, calls
<1>11. SlotWithin(l)'
  <2>1. Real(localeResult'[l]) \subseteq Due(l)'
    BY <1>3, <1>4, <1>5, <1>6, <1>8 DEF SlotWithin
  <2>2. ~Lossy' => Real(localeResult'[l]) # {}
    BY <1>6, <1>9, <1>10
  <2> QED
    BY <1>10, <2>1, <2>2 DEF SlotWithin
<1> QED
  BY <1>1, <1>2, <1>11, OthersWithin

LEMMA MainWithin ==
  ASSUME WithinInv, MainStep
  PROVE  AllWithin'
<1>1. TypeOK /\ IInv /\ Shape /\ active \in 1 .. NumLocales
  BY DEF WithinInv, IInv, TypeOK
<1>2. /\ \A a, n : Residue(a, n)' = Residue(a, n)
      /\ Lossy' <=> Lossy
  BY DEF MainStep, EndFold, StartRound, EndRound, StoreSlot0, Residue, Successes, fixed,
         Lossy, calls
<1>3. CASE EndFold
  <2>1. ASSUME NEW a \in Indices(active) PROVE SlotWithin(a)'
    <3>1. a \in Locales /\ active = NumLocales
      BY <1>1, <1>3 DEF EndFold, Shape, Locales
    <3>2. FoldWithin(a) /\ a \notin busy
      BY <1>3, <3>1 DEF EndFold, WithinInv, AllWithin
    <3>3. Due(a)' = Successes(a)
      BY <1>2, <1>3, <3>1, ResidueOfAll DEF EndFold, Due, Halved
    <3> QED
      BY <1>2, <1>3, <3>2, <3>3, RealValues DEF EndFold, FoldWithin, SlotWithin, accums
  <2> QED
    BY <1>3, <2>1 DEF EndFold, AllWithin
<1>4. CASE StartRound
  <2>1. ASSUME NEW a \in Indices(active) PROVE SlotWithin(a)'
    <3>1. SlotWithin(a) /\ Due(a) = Residue(a, active)
      BY <1>4 DEF StartRound, WithinInv, AllWithin, Due, Halved
    <3>2. Due(a)' = Residue(a, active)
      BY <1>2, <1>4 DEF StartRound, Due, Halved, Half
    <3> QED
      BY <1>2, <1>4, <3>1, <3>2 DEF StartRound, SlotWithin, accums
  <2>2. reduced' = {}
    BY <1>1, <1>4 DEF StartRound, IInv, RoundShape, round
  <2> QED
    BY <1>4, <2>1, <2>2 DEF StartRound, AllWithin
<1>5. CASE EndRound
  <2>1. active' = Half /\ Half \in Nat /\ Half <= active
    BY <1>1, <1>5, Halving, TreeLocalesAssumption DEF EndRound, Shape, Half
  <2>2. ASSUME NEW a \in Indices(active') PROVE SlotWithin(a)'
    <3>1. SlotWithin(a) /\ Due(a) = Residue(a, Half)
      BY <1>1, <1>5, <2>1 DEF EndRound, WithinInv, AllWithin, Due, Halved, Indices
    <3>2. Due(a)' = Residue(a, Half)
      BY <1>2, <1>5, <2>1 DEF EndRound, Due, Halved
    <3> QED
      BY <1>2, <1>5, <3>1, <3>2 DEF EndRound, SlotWithin, accums
  <2> QED
    BY <1>5, <2>2 DEF EndRound, AllWithin
<1>6. CASE StoreSlot0
  BY <1>6 DEF StoreSlot0, AllWithin
<1> QED
  BY <1>3, <1>4, <1>5, <1>6 DEF MainStep

LEMMA StepWithin == WithinInv /\ [Next]_vars => WithinInv'
<1> SUFFICES ASSUME WithinInv, [Next]_vars PROVE WithinInv'
  OBVIOUS
<1>1. IInv' /\ Shape'
  BY StepKeeps, ShapeKept DEF WithinInv, IInv
<1>2. ASSUME NEW l \in Locales, TaskStep(l) PROVE AllWithin'
  BY <1>2, FoldWithinAll, PublishWithin, NoPartnerWithin, AdoptWithin, ReduceWithin,
     WriteBackWithin DEF TaskStep
<1>3. ASSUME UNCHANGED vars PROVE AllWithin'
  <2>1. /\ AllWithin
        /\ \A a, n : Residue(a, n)' = Residue(a, n)
        /\ \A l : Successes(l)' = Successes(l)
        /\ Lossy' <=> Lossy
    BY <1>3 DEF WithinInv, vars, fixed, Residue, Successes, Lossy, calls
  <2>2. \A a : Due(a)' = Due(a)
    BY <1>3, <2>1 DEF Due, Halved, Half, vars
  <2>3. \A l : Partner(l)' = Partner(l)
    BY <1>3 DEF Partner, Half, vars
  <2>4. \A l : FoldWithin(l) => FoldWithin(l)'
    BY <1>3, <2>1 DEF FoldWithin, vars, locals, accums
  <2>5. \A a : SlotWithin(a) => SlotWithin(a)'
    BY <1>3, <2>1, <2>2 DEF SlotWithin, vars, accums
  <2>6. \A l : TmpWithin(l) => TmpWithin(l)'
    BY <1>3, <2>1, <2>3 DEF TmpWithin, vars, round, accums
  <2>7. phase' = phase /\ active' = active /\ reduced' = reduced
    BY <1>3 DEF vars, round
  <2> QED
    BY <2>1, <2>4, <2>5, <2>6, <2>7 DEF AllWithin
<1>4. AllWithin'
  BY <1>2, <1>3, MainWithin DEF Next, Finished
<1> QED
  BY <1>1, <1>4 DEF WithinInv

-----------------------------------------------------------------------------
(* The parts of Reduction as a family of sets that share no element.       *)

NonEmpty(F) == {F[x] : x \in DOMAIN F} \ {{}}

\* The sets of F at x and y go together to y, or get lost.
Joined(F, G, x, y) ==
  /\ DOMAIN G = DOMAIN F
  /\ x \in DOMAIN F /\ y \in DOMAIN F /\ x # y
  /\ \A z \in DOMAIN F \ {x, y} : G[z] = F[z]
  /\ G[x] = {}

Disjoint(F) == \A x, y \in DOMAIN F : x # y => F[x] \cap F[y] = {}

LEMMA FamilyMerge ==
  ASSUME NEW F, NEW G, NEW x, NEW y, Joined(F, G, x, y), Disjoint(F),
         G[y] = F[x] \cup F[y]
  PROVE  \/ NonEmpty(G) = NonEmpty(F)
         \/ \E p, q \in NonEmpty(F) :
              /\ p # q
              /\ NonEmpty(G) = (NonEmpty(F) \ {p, q}) \cup {p \cup q}
<1> USE DEF Joined, Disjoint
<1>1. ASSUME NEW s
      PROVE  s \in NonEmpty(G) <=>
               s # {} /\ (s = F[x] \cup F[y] \/ \E z \in DOMAIN F \ {x, y} : s = F[z])
  BY DEF NonEmpty
<1>2. ASSUME NEW s
      PROVE  s \in NonEmpty(F) <=>
               s # {} /\ (s = F[x] \/ s = F[y] \/ \E z \in DOMAIN F \ {x, y} : s = F[z])
  BY DEF NonEmpty
<1>3. CASE F[x] = {} \/ F[y] = {}
  <2>1. \A s : s \in NonEmpty(G) <=> s \in NonEmpty(F)
    <3>1. F[x] = {} => F[x] \cup F[y] = F[y]
      OBVIOUS
    <3>2. F[y] = {} => F[x] \cup F[y] = F[x]
      OBVIOUS
    <3> QED
      BY <1>1, <1>2, <1>3, <3>1, <3>2
  <2>2. NonEmpty(G) = NonEmpty(F)
    BY <2>1
  <2> QED
    BY <2>2
<1>4. CASE F[x] # {} /\ F[y] # {}
  <2>1. F[x] \in NonEmpty(F) /\ F[y] \in NonEmpty(F) /\ F[x] # F[y]
    BY <1>4 DEF NonEmpty
  <2>2. \A z \in DOMAIN F \ {x, y} : F[z] # {} => F[z] # F[x] /\ F[z] # F[y]
    OBVIOUS
  <2>3. F[x] \cup F[y] # {}
    BY <1>4
  <2>4. \A s : s \in NonEmpty(G) <=>
                 s \in (NonEmpty(F) \ {F[x], F[y]}) \cup {F[x] \cup F[y]}
    BY <1>1, <1>2, <2>2, <2>3
  <2>5. NonEmpty(G) = (NonEmpty(F) \ {F[x], F[y]}) \cup {F[x] \cup F[y]}
    BY <2>4
  <2> QED
    BY <2>1, <2>5
<1> QED
  BY <1>3, <1>4

LEMMA FamilyLoss ==
  ASSUME NEW F, NEW G, NEW x, NEW y, Joined(F, G, x, y), Disjoint(F), G[y] = {}
  PROVE  \E p, q \in NonEmpty(F) \cup {{}} : NonEmpty(G) = NonEmpty(F) \ {p, q}
<1> USE DEF Joined, Disjoint
<1>1. F[x] \in NonEmpty(F) \cup {{}} /\ F[y] \in NonEmpty(F) \cup {{}}
  BY DEF NonEmpty
<1>2. \A z \in DOMAIN F \ {x, y} : F[z] # {} => F[z] # F[x] /\ F[z] # F[y]
  OBVIOUS
<1>3. ASSUME NEW s
      PROVE  s \in NonEmpty(G) <=> s # {} /\ \E z \in DOMAIN F \ {x, y} : s = F[z]
  BY DEF NonEmpty
<1>4. ASSUME NEW s
      PROVE  s \in NonEmpty(F) <=>
               s # {} /\ (s = F[x] \/ s = F[y] \/ \E z \in DOMAIN F \ {x, y} : s = F[z])
  BY DEF NonEmpty
<1>5. \A s : s \in NonEmpty(G) <=> s \in NonEmpty(F) \ {F[x], F[y]}
  BY <1>2, <1>3, <1>4
<1>6. NonEmpty(G) = NonEmpty(F) \ {F[x], F[y]}
  BY <1>5
<1> QED
  BY <1>1, <1>6

\* What the mapping gives Reduction for its parts.
AbsParts == {part \ {Junk} : part \in Parts} \ {{}}

\* In the fold: the results not folded yet, and what the accumulators hold.
FoldFamily ==
  [x \in ({"item"} \X Items) \cup ({"fold"} \X Locales) |->
     IF x[1] = "fold" THEN Real(localAccum[x[2]])
     ELSE IF x[2] \in Unfolded THEN {x[2]} ELSE {}]

\* In the rounds: the accumulators that were not merged into another.
RoundFamily ==
  [a \in Indices(active) |-> IF Merged(a) THEN {} ELSE Real(localeResult[a])]

PartsByPhase ==
  /\ phase = "fold" => AbsParts = NonEmpty(FoldFamily)
  /\ phase \in {"between", "round"} => AbsParts = NonEmpty(RoundFamily)
  /\ phase = "stored" => AbsParts = {Real(resultData[0])} \ {{}}

LEMMA PartsAreFamilies == TypeOK => PartsByPhase
<1> SUFFICES ASSUME TypeOK PROVE PartsByPhase
  OBVIOUS
<1>1. ASSUME phase = "fold" PROVE AbsParts = NonEmpty(FoldFamily)
  <2>1. Parts = {{i} : i \in Unfolded} \cup {ToSet(localAccum[l]) : l \in Locales}
    BY <1>1 DEF Parts
  <2>2. Unfolded \subseteq Items
    BY DEF Unfolded, TypeOK
  <2>3. \A i \in Items : {i} \ {Junk} = {i}
    BY Sets DEF Junk
  <2>4. \A i \in Items : <<"item", i>> \in DOMAIN FoldFamily
          /\ FoldFamily[<<"item", i>>] = IF i \in Unfolded THEN {i} ELSE {}
    BY DEF FoldFamily
  <2>5. \A l \in Locales : <<"fold", l>> \in DOMAIN FoldFamily
          /\ FoldFamily[<<"fold", l>>] = Real(localAccum[l])
    BY DEF FoldFamily
  <2>6. \A x \in DOMAIN FoldFamily : \/ \E i \in Items : x = <<"item", i>>
                                     \/ \E l \in Locales : x = <<"fold", l>>
    BY DEF FoldFamily
  <2>7. ASSUME NEW s
        PROVE  s \in NonEmpty(FoldFamily) <=>
                 s # {} /\ (\/ \E i \in Unfolded : s = {i}
                            \/ \E l \in Locales : s = Real(localAccum[l]))
    <3>1. NonEmpty(FoldFamily) = {FoldFamily[x] : x \in DOMAIN FoldFamily} \ {{}}
      BY DEF NonEmpty
    <3>2. ASSUME s \in NonEmpty(FoldFamily)
          PROVE  s # {} /\ (\/ \E i \in Unfolded : s = {i}
                            \/ \E l \in Locales : s = Real(localAccum[l]))
      <4>1. PICK x \in DOMAIN FoldFamily : s = FoldFamily[x] /\ s # {}
        BY <3>1, <3>2
      <4>2. CASE \E i \in Items : x = <<"item", i>>
        BY <2>4, <4>1, <4>2
      <4>3. CASE \E l \in Locales : x = <<"fold", l>>
        BY <2>5, <4>1, <4>3
      <4> QED
        BY <2>6, <4>2, <4>3
    <3>3. ASSUME NEW i \in Unfolded, s = {i} PROVE s \in NonEmpty(FoldFamily)
      BY <2>2, <2>4, <3>1, <3>3
    <3>4. ASSUME NEW l \in Locales, s = Real(localAccum[l]), s # {}
          PROVE  s \in NonEmpty(FoldFamily)
      BY <2>5, <3>1, <3>4
    <3> QED
      BY <3>2, <3>3, <3>4
  <2>8. ASSUME NEW s
        PROVE  s \in AbsParts <=>
                 s # {} /\ (\/ \E i \in Unfolded : s = {i}
                            \/ \E l \in Locales : s = Real(localAccum[l]))
    <3>1. \A part : part \in Parts <=> \/ \E i \in Unfolded : part = {i}
                                       \/ \E l \in Locales : part = ToSet(localAccum[l])
      BY <2>1
    <3>2. s \in AbsParts <=> s # {} /\ \E part \in Parts : s = part \ {Junk}
      BY DEF AbsParts
    <3>3. \A i \in Unfolded : {i} \ {Junk} = {i}
      BY <2>2, <2>3
    <3>4. \A l \in Locales : Real(localAccum[l]) = ToSet(localAccum[l]) \ {Junk}
      BY DEF Real
    <3>5. ASSUME s \in AbsParts
          PROVE  s # {} /\ (\/ \E i \in Unfolded : s = {i}
                            \/ \E l \in Locales : s = Real(localAccum[l]))
      <4>1. PICK part \in Parts : s = part \ {Junk} /\ s # {}
        BY <3>2, <3>5
      <4>2. CASE \E i \in Unfolded : part = {i}
        BY <3>3, <4>1, <4>2
      <4>3. CASE \E l \in Locales : part = ToSet(localAccum[l])
        BY <3>4, <4>1, <4>3
      <4> QED
        BY <3>1, <4>2, <4>3
    <3>6. ASSUME NEW i \in Unfolded, s = {i} PROVE s \in AbsParts
      BY <3>1, <3>2, <3>3, <3>6
    <3>7. ASSUME NEW l \in Locales, s = Real(localAccum[l]), s # {} PROVE s \in AbsParts
      BY <3>1, <3>2, <3>4, <3>7
    <3> QED
      BY <3>5, <3>6, <3>7
  <2> QED
    BY <2>7, <2>8
<1>2. ASSUME phase \in {"between", "round"} PROVE AbsParts = NonEmpty(RoundFamily)
  <2>1. Parts = {ToSet(localeResult[a]) : a \in {b \in Indices(active) : ~Merged(b)}}
    BY <1>2 DEF Parts
  <2>2. ASSUME NEW s
        PROVE  s \in AbsParts <=>
                 s # {} /\ \E a \in Indices(active) : ~Merged(a) /\ s = Real(localeResult[a])
    BY <2>1 DEF AbsParts, Real
  <2>3. ASSUME NEW s
        PROVE  s \in NonEmpty(RoundFamily) <=>
                 s # {} /\ \E a \in Indices(active) : ~Merged(a) /\ s = Real(localeResult[a])
    BY DEF NonEmpty, RoundFamily
  <2> QED
    BY <2>2, <2>3
<1>3. ASSUME phase = "stored" PROVE AbsParts = {Real(resultData[0])} \ {{}}
  <2>1. Parts = {ToSet(resultData[0])}
    BY <1>3 DEF Parts
  <2> QED
    BY <2>1 DEF AbsParts, Real
<1> QED
  BY <1>1, <1>2, <1>3 DEF PartsByPhase

LEMMA PartsAreFamiliesNext == TypeOK' => PartsByPhase'
BY PartsAreFamilies, PTL

\* The steps of Reduction, by what they do to what the mapping gives it.
Stutters ==
  AbsParts' = AbsParts /\ (Lossy' <=> Lossy) /\ Verdict' = Verdict

Combines ==
  /\ Verdict = "open" /\ Verdict' = "open" /\ (Lossy' <=> Lossy)
  /\ \E p, q \in AbsParts : p # q /\ AbsParts' = (AbsParts \ {p, q}) \cup {p \cup q}

Fails ==
  /\ Verdict = "open" /\ Verdict' = "open" /\ Lossy'
  /\ \E p, q \in AbsParts \cup {{}} : AbsParts' = AbsParts \ {p, q}

Finishes ==
  /\ Verdict = "open" /\ AbsParts' = AbsParts /\ (Lossy' <=> Lossy)
  /\ \A p, q \in AbsParts : p = q
  /\ \/ Verdict' = IF AbsParts = {} THEN "none" ELSE "valid"
     \/ Lossy /\ Verdict' \in {"none", "valid"}

LEMMA AbstractSteps ==
  ASSUME Stutters \/ Combines \/ Fails \/ Finishes
  PROVE  [Abstract!Next]_(Abstract!vars)
<1>1. CASE Stutters
  <2>1. UNCHANGED Abstract!vars
    BY <1>1 DEF Stutters, AbsParts, Lossy, Abstract!vars
  <2> QED
    BY <2>1
<1>2. CASE Combines
  <2>1. Abstract!Combine
    BY <1>2 DEF Combines, AbsParts, Lossy, Abstract!Combine
  <2> QED
    BY <2>1 DEF Abstract!Next
<1>3. CASE Fails
  <2>1. Abstract!Fail
    BY <1>3 DEF Fails, AbsParts, Lossy, Abstract!Fail
  <2> QED
    BY <2>1 DEF Abstract!Next
<1>4. CASE Finishes
  <2>1. Abstract!Finish
    BY <1>4 DEF Finishes, AbsParts, Lossy, Abstract!Finish
  <2> QED
    BY <2>1 DEF Abstract!Next
<1> QED
  BY <1>1, <1>2, <1>3, <1>4

-----------------------------------------------------------------------------
(* Every step of the phase is a step of Reduction, or none.                *)

LEMMA VerdictOpen == phase # "stored" => Verdict = "open"
BY DEF Verdict

LEMMA VerdictOpenNext == (phase # "stored" => Verdict = "open")'
BY VerdictOpen, PTL

\* The index that a fold takes was unfolded if its result is one.
LEMMA UnfoldedAfter ==
  ASSUME WithinInv, NEW l \in Locales, NEW i \in Items, Takes(l, i)
  PROVE  /\ Unfolded' = Unfolded \ {i}
         /\ i \in Unfolded <=> resultOk[i]
<1> USE DEF WithinInv, IInv, TypeOK
<1>1. /\ i \in todo[l] /\ todo' = [todo EXCEPT ![l] = @ \ {i}] /\ resultOk' = resultOk
  BY DEF Takes, result
<1>2. \A k \in Locales \ {l} : i \notin todo[k]
  <2>1. \A k \in Locales : todo[k] \subseteq LocaleRange(k, NumLocales, NItems)
    BY DEF Shape
  <2>2. \A k \in Locales : k # l => LocaleRange(k, NumLocales, NItems)
                                      \cap LocaleRange(l, NumLocales, NItems) = {}
    BY LocaleRangesPartition, TreeLocalesAssumption, TreeItemsAssumption
       DEF IsPartition, Locales
  <2> QED
    BY <1>1, <2>1, <2>2
<1>3. ASSUME NEW j
      PROVE  j \in Unfolded <=> \E k \in Locales : j \in todo[k] /\ resultOk[j]
  BY DEF Unfolded
<1>4. ASSUME NEW j
      PROVE  j \in Unfolded' <=> \E k \in Locales : j \in todo'[k] /\ resultOk[j]
  BY <1>1 DEF Unfolded
<1>5. \A k \in Locales : todo'[k] = todo[k] \ {i}
  BY <1>1, <1>2
<1>6. \A j : j \in Unfolded' <=> j \in Unfolded \ {i}
  BY <1>3, <1>4, <1>5
<1>7. i \in Unfolded <=> resultOk[i]
  BY <1>1, <1>3
<1> QED
  BY <1>6, <1>7

(* Before a round ends every result is in one part at most.                *)
LEMMA FoldDisjoint ==
  ASSUME WithinInv, phase = "fold"
  PROVE  Disjoint(FoldFamily)
<1> USE DEF WithinInv, IInv, TypeOK
<1>1. \A l \in Locales : Real(localAccum[l]) \subseteq Successes(l) \ todo[l]
  BY DEF AllWithin, FoldWithin
<1>2. \A k, l \in Locales : k # l =>
        LocaleRange(k, NumLocales, NItems) \cap LocaleRange(l, NumLocales, NItems) = {}
  BY LocaleRangesPartition, TreeLocalesAssumption, TreeItemsAssumption
     DEF IsPartition, Locales
<1>3. \A l \in Locales : /\ todo[l] \subseteq LocaleRange(l, NumLocales, NItems)
                         /\ Successes(l) \subseteq LocaleRange(l, NumLocales, NItems)
  BY DEF Shape, Successes
<1>4. \A i \in Unfolded, l \in Locales : i \notin Real(localAccum[l])
  <2> SUFFICES ASSUME NEW i \in Unfolded, NEW l \in Locales, i \in Real(localAccum[l])
               PROVE  FALSE
    OBVIOUS
  <2>1. PICK k \in Locales : i \in todo[k]
    BY DEF Unfolded
  <2>2. i \in Successes(l) /\ i \notin todo[l]
    BY <1>1
  <2> QED
    BY <1>2, <1>3, <2>1, <2>2
<1>5. \A k, l \in Locales : k # l => Real(localAccum[k]) \cap Real(localAccum[l]) = {}
  BY <1>1, <1>2, <1>3
<1> SUFFICES ASSUME NEW x \in DOMAIN FoldFamily, NEW y \in DOMAIN FoldFamily, x # y
             PROVE  FoldFamily[x] \cap FoldFamily[y] = {}
  BY DEF Disjoint
<1>6. ASSUME NEW z \in DOMAIN FoldFamily
      PROVE  \/ \E i \in Items : /\ z = <<"item", i>>
                                 /\ FoldFamily[z] = IF i \in Unfolded THEN {i} ELSE {}
             \/ \E l \in Locales : z = <<"fold", l>> /\ FoldFamily[z] = Real(localAccum[l])
  <2>1. \A i \in Items : FoldFamily[<<"item", i>>] = IF i \in Unfolded THEN {i} ELSE {}
    BY DEF FoldFamily
  <2>2. \A l \in Locales : FoldFamily[<<"fold", l>>] = Real(localAccum[l])
    BY DEF FoldFamily
  <2>3. (\E i \in Items : z = <<"item", i>>) \/ (\E l \in Locales : z = <<"fold", l>>)
    BY DEF FoldFamily
  <2> QED
    BY <2>1, <2>2, <2>3
<1> HIDE DEF FoldFamily
<1>7. CASE \E i \in Items : /\ x = <<"item", i>>
                            /\ FoldFamily[x] = IF i \in Unfolded THEN {i} ELSE {}
  <2>1. PICK i \in Items : /\ x = <<"item", i>>
                           /\ FoldFamily[x] = IF i \in Unfolded THEN {i} ELSE {}
    BY <1>7
  <2>2. CASE \E j \in Items : /\ y = <<"item", j>>
                              /\ FoldFamily[y] = IF j \in Unfolded THEN {j} ELSE {}
    BY <2>1, <2>2
  <2>3. CASE \E l \in Locales : y = <<"fold", l>> /\ FoldFamily[y] = Real(localAccum[l])
    BY <1>4, <2>1, <2>3
  <2> QED
    BY <1>6, <2>2, <2>3
<1>8. CASE \E l \in Locales : x = <<"fold", l>> /\ FoldFamily[x] = Real(localAccum[l])
  <2>1. PICK l \in Locales : x = <<"fold", l>> /\ FoldFamily[x] = Real(localAccum[l])
    BY <1>8
  <2>2. CASE \E j \in Items : /\ y = <<"item", j>>
                              /\ FoldFamily[y] = IF j \in Unfolded THEN {j} ELSE {}
    BY <1>4, <2>1, <2>2
  <2>3. CASE \E k \in Locales : y = <<"fold", k>> /\ FoldFamily[y] = Real(localAccum[k])
    BY <1>5, <2>1, <2>3
  <2> QED
    BY <1>6, <2>2, <2>3
<1> QED
  BY <1>6, <1>7, <1>8

LEMMA FoldRefines ==
  ASSUME WithinInv, WithinInv', NEW l \in Locales, SkipFailed(l) \/ Seed(l) \/ FoldStep(l)
  PROVE  Stutters \/ Combines \/ Fails
<1> USE DEF WithinInv, IInv
<1>1. PICK i \in Items :
           /\ Takes(l, i)
           /\ \/ /\ ~resultOk[i]
                 /\ localAccum'[l] = localAccum[l] /\ (first'[l] <=> first[l])
                 /\ UNCHANGED calls
              \/ /\ resultOk[i] /\ first[l] /\ ~first'[l]
                 /\ localAccum'[l] = <<i>>
                 /\ UNCHANGED calls
              \/ /\ resultOk[i] /\ ~first[l] /\ ~first'[l]
                 /\ localAccum'[l] = localAccum[l] \o <<i>>
                 /\ UNCHANGED calls
              \/ /\ resultOk[i] /\ ~first[l] /\ ~first'[l]
                 /\ Real(localAccum'[l]) = {} /\ Lossy'
  BY FoldOutcome
<1> DEFINE F == FoldFamily
           G == FoldFamily'
           x == <<"item", i>>
           y == <<"fold", l>>
<1>2. phase = "fold" /\ phase' = "fold"
  BY <1>1 DEF Takes
<1>3. AbsParts = NonEmpty(F) /\ AbsParts' = NonEmpty(G)
  BY <1>2, PartsAreFamilies, PartsAreFamiliesNext DEF PartsByPhase, NonEmpty
<1>4. Verdict = "open" /\ Verdict' = "open"
  BY <1>2, VerdictOpen, VerdictOpenNext
<1>5. Unfolded' = Unfolded \ {i} /\ (i \in Unfolded <=> resultOk[i])
  BY <1>1, UnfoldedAfter
<1>6. UNCHANGED calls => (Lossy' <=> Lossy)
  BY DEF calls, Lossy
<1>7. /\ DOMAIN G = DOMAIN F /\ x \in DOMAIN F /\ y \in DOMAIN F /\ x # y
      /\ F[x] = (IF resultOk[i] THEN {i} ELSE {}) /\ G[x] = {}
      /\ F[y] = Real(localAccum[l]) /\ G[y] = Real(localAccum'[l])
  BY <1>5 DEF FoldFamily
<1>8. \A z \in DOMAIN F \ {x, y} : G[z] = F[z]
  <2> TAKE z \in DOMAIN F \ {x, y}
  <2>1. CASE \E j \in Items : z = <<"item", j>>
    BY <1>5, <2>1 DEF FoldFamily
  <2>2. CASE \E k \in Locales : z = <<"fold", k>>
    <3>1. PICK k \in Locales : z = <<"fold", k>>
      BY <2>2
    <3>2. localAccum'[k] = localAccum[k]
      BY <1>1, <3>1 DEF Takes
    <3> QED
      BY <3>1, <3>2 DEF FoldFamily
  <2> QED
    BY <2>1, <2>2 DEF FoldFamily
<1>9. Disjoint(F)
  BY <1>2, FoldDisjoint
<1> HIDE DEF F, G
<1>10. Joined(F, G, x, y)
  BY <1>7, <1>8 DEF Joined
<1>11. localAccum[l] \in Values /\ <<i>> \in Values /\ Real(<<i>>) = {i}
  BY OneOnce, RealValues DEF TypeOK
<1>12. first[l] => Real(localAccum[l]) = {}
  BY <1>2, RealValues DEF AllWithin, FoldWithin
<1>13. CASE UNCHANGED calls /\ Real(localAccum'[l]) = F[x] \cup F[y]
  <2>1. \/ NonEmpty(G) = NonEmpty(F)
        \/ \E p, q \in NonEmpty(F) :
             /\ p # q
             /\ NonEmpty(G) = (NonEmpty(F) \ {p, q}) \cup {p \cup q}
    BY <1>7, <1>9, <1>10, <1>13, FamilyMerge
  <2> QED
    BY <1>3, <1>4, <1>6, <1>13, <2>1 DEF Stutters, Combines
<1>14. CASE Lossy' /\ Real(localAccum'[l]) = {}
  <2>1. \E p, q \in NonEmpty(F) \cup {{}} : NonEmpty(G) = NonEmpty(F) \ {p, q}
    BY <1>7, <1>9, <1>10, <1>14, FamilyLoss
  <2> QED
    BY <1>3, <1>4, <1>14, <2>1 DEF Fails
<1>15. Real(localAccum[l] \o <<i>>) = Real(localAccum[l]) \cup {i}
  BY <1>11, RealValues
<1> QED
  BY <1>1, <1>7, <1>11, <1>12, <1>13, <1>14, <1>15

LEMMA ResiduesApart ==
  ASSUME NEW n, NEW a, NEW b, a # b
  PROVE  Residue(a, n) \cap Residue(b, n) = {}
<1> SUFFICES ASSUME NEW i, i \in Residue(a, n), i \in Residue(b, n) PROVE FALSE
  OBVIOUS
<1>1. PICK k \in Locales : k % n = a /\ i \in Successes(k)
  BY ResidueMembers
<1>2. PICK l \in Locales : l % n = b /\ i \in Successes(l)
  BY ResidueMembers
<1>3. k # l
  BY <1>1, <1>2
<1> QED
  BY <1>1, <1>2, <1>3, SlicesApart

(* In a round every result is in one accumulator that was not merged.      *)
LEMMA RoundDisjoint ==
  ASSUME WithinInv, phase = "round"
  PROVE  Disjoint(RoundFamily)
<1>1. \A a \in Indices(active) : Real(localeResult[a]) \subseteq Due(a)
  BY DEF WithinInv, AllWithin, SlotWithin
<1>2. Half \in Nat /\ IInv /\ Shape
  BY DEF WithinInv, IInv, TypeOK, Half
<1>3. ASSUME NEW a \in Indices(active), NEW i \in Due(a)
      PROVE  \/ i \in Residue(a, active)
             \/ Halved(a) /\ i \in Residue(a + Half, active)
  <2>1. CASE Halved(a)
    <3>1. Residue(a, Half) = Residue(a, active) \cup Residue(Partner(a), active)
      BY <1>2, <2>1, RoundResiduesOf DEF Halved
    <3> QED
      BY <1>3, <2>1, <3>1 DEF Due, Partner
  <2>2. CASE ~Halved(a)
    BY <1>3, <2>2 DEF Due
  <2> QED
    BY <2>1, <2>2
<1>4. \A a \in Indices(active) : Halved(a) => Merged(a + Half) /\ a \in Nat
  BY <1>2 DEF Halved, Merged, Indices
<1>5. ASSUME NEW a \in Indices(active), NEW b \in Indices(active), a # b,
             ~Merged(a), ~Merged(b), NEW i \in Due(a), i \in Due(b)
      PROVE  FALSE
  <2>1. CASE i \in Residue(a, active) /\ i \in Residue(b, active)
    BY <1>5, <2>1, ResiduesApart
  <2>2. CASE i \in Residue(a, active) /\ Halved(b) /\ i \in Residue(b + Half, active)
    <3>1. a # b + Half
      BY <1>4, <1>5, <2>2
    <3> QED
      BY <2>2, <3>1, ResiduesApart
  <2>3. CASE Halved(a) /\ i \in Residue(a + Half, active) /\ i \in Residue(b, active)
    <3>1. b # a + Half
      BY <1>4, <1>5, <2>3
    <3> QED
      BY <2>3, <3>1, ResiduesApart
  <2>4. CASE /\ Halved(a) /\ i \in Residue(a + Half, active)
             /\ Halved(b) /\ i \in Residue(b + Half, active)
    <3>1. a + Half # b + Half
      BY <1>2, <1>4, <1>5, <2>4
    <3> QED
      BY <2>4, <3>1, ResiduesApart
  <2> QED
    BY <1>3, <1>5, <2>1, <2>2, <2>3, <2>4
<1> SUFFICES ASSUME NEW a \in Indices(active), NEW b \in Indices(active), a # b
             PROVE  RoundFamily[a] \cap RoundFamily[b] = {}
  BY DEF Disjoint, RoundFamily
<1>6. CASE Merged(a) \/ Merged(b)
  BY <1>6 DEF RoundFamily
<1>7. CASE ~Merged(a) /\ ~Merged(b)
  <2>1. RoundFamily[a] = Real(localeResult[a]) /\ RoundFamily[b] = Real(localeResult[b])
    BY <1>7 DEF RoundFamily
  <2> QED
    BY <1>1, <1>5, <1>7, <2>1
<1> QED
  BY <1>6, <1>7

(* What locale l's task does to the accumulators as it ends: its partner's *)
(* is merged, and the others stay as they are.                             *)
LEMMA TaskEnds ==
  ASSUME WithinInv, phase = "round", NEW l \in busy, OnlyMine(l), busy' = busy \ {l}
  PROVE  /\ Joined(RoundFamily, RoundFamily', Partner(l), l)
         /\ RoundFamily[l] = Real(localeResult[l])
         /\ RoundFamily[Partner(l)] = Real(localeResult[Partner(l)])
         /\ RoundFamily'[l] = Real(localeResult'[l])
<1>1. IInv /\ Shape /\ l \in Indices(Half) /\ Half \in Nat
  BY DEF WithinInv, IInv, RoundShape, TypeOK, Half
<1>2. /\ l \in Indices(active) /\ Partner(l) \in Indices(active)
      /\ l \in Locales /\ Partner(l) \in Locales
  BY <1>1, RoundResiduesOf
<1>3. /\ l \in 0 .. Half - 1 /\ Partner(l) = l + Half /\ Partner(l) # l
  BY <1>1 DEF Indices, Partner
<1>4. phase' = "round" /\ active' = active /\ Half' = Half
  BY DEF OnlyMine, Half
<1>5. \A a \in Indices(active) : a # Partner(l) => (Merged(a)' <=> Merged(a))
  BY <1>1, <1>3, <1>4 DEF Merged, Indices
<1>6. /\ \A a \in Indices(active) : a = Partner(l) => Merged(a)' /\ ~Merged(a)
      /\ ~Merged(l) /\ ~Merged(l)'
  <2>1. \A a : a = Partner(l) => a \in Half .. 2 * Half - 1 /\ a - Half = l
    BY <1>1, <1>3
  <2>2. l \notin Half .. 2 * Half - 1
    BY <1>1, <1>3
  <2>3. l \in busy /\ l \notin busy'
    OBVIOUS
  <2> QED
    BY <1>4, <2>1, <2>2, <2>3 DEF Merged
<1>7. \A a \in Indices(active) \ {l} : localeResult'[a] = localeResult[a]
  <2>1. Indices(active) \subseteq Locales
    BY <1>1, TreeLocalesAssumption DEF IInv, TypeOK, Indices, Locales
  <2> QED
    BY <2>1 DEF OnlyMine
<1>8. DOMAIN RoundFamily' = DOMAIN RoundFamily /\ DOMAIN RoundFamily = Indices(active)
  BY <1>4 DEF RoundFamily
<1>9. \A a \in Indices(active) :
        RoundFamily[a] = IF Merged(a) THEN {} ELSE Real(localeResult[a])
  BY DEF RoundFamily
<1>10. \A a \in Indices(active) :
         RoundFamily'[a] = IF Merged(a)' THEN {} ELSE Real(localeResult'[a])
  BY <1>4 DEF RoundFamily
<1>11. \A a \in Indices(active) \ {Partner(l), l} : RoundFamily'[a] = RoundFamily[a]
  BY <1>5, <1>7, <1>9, <1>10
<1>12. RoundFamily'[Partner(l)] = {}
  BY <1>2, <1>6, <1>10
<1>13. Joined(RoundFamily, RoundFamily', Partner(l), l)
  BY <1>2, <1>3, <1>8, <1>11, <1>12 DEF Joined
<1> QED
  BY <1>2, <1>6, <1>9, <1>10, <1>13

(* A task that ends with both values combined, or with none and c_reduce   *)
(* having gone wrong.                                                      *)
LEMMA TaskEndRefines ==
  ASSUME WithinInv, WithinInv', phase = "round", NEW l \in busy, OnlyMine(l),
         busy' = busy \ {l}, UNCHANGED calls,
         \/ Real(localeResult'[l]) = Real(localeResult[Partner(l)]) \cup Real(localeResult[l])
         \/ Lossy /\ Real(localeResult'[l]) = {}
  PROVE  Stutters \/ Combines \/ Fails
<1> DEFINE F == RoundFamily
           G == RoundFamily'
<1>1. phase' = "round"
  BY DEF OnlyMine
<1>2. AbsParts = NonEmpty(F) /\ AbsParts' = NonEmpty(G)
  BY <1>1, PartsAreFamilies, PartsAreFamiliesNext
     DEF PartsByPhase, NonEmpty, WithinInv, IInv
<1>3. Verdict = "open" /\ Verdict' = "open" /\ (Lossy' <=> Lossy)
  BY <1>1, VerdictOpen, VerdictOpenNext DEF Lossy, calls
<1>4. /\ Joined(F, G, Partner(l), l) /\ Disjoint(F)
      /\ F[l] = Real(localeResult[l]) /\ F[Partner(l)] = Real(localeResult[Partner(l)])
      /\ G[l] = Real(localeResult'[l])
  BY TaskEnds, RoundDisjoint
<1> HIDE DEF F, G
<1>5. CASE G[l] = F[Partner(l)] \cup F[l]
  <2>1. \/ NonEmpty(G) = NonEmpty(F)
        \/ \E p, q \in NonEmpty(F) :
             /\ p # q
             /\ NonEmpty(G) = (NonEmpty(F) \ {p, q}) \cup {p \cup q}
    BY <1>4, <1>5, FamilyMerge
  <2> QED
    BY <1>2, <1>3, <2>1 DEF Stutters, Combines
<1>6. CASE Lossy /\ G[l] = {}
  <2>1. \E p, q \in NonEmpty(F) \cup {{}} : NonEmpty(G) = NonEmpty(F) \ {p, q}
    BY <1>4, <1>6, FamilyLoss
  <2> QED
    BY <1>2, <1>3, <1>6, <2>1 DEF Fails
<1> QED
  BY <1>4, <1>5, <1>6

LEMMA RoundRefines ==
  ASSUME WithinInv, WithinInv', NEW l \in Locales, NoPartner(l) \/ Adopt(l) \/ WriteBack(l)
  PROVE  Stutters \/ Combines \/ Fails
<1>1. /\ phase = "round" /\ l \in busy /\ l \in Indices(Half) /\ busy' = busy \ {l}
      /\ TypeOK /\ IInv /\ Shape /\ UNCHANGED calls
  BY DEF NoPartner, Adopt, WriteBack, InRound, WithinInv, IInv, RoundShape, TypeOK
<1>2. OnlyMine(l)
  <2>1. CASE NoPartner(l)
    BY <1>1, <2>1 DEF NoPartner, OnlyMine, round, accums, TypeOK
  <2>2. CASE Adopt(l)
    BY <1>1, <2>2 DEF Adopt, OnlyMine, round, TypeOK
  <2>3. CASE WriteBack(l)
    BY <1>1, <2>3 DEF WriteBack, OnlyMine, TypeOK
  <2> QED
    BY <2>1, <2>2, <2>3
<1>3. SlotWithin(l) /\ SlotWithin(Partner(l))
  BY <1>1, RoundResiduesOf DEF WithinInv, AllWithin
<1>4. \/ Real(localeResult'[l]) = Real(localeResult[Partner(l)]) \cup Real(localeResult[l])
      \/ Lossy /\ Real(localeResult'[l]) = {}
  <2>1. CASE NoPartner(l)
    BY <1>3, <2>1 DEF NoPartner, SlotWithin, accums
  <2>2. CASE Adopt(l)
    <3>1. localeResult'[l] = localeResult[Partner(l)] /\ ~localeHasResult[l]
      BY <1>1, <2>2 DEF Adopt, TypeOK
    <3> QED
      BY <1>3, <3>1 DEF SlotWithin
  <2>3. CASE WriteBack(l)
    <3>1. l \in reduced /\ localeResult'[l] = tmpBuf[l]
      BY <1>1, <2>3 DEF WriteBack, TypeOK
    <3>2. /\ tmpBuf[l] \in Outputs(localeResult[l], localeResult[Partner(l)])
          /\ Lossy \/ tmpBuf[l] = localeResult[l] \o localeResult[Partner(l)]
      BY <1>1, <3>1 DEF IInv, ReducesCurrentSlots, WithinInv, AllWithin, TmpWithin
    <3>3. localeResult[l] \in Values /\ localeResult[Partner(l)] \in Values
      BY <1>1, RoundResiduesOf DEF TypeOK
    <3>4. Real(localeResult[l] \o localeResult[Partner(l)])
            = Real(localeResult[l]) \cup Real(localeResult[Partner(l)])
      BY <3>3, RealValues
    <3> QED
      BY <3>1, <3>2, <3>4, RealValues DEF Outputs
  <2> QED
    BY <2>1, <2>2, <2>3
<1> QED
  BY <1>1, <1>2, <1>4, TaskEndRefines

(* Steps that leave the parts as they are.                                 *)
LEMMA PublishRefines ==
  ASSUME WithinInv, WithinInv', NEW l \in Locales, Publish(l)
  PROVE  Stutters
<1>1. /\ phase = "fold" /\ phase' = "fold"
      /\ UNCHANGED <<localAccum, todo, resultOk, reduceFailed, garbled>>
  BY DEF Publish, locals, result, calls
<1>2. Unfolded' = Unfolded
  BY <1>1 DEF Unfolded
<1>3. FoldFamily' = FoldFamily
  BY <1>1, <1>2 DEF FoldFamily
<1>4. AbsParts' = AbsParts
  BY <1>1, <1>3, PartsAreFamilies, PartsAreFamiliesNext
     DEF PartsByPhase, NonEmpty, WithinInv, IInv
<1> QED
  BY <1>1, <1>4, VerdictOpen, VerdictOpenNext DEF Stutters, Lossy

LEMMA ReduceRefines ==
  ASSUME WithinInv, WithinInv', [Next]_vars, NEW l \in Locales, Reduce(l)
  PROVE  Stutters \/ Fails
<1>1. /\ phase = "round" /\ phase' = "round"
      /\ UNCHANGED <<localeResult, active, busy>>
  BY DEF Reduce, InRound, accums
<1>2. RoundFamily' = RoundFamily
  BY <1>1 DEF RoundFamily, Merged, Half
<1>3. AbsParts' = AbsParts
  <2> DEFINE F == RoundFamily
             G == RoundFamily'
  <2>1. AbsParts = NonEmpty(F) /\ AbsParts' = NonEmpty(G)
    BY <1>1, PartsAreFamilies, PartsAreFamiliesNext
       DEF PartsByPhase, NonEmpty, WithinInv, IInv
  <2> QED
    BY <1>2, <2>1
<1>4. Verdict = "open" /\ Verdict' = "open" /\ (Lossy => Lossy')
  BY <1>1, VerdictOpen, VerdictOpenNext, LossyKept
<1>5. {} \notin AbsParts
  BY DEF AbsParts
<1>6. AbsParts' = AbsParts \ {{}, {}}
  BY <1>3, <1>5
<1>7. CASE Lossy'
  BY <1>4, <1>6, <1>7 DEF Fails
<1>8. CASE ~Lossy'
  BY <1>3, <1>4, <1>8 DEF Stutters
<1> QED
  BY <1>7, <1>8

LEMMA MainRefines ==
  ASSUME WithinInv, WithinInv', MainStep
  PROVE  Stutters \/ Finishes
<1> USE DEF WithinInv, IInv, TypeOK
<1>1. Lossy' <=> Lossy
  BY DEF MainStep, EndFold, StartRound, EndRound, StoreSlot0, Lossy, calls
<1>2. phase # "stored" /\ Verdict = "open"
  BY DEF MainStep, EndFold, StartRound, EndRound, StoreSlot0, Verdict
<1>3. ASSUME phase' # "stored", Parts' = Parts PROVE Stutters
  <2>1. AbsParts' = AbsParts
    BY <1>3 DEF AbsParts
  <2> QED
    BY <1>1, <1>2, <1>3, <2>1, VerdictOpenNext DEF Stutters
<1>4. CASE EndFold
  <2>1. /\ phase = "fold" /\ phase' = "between" /\ busy = {}
        /\ active' = active /\ localeResult' = localeResult /\ active = NumLocales
    BY <1>4 DEF EndFold, Shape, accums
  <2>2. \A l \in Locales : todo[l] = {} /\ localeResult[l] = localAccum[l]
    BY <2>1 DEF AllWithin, FoldWithin
  <2>3. Unfolded = {}
    BY <2>2 DEF Unfolded
  <2>4. Parts = {ToSet(localeResult[l]) : l \in Locales}
    BY <2>1, <2>2, <2>3 DEF Parts
  <2>5. \A a : ~Merged(a)'
    BY <2>1 DEF Merged
  <2>6. Parts' = {ToSet(localeResult[l]) : l \in Locales}
    BY <2>1, <2>5 DEF Parts, Locales
  <2> QED
    BY <1>3, <2>1, <2>4, <2>6
<1>5. CASE StartRound
  <2>1. /\ phase = "between" /\ phase' = "round" /\ busy' = Indices(Half)
        /\ active' = active /\ localeResult' = localeResult /\ Half' = Half /\ Half \in Nat
    BY <1>5 DEF StartRound, accums, Half
  <2>2. \A a : ~Merged(a) /\ ~Merged(a)'
    BY <2>1 DEF Merged, Indices
  <2>3. Parts = {ToSet(localeResult[a]) : a \in {b \in Indices(active) : TRUE}}
    BY <2>1, <2>2 DEF Parts
  <2>4. Parts' = {ToSet(localeResult[a]) : a \in {b \in Indices(active) : TRUE}}
    BY <2>1, <2>2 DEF Parts
  <2> QED
    BY <1>3, <2>1, <2>3, <2>4
<1>6. CASE EndRound
  <2>1. /\ phase = "round" /\ phase' = "between" /\ busy = {}
        /\ localeResult' = localeResult
    BY <1>6 DEF EndRound, accums
  <2>2. active' = Half /\ Half \in Nat /\ active = 2 * Half
    BY <1>6, Halving, TreeLocalesAssumption DEF EndRound, Shape, Half
  <2>3. \A a \in Indices(active) : ~Merged(a) <=> a \in Indices(Half)
    BY <2>1, <2>2 DEF Merged, Indices
  <2>4. {b \in Indices(active) : ~Merged(b)} = Indices(Half)
    <3>1. Indices(Half) \subseteq Indices(active)
      BY <2>2 DEF Indices
    <3> QED
      BY <2>3, <3>1
  <2>5. Parts = {ToSet(localeResult[a]) : a \in Indices(Half)}
    BY <2>1, <2>4 DEF Parts
  <2>6. \A a : ~Merged(a)'
    BY <2>1 DEF Merged
  <2>7. Parts' = {ToSet(localeResult[a]) : a \in Indices(Half)}
    BY <2>1, <2>2, <2>6 DEF Parts
  <2> QED
    BY <1>3, <2>1, <2>5, <2>7
<1>7. CASE StoreSlot0
  <2>1. /\ phase = "between" /\ phase' = "stored" /\ active = 1
        /\ resultData'[0] = localeResult[0] /\ resultOk'[0] = localeHasResult[0]
    BY <1>7, Sets DEF StoreSlot0
  <2>2. Indices(active) = {0}
    BY <2>1 DEF Indices
  <2>3. \A a : ~Merged(a)
    BY <2>1 DEF Merged
  <2>4. Parts = {ToSet(localeResult[0])}
    BY <2>1, <2>2, <2>3 DEF Parts
  <2>5. Parts' = {ToSet(localeResult[0])}
    BY <2>1 DEF Parts
  <2>6. AbsParts = {Real(localeResult[0])} \ {{}} /\ AbsParts' = AbsParts
    BY <2>4, <2>5 DEF AbsParts, Real
  <2>7. Verdict' = IF localeHasResult[0] THEN "valid" ELSE "none"
    BY <2>1 DEF Verdict
  <2>8. SlotWithin(0)
    BY <2>1, <2>2 DEF AllWithin
  <2>9. \/ Verdict' = IF AbsParts = {} THEN "none" ELSE "valid"
        \/ Lossy /\ Verdict' \in {"none", "valid"}
    BY <2>6, <2>7, <2>8 DEF SlotWithin
  <2> QED
    BY <1>1, <1>2, <2>6, <2>9 DEF Finishes
<1> QED
  BY <1>4, <1>5, <1>6, <1>7 DEF MainStep

LEMMA InitRefines == Init => Abstract!Init
<1> SUFFICES ASSUME Init PROVE Abstract!Init
  OBVIOUS
<1>1. /\ phase = "fold" /\ todo = [l \in Locales |-> LocaleRange(l, NumLocales, NItems)]
      /\ localAccum = [l \in Locales |-> NoOutput]
      /\ ~reduceFailed /\ ~garbled
      /\ succeeded = {i \in Items : resultOk[i]}
  BY DEF Init
<1>2. Unfolded = succeeded
  <2>1. \A i \in Items : \E l \in Locales : i \in LocaleRange(l, NumLocales, NItems)
    BY LocaleRangesPartition, TreeLocalesAssumption, TreeItemsAssumption
       DEF IsPartition, Items, Locales
  <2>2. \A i : i \in Unfolded <=> \E l \in Locales : i \in todo[l] /\ resultOk[i]
    BY DEF Unfolded
  <2>3. \A l \in Locales : todo[l] \subseteq Items
    BY <1>1, Sets
  <2> QED
    BY <1>1, <2>1, <2>2, <2>3
<1>3. ASSUME NEW s
      PROVE  s \in AbsParts <=> \E i \in succeeded : s = {i}
  <2>1. Parts = {{i} : i \in succeeded} \cup {ToSet(localAccum[l]) : l \in Locales}
    BY <1>1, <1>2 DEF Parts
  <2>2. \A l \in Locales : ToSet(localAccum[l]) = {}
    BY <1>1 DEF ToSet, NoOutput
  <2>3. \A i \in succeeded : {i} \ {Junk} = {i}
    BY <1>1, Sets DEF Junk
  <2>4. s \in AbsParts <=> s # {} /\ \E part \in Parts : s = part \ {Junk}
    BY DEF AbsParts
  <2>5. ASSUME s \in AbsParts PROVE \E i \in succeeded : s = {i}
    <3>1. PICK part \in Parts : s = part \ {Junk} /\ s # {}
      BY <2>4, <2>5
    <3>2. part # {}
      BY <3>1
    <3>3. PICK i \in succeeded : part = {i}
      BY <2>1, <2>2, <3>2
    <3> QED
      BY <2>3, <3>1, <3>3
  <2>6. ASSUME NEW i \in succeeded, s = {i} PROVE s \in AbsParts
    BY <2>1, <2>3, <2>4, <2>6
  <2> QED
    BY <2>5, <2>6
<1>4. AbsParts = {{i} : i \in succeeded}
  BY <1>3
<1>5. Verdict = "open" /\ succeeded \in SUBSET Items
  BY <1>1, VerdictOpen
<1> QED
  BY <1>1, <1>4, <1>5 DEF AbsParts, Abstract!Init

(* For every number of locales that is a power of two, the phase is a      *)
(* parallel reduction: each step combines two parts or none, only a        *)
(* c_reduce that fails or cannot read its arguments loses any, and the     *)
(* phase ends with one part, which slot 0 has.  (That it ends,             *)
(* ImplementsReduction's other half, is liveness.)                         *)
THEOREM TreeRefinesReduction ==
  ASSUME PowerOfTwo(NumLocales)
  PROVE  Spec => Abstract!SafeSpec
<1>1. ASSUME WithinInv, WithinInv', [Next]_vars PROVE [Abstract!Next]_(Abstract!vars)
  <2>1. ASSUME NEW l \in Locales, TaskStep(l) PROVE Stutters \/ Combines \/ Fails
    BY <1>1, <2>1, FoldRefines, PublishRefines, RoundRefines, ReduceRefines DEF TaskStep
  <2>2. ASSUME UNCHANGED vars PROVE Stutters
    BY <2>2 DEF Stutters, AbsParts, Parts, Merged, Half, Unfolded, Verdict, Lossy,
       vars, fixed, locals, round, accums, result, calls
  <2> QED
    BY <1>1, <2>1, <2>2, MainRefines, AbstractSteps DEF Next, Finished
<1> QED
  BY <1>1, InitRefines, InitWithin, StepWithin, PTL DEF Spec, SafeSpec, Abstract!SafeSpec

-----------------------------------------------------------------------------
(* The order of the results.                                               *)

\* A fold takes the indices of its slice in order.
FoldOrder ==
  phase = "fold" =>
    \A l \in Locales : \A i \in LocaleRange(l, NumLocales, NItems) \ todo[l] :
      \A j \in todo[l] : i < j

AllOrdered ==
  /\ \A l \in Locales : InTreeOrder(localAccum[l]) /\ InTreeOrder(localeResult[l])
  /\ \A l \in reduced : InTreeOrder(tmpBuf[l])
  /\ phase = "stored" => InTreeOrder(resultData[0])

OrderInv == HoldInv /\ WithinInv /\ FoldOrder /\ (Reliable => AllOrdered)

LEMMA ShortOrder ==
  InTreeOrder(NoOutput) /\ \A i \in Items : InTreeOrder(<<i>>)
BY DEF InTreeOrder, NoOutput

LEMMA ConcatOrder ==
  ASSUME NEW a \in Values, NEW b \in Values, InTreeOrder(a), InTreeOrder(b),
         \A x \in ToSet(a), y \in ToSet(b) : ItemBefore(x, y)
  PROVE  InTreeOrder(a \o b)
<1> DEFINE c == a \o b
<1>1. /\ Len(a) \in Nat /\ Len(b) \in Nat
      /\ DOMAIN a = 1 .. Len(a) /\ DOMAIN b = 1 .. Len(b)
      /\ DOMAIN c = 1 .. Len(a) + Len(b)
  BY DEF Values
<1>2. \A k \in 1 .. Len(a) + Len(b) :
        c[k] = IF k <= Len(a) THEN a[k] ELSE b[k - Len(a)]
  BY DEF Values
<1> HIDE DEF c
<1> SUFFICES ASSUME NEW p \in DOMAIN c, NEW q \in DOMAIN c, p < q
             PROVE  ItemBefore(c[p], c[q])
  BY DEF InTreeOrder, c
<1>3. CASE q <= Len(a)
  <2>1. p \in DOMAIN a /\ q \in DOMAIN a /\ c[p] = a[p] /\ c[q] = a[q]
    BY <1>1, <1>2, <1>3
  <2> QED
    BY <2>1 DEF InTreeOrder
<1>4. CASE p <= Len(a) /\ ~(q <= Len(a))
  <2>1. /\ p \in DOMAIN a /\ q - Len(a) \in DOMAIN b
        /\ c[p] = a[p] /\ c[q] = b[q - Len(a)]
    BY <1>1, <1>2, <1>4
  <2>2. a[p] \in ToSet(a) /\ b[q - Len(a)] \in ToSet(b)
    BY <2>1 DEF ToSet
  <2> QED
    BY <2>1, <2>2
<1>5. CASE ~(p <= Len(a))
  <2>1. /\ p - Len(a) \in DOMAIN b /\ q - Len(a) \in DOMAIN b
        /\ p - Len(a) < q - Len(a)
        /\ c[p] = b[p - Len(a)] /\ c[q] = b[q - Len(a)]
    BY <1>1, <1>2, <1>5
  <2> QED
    BY <2>1 DEF InTreeOrder
<1> QED
  BY <1>1, <1>3, <1>4, <1>5

(* What accumulator a has comes before what its partner has.               *)
LEMMA HalvesOrdered ==
  ASSUME NEW h \in Nat \ {0}, NEW a \in 0 .. h - 1, 2 * h <= NumLocales,
         NumLocales % (2 * h) = 0,
         NEW i \in Residue(a, 2 * h), NEW j \in Residue(a + h, 2 * h)
  PROVE  ItemBefore(i, j)
<1>1. PICK k \in Locales : k % (2 * h) = a /\ i \in Successes(k)
  BY ResidueMembers
<1>2. PICK l \in Locales : l % (2 * h) = a + h /\ j \in Successes(l)
  BY ResidueMembers
<1>3. k % h = a /\ l % h = a
  BY <1>1, <1>2, HalfResidues, Sets
<1>4. h \in 1 .. NumLocales /\ a < a + h
  BY TreeLocalesAssumption
<1>5. LocaleBefore(k, l)
  BY <1>1, <1>2, <1>3, <1>4 DEF LocaleBefore
<1> QED
  BY <1>1, <1>2, <1>5 DEF ItemBefore, Successes

(* A buffer that holds results was not left by a call that went wrong.     *)
LEMMA HeldIsReal ==
  ASSUME NEW v \in Values, NEW S, S \subseteq Items, HoldsOnce(v, S), Real(v) = {}
  PROVE  S = {} /\ v = NoOutput
<1>1. \A i \in S : i \in Nat
  BY Sets
<1>2. S = {}
  BY <1>1 DEF HoldsOnce, Real, Junk
<1> QED
  BY <1>2, OnceEmpty

LEMMA InitOrdered == PowerOfTwo(NumLocales) /\ Init => OrderInv
<1> SUFFICES ASSUME PowerOfTwo(NumLocales), Init PROVE OrderInv
  OBVIOUS
<1>1. FoldOrder
  BY DEF Init, FoldOrder
<1>2. AllOrdered
  BY ShortOrder DEF Init, AllOrdered
<1> QED
  BY <1>1, <1>2, InitHolds, InitWithin DEF OrderInv

LEMMA FoldOrderKept ==
  ASSUME OrderInv, [Next]_vars
  PROVE  FoldOrder'
<1>1. ASSUME NEW l \in Locales, SkipFailed(l) \/ Seed(l) \/ FoldStep(l)
      PROVE  FoldOrder'
  <2>1. PICK i \in Items : Folding(l, i)
    BY <1>1 DEF SkipFailed, Seed, FoldStep
  <2>2. /\ i \in todo[l] /\ \A j \in todo[l] : i <= j
        /\ todo' = [todo EXCEPT ![l] = @ \ {i}] /\ phase = "fold"
        /\ todo \in [Locales -> SUBSET Items]
    BY <2>1 DEF Folding, OrderInv, WithinInv, IInv, TypeOK
  <2>3. \A k \in Locales : todo'[k] = IF k = l THEN todo[l] \ {i} ELSE todo[k]
    BY <2>2
  <2>4. ASSUME NEW k \in Locales, NEW x \in LocaleRange(k, NumLocales, NItems) \ todo'[k],
               NEW j \in todo'[k]
        PROVE  x < j
    <3>1. CASE k = l /\ x = i
      <4>1. j \in todo[l] /\ j # i /\ i <= j /\ i \in Nat /\ j \in Nat
        BY <2>2, <2>3, <3>1, Sets
      <4> QED
        BY <3>1, <4>1
    <3>2. CASE ~(k = l /\ x = i)
      <4>1. x \notin todo[k] /\ j \in todo[k]
        BY <2>2, <2>3, <3>2
      <4> QED
        BY <2>2, <4>1 DEF OrderInv, FoldOrder
    <3> QED
      BY <3>1, <3>2
  <2> QED
    BY <2>4 DEF FoldOrder
<1>2. ASSUME NEW l \in Locales, Publish(l) PROVE FoldOrder'
  BY <1>2 DEF Publish, OrderInv, FoldOrder, locals
<1>3. phase' # "fold" => FoldOrder'
  BY DEF FoldOrder
<1>4. ASSUME NEW l \in Locales, NoPartner(l) \/ Adopt(l) \/ Reduce(l) \/ WriteBack(l)
      PROVE  phase' # "fold"
  BY <1>4 DEF NoPartner, Adopt, Reduce, WriteBack, InRound
<1>5. MainStep => phase' # "fold"
  BY DEF MainStep, EndFold, StartRound, EndRound, StoreSlot0
<1>6. UNCHANGED vars => FoldOrder'
  BY DEF OrderInv, FoldOrder, vars, locals
<1> QED
  BY <1>1, <1>2, <1>3, <1>4, <1>5, <1>6 DEF Next, TaskStep, Finished

LEMMA FoldOrders ==
  ASSUME OrderInv, HoldInv', Reliable, Reliable', NEW l \in Locales,
         SkipFailed(l) \/ Seed(l) \/ FoldStep(l)
  PROVE  AllOrdered'
<1> USE DEF OrderInv
<1>1. PICK i \in Items :
           /\ Takes(l, i)
           /\ \/ /\ ~resultOk[i]
                 /\ localAccum'[l] = localAccum[l] /\ (first'[l] <=> first[l])
                 /\ UNCHANGED calls
              \/ /\ resultOk[i] /\ first[l] /\ ~first'[l]
                 /\ localAccum'[l] = <<i>>
                 /\ UNCHANGED calls
              \/ /\ resultOk[i] /\ ~first[l] /\ ~first'[l]
                 /\ localAccum'[l] = localAccum[l] \o <<i>>
                 /\ UNCHANGED calls
              \/ /\ resultOk[i] /\ ~first[l] /\ ~first'[l]
                 /\ Real(localAccum'[l]) = {} /\ Lossy'
  BY FoldOutcome
<1>2. /\ phase = "fold" /\ phase' = "fold" /\ i \in todo[l]
      /\ UNCHANGED <<reduced, tmpBuf, localeResult>>
      /\ \A k \in Locales \ {l} : localAccum'[k] = localAccum[k]
  BY <1>1 DEF Takes, round, accums
<1>3. InTreeOrder(localAccum'[l])
  <2>1. InTreeOrder(localAccum[l]) /\ InTreeOrder(<<i>>) /\ <<i>> \in Values
    BY ShortOrder, OneOnce DEF AllOrdered
  <2>2. FoldHolds(l) /\ FoldHolds(l)'
    BY <1>2 DEF HoldInv, AllHeld
  <2>3. localAccum[l] \in Values /\ localAccum'[l] \in Values
    BY DEF HoldInv, IInv, TypeOK
  <2>4. Real(localAccum'[l]) = {} => localAccum'[l] = NoOutput
    <3>1. HoldsOnce(localAccum'[l], (Successes(l) \ todo[l])')
      BY <2>2 DEF FoldHolds
    <3>2. (Successes(l) \ todo[l])' \subseteq Items
      BY DEF HoldInv, IInv, TypeOK, Successes
    <3> QED
      BY <2>3, <3>1, <3>2, HeldIsReal
  <2>5. InTreeOrder(localAccum[l] \o <<i>>)
    <3>1. ASSUME NEW x \in ToSet(localAccum[l]) PROVE ItemBefore(x, i)
      <4>1. x \in Successes(l) \ todo[l]
        BY <2>2 DEF FoldHolds, HoldsOnce
      <4>2. x \in LocaleRange(l, NumLocales, NItems) \ todo[l]
        BY <4>1 DEF Successes
      <4>3. x < i /\ i \in LocaleRange(l, NumLocales, NItems)
        BY <1>2, <4>2 DEF FoldOrder, HoldInv, Shape
      <4> QED
        BY <4>2, <4>3 DEF ItemBefore
    <3>2. \A x \in ToSet(localAccum[l]), y \in ToSet(<<i>>) : ItemBefore(x, y)
      <4>1. ToSet(<<i>>) = {i}
        BY DEF ToSet
      <4> QED
        BY <3>1, <4>1
    <3> QED
      BY <2>1, <2>3, <3>2, ConcatOrder
  <2> QED
    BY <1>1, <2>1, <2>4, <2>5, ShortOrder
<1> QED
  BY <1>2, <1>3 DEF AllOrdered

LEMMA ReduceOrders ==
  ASSUME OrderInv, HoldInv', Reliable, Reliable', NEW l \in Locales, Reduce(l)
  PROVE  AllOrdered'
<1> USE DEF OrderInv
<1>1. /\ phase = "round" /\ phase' = "round" /\ l \in Indices(Half)
      /\ TypeOK /\ IInv /\ Shape /\ Half' = Half /\ reduced' = reduced \cup {l}
      /\ UNCHANGED <<localAccum, localeResult, succeeded>>
      /\ \A k \in Locales \ {l} : tmpBuf'[k] = tmpBuf[k]
  BY DEF Reduce, InRound, HoldInv, IInv, TypeOK, RoundShape, Half, locals, accums, fixed
<1>2. /\ l \in Locales /\ Partner(l) \in Locales
      /\ l \in Indices(active) /\ Partner(l) \in Indices(active)
      /\ \A n, a : Residue(a, n) \subseteq Items
  BY <1>1, RoundResiduesOf
<1>3. PICK out : /\ Reduced(l, localeResult[l], localeResult[Partner(l)], out)
                 /\ tmpBuf'[l] = out
  BY <1>1 DEF Reduce, TypeOK
<1>4. TmpHolds(l)' /\ out \in Values
  BY <1>1, <1>3 DEF HoldInv, AllHeld, IInv, TypeOK
<1>5. Real(out) # {}
  <2>1. HoldsOnce(out, Residue(l, Half)') /\ out # NoOutput
    BY <1>3, <1>4 DEF TmpHolds
  <2>2. Residue(l, Half)' \subseteq Items
    <3>1. Residue(l, Half)' = Residue(l, Half)
      BY <1>1 DEF Residue, Successes
    <3> QED
      BY <1>2, <3>1
  <2> QED
    BY <1>4, <2>1, <2>2, HeldIsReal
<1>6. out = localeResult[l] \o localeResult[Partner(l)]
  BY <1>3, <1>5, CallOutcome
<1>7. InTreeOrder(out)
  <2>1. /\ ToSet(localeResult[l]) = Residue(l, active)
        /\ ToSet(localeResult[Partner(l)]) = Residue(Partner(l), active)
    <3>1. ~Halved(l) /\ ~Halved(Partner(l))
      BY <1>1, RoundResiduesOf DEF Halved, Reduce, InRound
    <3>2. SlotHolds(l) /\ SlotHolds(Partner(l))
      BY <1>1, <1>2 DEF HoldInv, AllHeld
    <3> QED
      BY <3>1, <3>2 DEF SlotHolds, HoldsOnce, Due
  <2>2. /\ Half \in Nat \ {0} /\ active = 2 * Half /\ active <= NumLocales
        /\ NumLocales % active = 0 /\ l \in 0 .. Half - 1 /\ Partner(l) = l + Half
    <3>1. active \in Nat /\ active > 1 /\ active <= NumLocales
      BY <1>1, TreeLocalesAssumption DEF TypeOK, Shape
    <3> QED
      BY <1>1, <3>1, Halving DEF Shape, Half, Indices, Partner
  <2>3. \A x \in Residue(l, active), y \in Residue(Partner(l), active) : ItemBefore(x, y)
    BY <2>2, HalvesOrdered
  <2>4. localeResult[l] \in Values /\ localeResult[Partner(l)] \in Values
    BY <1>1, <1>2 DEF TypeOK
  <2>5. InTreeOrder(localeResult[l]) /\ InTreeOrder(localeResult[Partner(l)])
    BY <1>2 DEF AllOrdered
  <2> QED
    BY <1>6, <2>1, <2>3, <2>4, <2>5, ConcatOrder
<1>8. \A k \in reduced' : InTreeOrder(tmpBuf'[k])
  BY <1>1, <1>3, <1>7 DEF AllOrdered, TypeOK
<1> QED
  BY <1>1, <1>8 DEF AllOrdered

LEMMA StepOrders == OrderInv /\ [Next]_vars => OrderInv'
<1> SUFFICES ASSUME OrderInv, [Next]_vars PROVE OrderInv'
  OBVIOUS
<1>1. HoldInv' /\ WithinInv' /\ FoldOrder'
  BY StepHolds, StepWithin, FoldOrderKept DEF OrderInv
<1>2. ASSUME Reliable' PROVE AllOrdered'
  <2>1. Reliable /\ AllOrdered /\ TypeOK /\ IInv
    BY <1>2, ReliableBefore DEF OrderInv, HoldInv, IInv
  <2>2. ASSUME NEW l \in Locales, SkipFailed(l) \/ Seed(l) \/ FoldStep(l) PROVE AllOrdered'
    BY <1>1, <1>2, <2>1, <2>2, FoldOrders
  <2>3. ASSUME NEW l \in Locales, Reduce(l) PROVE AllOrdered'
    BY <1>1, <1>2, <2>1, <2>3, ReduceOrders
  <2>4. ASSUME NEW l \in Locales, Publish(l) PROVE AllOrdered'
    BY <2>1, <2>4 DEF Publish, AllOrdered, TypeOK, locals, round
  <2>5. ASSUME NEW l \in Locales, NoPartner(l) PROVE AllOrdered'
    BY <2>1, <2>5 DEF NoPartner, InRound, AllOrdered, locals, round, accums
  <2>6. ASSUME NEW l \in Locales, Adopt(l) PROVE AllOrdered'
    <3>1. Partner(l) \in Locales
      BY <2>1, <2>6, OneWriterPerSlot DEF Adopt, InRound
    <3>2. \A k \in Locales : InTreeOrder(localeResult'[k])
      BY <2>1, <2>6, <3>1 DEF Adopt, AllOrdered, TypeOK
    <3> QED
      BY <2>1, <2>6, <3>2 DEF Adopt, InRound, AllOrdered, locals, round
  <2>7. ASSUME NEW l \in Locales, WriteBack(l) PROVE AllOrdered'
    <3>1. \A k \in Locales : InTreeOrder(localeResult'[k])
      BY <2>1, <2>7 DEF WriteBack, AllOrdered, TypeOK
    <3> QED
      BY <2>1, <2>7, <3>1 DEF WriteBack, AllOrdered, locals
  <2>8. ASSUME MainStep PROVE AllOrdered'
    <3>1. CASE EndFold \/ StartRound \/ EndRound
      BY <2>1, <3>1 DEF EndFold, StartRound, EndRound, AllOrdered, locals, round, accums
    <3>2. CASE StoreSlot0
      BY <2>1, <3>2, Sets DEF StoreSlot0, AllOrdered, TypeOK, locals, round, accums
    <3> QED
      BY <2>8, <3>1, <3>2 DEF MainStep
  <2>9. ASSUME UNCHANGED vars PROVE AllOrdered'
    BY <2>1, <2>9 DEF AllOrdered, vars, locals, round, accums, result
  <2> QED
    BY <2>2, <2>3, <2>4, <2>5, <2>6, <2>7, <2>8, <2>9 DEF Next, TaskStep, Finished
<1> QED
  BY <1>1, <1>2 DEF OrderInv

(* On a power of two, the results are in slot 0 in the order that reverses *)
(* the bits of the locales' ids, whatever the interleaving was.            *)
THEOREM OrderedByTree ==
  ASSUME PowerOfTwo(NumLocales)
  PROVE  Spec => []CombinedInTreeOrder
<1>1. OrderInv => CombinedInTreeOrder
  BY DEF OrderInv, HoldInv, AllHeld, AllOrdered, Reliable, CombinedInTreeOrder
<1> QED
  BY <1>1, InitOrdered, StepOrders, PTL DEF Spec, SafeSpec

-----------------------------------------------------------------------------
(* What main() goes on with, whatever c_reduce does.                       *)

\* The results in a buffer, each once, and no junk.
RealOnce(value) == HoldsOnce(value, Real(value))

\* Where pointers can be followed no result is ever in a buffer twice, not
\* even after a call of c_reduce has failed.
NoneTwice ==
  followed =>
    /\ \A l \in Locales : RealOnce(localAccum[l]) /\ RealOnce(localeResult[l])
    /\ \A l \in reduced : RealOnce(tmpBuf[l])
    /\ phase = "stored" => RealOnce(resultData[0])

LEMMA ShortOnce ==
  RealOnce(NoOutput) /\ \A i \in Items : RealOnce(<<i>>) /\ Real(<<i>>) = {i}
BY RealValues, EmptyOnce, OneOnce DEF RealOnce

LEMMA JoinOnce ==
  ASSUME NEW a \in Values, NEW b \in Values, RealOnce(a), RealOnce(b),
         Real(a) \subseteq Items, Real(b) \subseteq Items, Real(a) \cap Real(b) = {}
  PROVE  RealOnce(a \o b)
BY RealValues, ConcatOnce DEF RealOnce

(* A call that can follow its pointers concatenates or leaves nothing.     *)
LEMMA FollowedCall ==
  ASSUME followed, NEW l, NEW a, NEW b, NEW out, Reduced(l, a, b, out)
  PROVE  out = a \o b \/ out = NoOutput
BY DEF Reduced

LEMMA FoldOnce ==
  ASSUME WithinInv, NoneTwice, followed, NEW l \in Locales,
         SkipFailed(l) \/ Seed(l) \/ FoldStep(l)
  PROVE  NoneTwice'
<1> USE DEF WithinInv, IInv, TypeOK
<1>1. /\ phase = "fold" /\ phase' = "fold" /\ UNCHANGED <<reduced, tmpBuf, localeResult>>
      /\ \A k \in Locales \ {l} : localAccum'[k] = localAccum[k]
  BY DEF SkipFailed, Seed, FoldStep, Folding, round, accums
<1>2. RealOnce(localAccum'[l])
  <2>1. CASE SkipFailed(l)
    BY <2>1 DEF SkipFailed, NoneTwice
  <2>2. CASE Seed(l)
    <3>1. PICK i \in Items : /\ Folding(l, i) /\ resultOk[i]
                             /\ localAccum' = [localAccum EXCEPT ![l] = resultData[i]]
      BY <2>2 DEF Seed
    <3>2. resultData[i] = <<i>>
      BY <1>1, <3>1 DEF Shape
    <3> QED
      BY <3>1, <3>2, ShortOnce
  <2>3. CASE FoldStep(l)
    <3>1. PICK i \in Items :
            /\ Folding(l, i) /\ resultOk[i]
            /\ \E out \in Outputs(localAccum[l], resultData[i]) :
                 /\ Reduced(l, localAccum[l], resultData[i], out)
                 /\ localAccum' = [localAccum EXCEPT ![l] = out]
      BY <2>3 DEF FoldStep
    <3>2. resultData[i] = <<i>> /\ <<i>> \in Values /\ localAccum[l] \in Values
      BY <1>1, <3>1, OneOnce DEF Shape
    <3>3. Real(localAccum[l]) \subseteq Items /\ i \notin Real(localAccum[l])
      BY <1>1, <3>1 DEF AllWithin, FoldWithin, Successes, Folding
    <3>4. RealOnce(localAccum[l] \o <<i>>)
      BY <3>2, <3>3, ShortOnce, JoinOnce DEF NoneTwice
    <3> QED
      BY <3>1, <3>2, <3>4, FollowedCall, ShortOnce
  <2> QED
    BY <2>1, <2>2, <2>3
<1> QED
  BY <1>1, <1>2 DEF NoneTwice

LEMMA ReduceOnce ==
  ASSUME WithinInv, NoneTwice, followed, NEW l \in Locales, Reduce(l)
  PROVE  NoneTwice'
<1>1. /\ phase = "round" /\ phase' = "round" /\ l \in Indices(Half)
      /\ l \in busy /\ TypeOK /\ IInv /\ Shape /\ reduced' = reduced \cup {l}
      /\ UNCHANGED <<localAccum, localeResult>>
      /\ \A k \in Locales \ {l} : tmpBuf'[k] = tmpBuf[k]
  BY DEF Reduce, InRound, WithinInv, IInv, TypeOK, RoundShape, locals, accums
<1>2. /\ l \in Indices(active) /\ Partner(l) \in Indices(active) /\ Partner(l) \in Locales
      /\ Residue(l, active) \cap Residue(Partner(l), active) = {}
      /\ \A n, a : Residue(a, n) \subseteq Items
      /\ ~Halved(l) /\ ~Halved(Partner(l))
  BY <1>1, RoundResiduesOf DEF Halved
<1>3. /\ Real(localeResult[l]) \subseteq Residue(l, active)
      /\ Real(localeResult[Partner(l)]) \subseteq Residue(Partner(l), active)
      /\ localeResult[l] \in Values /\ localeResult[Partner(l)] \in Values
  BY <1>1, <1>2 DEF WithinInv, AllWithin, SlotWithin, Due, TypeOK
<1>4. RealOnce(localeResult[l] \o localeResult[Partner(l)])
  BY <1>2, <1>3, JoinOnce DEF NoneTwice
<1>5. PICK out : /\ Reduced(l, localeResult[l], localeResult[Partner(l)], out)
                 /\ tmpBuf'[l] = out
  BY <1>1 DEF Reduce, TypeOK
<1>6. RealOnce(tmpBuf'[l])
  BY <1>4, <1>5, FollowedCall, ShortOnce
<1>7. \A k \in reduced' : RealOnce(tmpBuf'[k])
  BY <1>1, <1>6 DEF NoneTwice, TypeOK
<1> QED
  BY <1>1, <1>7 DEF NoneTwice

LEMMA StepOnce ==
  ASSUME WithinInv, NoneTwice, [Next]_vars
  PROVE  NoneTwice'
<1> SUFFICES ASSUME followed' PROVE NoneTwice'
  BY DEF NoneTwice
<1>1. followed
  BY DEF Next, TaskStep, MainStep, SkipFailed, Seed, FoldStep, Publish, NoPartner,
         Adopt, Reduce, WriteBack, EndFold, StartRound, EndRound, StoreSlot0,
         Finished, vars, fixed
<1>2. TypeOK /\ IInv
  BY DEF WithinInv, IInv
<1>3. ASSUME NEW l \in Locales, SkipFailed(l) \/ Seed(l) \/ FoldStep(l) \/ Reduce(l)
      PROVE  NoneTwice'
  BY <1>1, <1>3, FoldOnce, ReduceOnce
<1>4. ASSUME NEW l \in Locales, Publish(l) PROVE NoneTwice'
  BY <1>1, <1>2, <1>4 DEF Publish, NoneTwice, TypeOK, locals, round
<1>5. ASSUME NEW l \in Locales, NoPartner(l) PROVE NoneTwice'
  BY <1>1, <1>5 DEF NoPartner, InRound, NoneTwice, locals, round, accums
<1>6. ASSUME NEW l \in Locales, Adopt(l) PROVE NoneTwice'
  <2>1. Partner(l) \in Locales
    BY <1>2, <1>6, OneWriterPerSlot DEF Adopt, InRound
  <2>2. \A k \in Locales : RealOnce(localeResult'[k])
    BY <1>1, <1>2, <1>6, <2>1 DEF Adopt, NoneTwice, TypeOK
  <2> QED
    BY <1>1, <1>6, <2>2 DEF Adopt, InRound, NoneTwice, locals, round
<1>7. ASSUME NEW l \in Locales, WriteBack(l) PROVE NoneTwice'
  <2>1. \A k \in Locales : RealOnce(localeResult'[k])
    BY <1>1, <1>2, <1>7 DEF WriteBack, NoneTwice, TypeOK
  <2> QED
    BY <1>1, <1>7, <2>1 DEF WriteBack, NoneTwice, locals
<1>8. ASSUME MainStep PROVE NoneTwice'
  <2>1. CASE EndFold \/ StartRound \/ EndRound
    BY <1>1, <2>1 DEF EndFold, StartRound, EndRound, NoneTwice, locals, round, accums
  <2>2. CASE StoreSlot0
    BY <1>1, <1>2, <2>2, Sets DEF StoreSlot0, NoneTwice, TypeOK, locals, round, accums
  <2> QED
    BY <1>8, <2>1, <2>2 DEF MainStep
<1>9. ASSUME UNCHANGED vars PROVE NoneTwice'
  BY <1>1, <1>9 DEF NoneTwice, vars, locals, round, accums, result
<1> QED
  BY <1>3, <1>4, <1>5, <1>6, <1>7, <1>8, <1>9 DEF Next, TaskStep, Finished

\* An accumulator is marked as holding something if its locales had a success,
\* even where a call that failed has emptied it.
SlotMarked(a) == localeHasResult[a] <=> Due(a) # {}

TwoSuccesses == \E i, j \in succeeded : i # j

AllMarked ==
  /\ phase = "fold" => \A l \in Locales : first[l] <=> Successes(l) \ todo[l] = {}
  /\ phase \in {"between", "round"} => \A a \in Indices(active) : SlotMarked(a)
  /\ phase = "stored" => /\ resultOk[0] <=> succeeded # {}
                         /\ Real(resultData[0]) \subseteq succeeded
  /\ Lossy => TwoSuccesses

MarkInv == HoldInv /\ WithinInv /\ NoneTwice /\ AllMarked

LEMMA InitMarked == PowerOfTwo(NumLocales) /\ Init => MarkInv
<1> SUFFICES ASSUME PowerOfTwo(NumLocales), Init PROVE MarkInv
  OBVIOUS
<1>1. AllMarked
  BY DEF Init, AllMarked, Successes, Lossy
<1>2. NoneTwice
  BY ShortOnce DEF Init, NoneTwice
<1> QED
  BY <1>1, <1>2, InitHolds, InitWithin DEF MarkInv

LEMMA FoldMarks ==
  ASSUME MarkInv, NEW l \in Locales, SkipFailed(l) \/ Seed(l) \/ FoldStep(l)
  PROVE  AllMarked'
<1> USE DEF MarkInv
<1>1. PICK i \in Items :
           /\ Takes(l, i)
           /\ \/ /\ ~resultOk[i]
                 /\ localAccum'[l] = localAccum[l] /\ (first'[l] <=> first[l])
                 /\ UNCHANGED calls
              \/ /\ resultOk[i] /\ first[l] /\ ~first'[l]
                 /\ localAccum'[l] = <<i>>
                 /\ UNCHANGED calls
              \/ /\ resultOk[i] /\ ~first[l] /\ ~first'[l]
                 /\ localAccum'[l] = localAccum[l] \o <<i>>
                 /\ UNCHANGED calls
              \/ /\ resultOk[i] /\ ~first[l] /\ ~first'[l]
                 /\ Real(localAccum'[l]) = {} /\ Lossy'
  BY FoldOutcome
<1>2. /\ phase = "fold" /\ phase' = "fold"
      /\ i \in todo[l] /\ todo'[l] = todo[l] \ {i} /\ succeeded' = succeeded
      /\ \A k \in Locales \ {l} : todo'[k] = todo[k] /\ (first'[k] <=> first[k])
  BY <1>1 DEF Takes, WithinInv, IInv, TypeOK, fixed
<1>3. /\ \A k \in Locales : Successes(k)' = Successes(k)
      /\ \A k \in Locales : first[k] <=> Successes(k) \ todo[k] = {}
      /\ TwoSuccesses' <=> TwoSuccesses
  BY <1>2 DEF Successes, AllMarked, TwoSuccesses
<1>4. resultOk[i] <=> i \in Successes(l)
  BY <1>2 DEF WithinInv, IInv, TypeOK, Shape, Successes
<1>5. first'[l] <=> Successes(l) \ todo'[l] = {}
  <2>1. CASE ~resultOk[i]
    BY <1>1, <1>2, <1>3, <1>4, <2>1
  <2>2. CASE resultOk[i]
    <3>1. i \in Successes(l) \ todo'[l]
      BY <1>2, <1>4, <2>2
    <3> QED
      BY <1>1, <2>2, <3>1
  <2> QED
    BY <2>1, <2>2
<1>6. Lossy' => TwoSuccesses
  <2>1. CASE UNCHANGED calls
    BY <2>1 DEF calls, Lossy, AllMarked
  <2>2. CASE resultOk[i] /\ ~first[l]
    <3>1. PICK j : j \in Successes(l) \ todo[l]
      BY <1>3, <2>2
    <3> QED
      BY <1>2, <1>4, <2>2, <3>1 DEF TwoSuccesses, Successes
  <2> QED
    BY <1>1, <2>1, <2>2
<1> QED
  BY <1>2, <1>3, <1>5, <1>6 DEF AllMarked

LEMMA RoundMarks ==
  ASSUME MarkInv, NEW l \in Locales, NoPartner(l) \/ Adopt(l) \/ Reduce(l) \/ WriteBack(l)
  PROVE  AllMarked'
<1> USE DEF MarkInv
<1>1. /\ phase = "round" /\ l \in busy /\ l \in Indices(Half)
      /\ TypeOK /\ IInv /\ Shape
  BY DEF NoPartner, Adopt, Reduce, WriteBack, InRound, WithinInv, IInv, RoundShape, TypeOK
<1>2. /\ UNCHANGED <<fixed, active>> /\ phase' = "round"
      /\ localeHasResult' \in [Locales -> BOOLEAN]
      /\ \A a \in Locales \ {l} : /\ localeHasResult'[a] <=> localeHasResult[a]
                                  /\ a \in busy' <=> a \in busy
  BY <1>1 DEF NoPartner, Adopt, Reduce, WriteBack, accums, TypeOK
<1>3. /\ l \in Indices(active) /\ Partner(l) \in Indices(active)
      /\ Residue(l, Half) = Residue(l, active) \cup Residue(Partner(l), active)
      /\ Residue(l, active) \cap Residue(Partner(l), active) = {}
      /\ Indices(active) \subseteq Locales
  BY <1>1, RoundResiduesOf, TreeLocalesAssumption DEF TypeOK, Indices, Locales
<1>4. Due(l) = Residue(l, active) /\ Due(Partner(l)) = Residue(Partner(l), active)
  BY <1>1, RoundResiduesOf DEF Due, Halved
<1>5. /\ localeHasResult[l] <=> Residue(l, active) # {}
      /\ localeHasResult[Partner(l)] <=> Residue(Partner(l), active) # {}
  BY <1>1, <1>3, <1>4 DEF AllMarked, SlotMarked
<1>6. /\ Half' = Half /\ \A a, n : Residue(a, n)' = Residue(a, n)
      /\ TwoSuccesses' <=> TwoSuccesses
  BY <1>2 DEF Half, Residue, Successes, fixed, TwoSuccesses
<1>7. SlotMarked(l)'
  <2>1. CASE Reduce(l)
    <3>1. Due(l)' = Due(l) /\ (localeHasResult'[l] <=> localeHasResult[l])
      BY <1>1, <1>2, <1>6, <2>1 DEF Due, Halved, Reduce, accums
    <3> QED
      BY <1>4, <1>5, <3>1 DEF SlotMarked
  <2>2. CASE ~Reduce(l)
    <3>1. Due(l)' = Residue(l, Half)
      BY <1>1, <1>2, <1>6, <2>2 DEF Due, Halved, NoPartner, Adopt, WriteBack
    <3>2. CASE NoPartner(l)
      BY <1>3, <1>5, <3>1, <3>2 DEF SlotMarked, NoPartner, accums
    <3>3. CASE Adopt(l)
      BY <1>1, <1>3, <1>5, <3>1, <3>3 DEF SlotMarked, Adopt, TypeOK
    <3>4. CASE WriteBack(l)
      <4>1. localeHasResult[l]
        BY <1>1, <3>4 DEF WriteBack, WithinInv, AllWithin, TmpWithin
      <4> QED
        BY <1>3, <1>5, <3>1, <3>4, <4>1 DEF SlotMarked, WriteBack
    <3> QED
      BY <2>2, <3>2, <3>3, <3>4
  <2> QED
    BY <2>1, <2>2
<1>8. \A a \in Indices(active) : SlotMarked(a)'
  <2> TAKE a \in Indices(active)
  <2>1. CASE a # l
    <3>1. SlotMarked(a) /\ a \in Locales
      BY <1>1, <1>3 DEF AllMarked
    <3>2. Due(a)' = Due(a)
      BY <1>1, <1>2, <1>6, <2>1, <3>1 DEF Due, Halved
    <3> QED
      BY <1>2, <2>1, <3>1, <3>2 DEF SlotMarked
  <2> QED
    BY <1>7, <2>1
<1>9. Lossy' => TwoSuccesses
  <2>1. CASE UNCHANGED calls
    BY <2>1 DEF calls, Lossy, AllMarked
  <2>2. CASE Reduce(l)
    <3>1. PICK i, j : i \in Residue(l, active) /\ j \in Residue(Partner(l), active)
      BY <1>5, <2>2 DEF Reduce
    <3> QED
      BY <1>3, <3>1, ResidueMembers DEF TwoSuccesses
  <2> QED
    BY <2>1, <2>2 DEF NoPartner, Adopt, WriteBack
<1> QED
  BY <1>2, <1>6, <1>8, <1>9 DEF AllMarked

LEMMA MainMarks ==
  ASSUME MarkInv, MainStep
  PROVE  AllMarked'
<1> USE DEF MarkInv
<1>1. TypeOK /\ IInv /\ Shape /\ active \in 1 .. NumLocales /\ AllWithin
  BY DEF WithinInv, IInv, TypeOK
<1>2. /\ \A a, n : Residue(a, n)' = Residue(a, n)
      /\ (Lossy' <=> Lossy) /\ (TwoSuccesses' <=> TwoSuccesses)
      /\ UNCHANGED <<fixed, accums>>
  BY DEF MainStep, EndFold, StartRound, EndRound, StoreSlot0, Residue, Successes, fixed,
         Lossy, calls, TwoSuccesses
<1>3. CASE EndFold
  <2>1. ASSUME NEW a \in Indices(active) PROVE SlotMarked(a)'
    <3>1. a \in Locales /\ active = NumLocales
      BY <1>1, <1>3 DEF EndFold, Shape, Locales
    <3>2. FoldWithin(a) /\ a \notin busy /\ (first[a] <=> Successes(a) \ todo[a] = {})
      BY <1>1, <1>3, <3>1 DEF EndFold, AllWithin, AllMarked
    <3>3. Due(a)' = Successes(a)
      BY <1>2, <1>3, <3>1, ResidueOfAll DEF EndFold, Due, Halved
    <3> QED
      BY <1>2, <3>2, <3>3 DEF FoldWithin, SlotMarked, accums
  <2> QED
    BY <1>2, <1>3, <2>1 DEF EndFold, AllMarked
<1>4. CASE StartRound
  <2>1. ASSUME NEW a \in Indices(active) PROVE SlotMarked(a)'
    <3>1. SlotMarked(a) /\ Due(a) = Residue(a, active)
      BY <1>4 DEF StartRound, AllMarked, Due, Halved
    <3>2. Due(a)' = Residue(a, active)
      BY <1>2, <1>4 DEF StartRound, Due, Halved, Half
    <3> QED
      BY <1>2, <3>1, <3>2 DEF SlotMarked, accums
  <2> QED
    BY <1>2, <1>4, <2>1 DEF StartRound, AllMarked
<1>5. CASE EndRound
  <2>1. active' = Half /\ Half \in Nat /\ Half <= active
    BY <1>1, <1>5, Halving, TreeLocalesAssumption DEF EndRound, Shape, Half
  <2>2. ASSUME NEW a \in Indices(active') PROVE SlotMarked(a)'
    <3>1. SlotMarked(a) /\ Due(a) = Residue(a, Half)
      BY <1>1, <1>5, <2>1 DEF EndRound, AllMarked, Due, Halved, Indices
    <3>2. Due(a)' = Residue(a, Half)
      BY <1>2, <1>5, <2>1 DEF EndRound, Due, Halved
    <3> QED
      BY <1>2, <3>1, <3>2 DEF SlotMarked, accums
  <2> QED
    BY <1>2, <1>5, <2>2 DEF EndRound, AllMarked
<1>6. CASE StoreSlot0
  <2>1. /\ phase = "between" /\ phase' = "stored" /\ active = 1
        /\ resultData'[0] = localeResult[0] /\ (resultOk'[0] <=> localeHasResult[0])
    BY <1>1, <1>6, Sets DEF StoreSlot0, TypeOK
  <2>2. 0 \in Indices(active) /\ Due(0) = succeeded
    BY <1>1, <2>1, ResidueOfOne DEF Indices, Due, Halved, TypeOK
  <2>3. SlotMarked(0) /\ SlotWithin(0)
    BY <1>1, <2>1, <2>2 DEF AllMarked, AllWithin
  <2>4. succeeded' = succeeded
    BY <1>2 DEF fixed
  <2> QED
    BY <1>2, <2>1, <2>2, <2>3, <2>4 DEF AllMarked, SlotMarked, SlotWithin
<1> QED
  BY <1>3, <1>4, <1>5, <1>6 DEF MainStep

LEMMA StepMarks == MarkInv /\ [Next]_vars => MarkInv'
<1> SUFFICES ASSUME MarkInv, [Next]_vars PROVE MarkInv'
  OBVIOUS
<1>1. HoldInv' /\ WithinInv' /\ NoneTwice'
  BY StepHolds, StepWithin, StepOnce DEF MarkInv
<1>2. ASSUME NEW l \in Locales, TaskStep(l) PROVE AllMarked'
  <2>1. CASE Publish(l)
    BY <2>1 DEF Publish, MarkInv, AllMarked, locals, Successes, Lossy, TwoSuccesses,
       fixed, calls
  <2> QED
    BY <1>2, <2>1, FoldMarks, RoundMarks DEF TaskStep
<1>3. ASSUME UNCHANGED vars PROVE AllMarked'
  <2>1. /\ \A a, n : Residue(a, n)' = Residue(a, n)
        /\ \A l : Successes(l)' = Successes(l)
        /\ (Lossy' <=> Lossy) /\ (TwoSuccesses' <=> TwoSuccesses)
    BY <1>3 DEF vars, fixed, calls, Residue, Successes, Lossy, TwoSuccesses
  <2>2. \A a : Due(a)' = Due(a)
    BY <1>3, <2>1 DEF Due, Halved, Half, vars
  <2>3. \A a : SlotMarked(a)' <=> SlotMarked(a)
    BY <1>3, <2>2 DEF SlotMarked, vars, accums
  <2>4. UNCHANGED <<phase, first, todo, active, resultOk, resultData, succeeded>>
    BY <1>3 DEF vars, locals, result, fixed
  <2> QED
    BY <2>1, <2>3, <2>4 DEF MarkInv, AllMarked
<1>4. AllMarked'
  BY <1>2, <1>3, MainMarks DEF Next, Finished
<1> QED
  BY <1>1, <1>4 DEF MarkInv

\* What Workload's GatherTree takes tree-reduce to do.
StoresReduction ==
  phase = "stored" =>
    /\ resultOk[0] <=> succeeded # {}
    /\ followed => \E kept \in SUBSET succeeded :
                     /\ HoldsOnce(resultData[0], kept)
                     /\ \/ kept = succeeded
                        \/ reduceFailed /\ TwoSuccesses

(* What main() can count on: on a power of two slot 0 is marked as a       *)
(* result whenever an item succeeded, and it holds successes, none twice,  *)
(* and all of them unless c_reduce failed, for which it takes two.         *)
THEOREM TreeDelivers ==
  ASSUME PowerOfTwo(NumLocales)
  PROVE  Spec => []StoresReduction
<1>1. MarkInv => StoresReduction
  <2> SUFFICES ASSUME MarkInv, phase = "stored", followed
               PROVE  \E kept \in SUBSET succeeded :
                        /\ HoldsOnce(resultData[0], kept)
                        /\ \/ kept = succeeded
                           \/ reduceFailed /\ TwoSuccesses
    BY DEF StoresReduction, MarkInv, AllMarked
  <2>1. CASE reduceFailed
    BY <2>1 DEF MarkInv, NoneTwice, RealOnce, AllMarked, Lossy
  <2>2. CASE ~reduceFailed
    <3>1. HoldsOnce(resultData[0], succeeded)
      BY <2>2 DEF MarkInv, HoldInv, AllHeld, Reliable
    <3> QED
      BY <3>1
  <2> QED
    BY <2>1, <2>2
<1> QED
  BY <1>1, InitMarked, StepMarks, PTL DEF Spec, SafeSpec
=============================================================================
