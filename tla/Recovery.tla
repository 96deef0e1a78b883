------------------------------ MODULE Recovery ------------------------------
(***************************************************************************)
(* The distribution phase of a program that may crash between any two      *)
(* steps and be started again by `chapeliser run`.                         *)
(*                                                                         *)
(* Nothing of the program outlives a crash: the slots, the loops and the   *)
(* attempts are Chapel variables.  What does is in the user's library: the *)
(* markers handed to c_checkpoint_save.  A marker is one byte under the    *)
(* tag "locale-<id>", so it names neither the run, nor the strategy of the *)
(* program that saved it (`chapeliser generate` may have changed it in     *)
(* between), nor the items; and c_checkpoint_load, though declared, is     *)
(* never called.                                                           *)
(***************************************************************************)
EXTENDS Distribution

CONSTANT MaxRestarts   \* bound: crashes looked at in one behaviour

ASSUME MaxRestartsAssumption == MaxRestarts \in Nat

VARIABLES
  up,        \* the program is running
  run,       \* which run this is, counted from 0
  markers    \* what the library keeps under each locale's tag, with a
             \* history of who saved it: the run, its strategy, and the
             \* items already passed to c_process_item

recoveryVars == <<vars, up, run, markers>>

NoMarker == <<>>

Tried == {i \in Items : calls[i] > 0}

\* A save under a tag replaces what an earlier run kept there.
Kept(t) ==
  IF t \in saved' \ saved
    THEN [run |-> run, strategy |-> strategy, tried |-> Tried]
    ELSE markers[t]

RecoveryInit ==
  /\ Init
  /\ up = TRUE
  /\ run = 0
  /\ markers = [t \in Tasks |-> NoMarker]

\* A step of the running program.
Run(step) ==
  /\ up
  /\ step
  /\ markers' = [t \in Tasks |-> Kept(t)]
  /\ UNCHANGED <<up, run>>

\* A locale dies and takes the program with it: failed locales are not
\* replaced by the generated code.
Crash ==
  /\ up
  /\ run < MaxRestarts
  /\ up' = FALSE
  /\ UNCHANGED <<vars, run, markers>>

\* The items the program with strategy s assigns to locale t.
AssignedBy(t, s) ==
  CASE s = "per-item" -> LocaleRange(t, NumLocales, NItems)
    [] s = "chunk" -> ChunkItems(t, NumLocales, NItems, GrainSize)
    [] s = "keyed" -> {i \in Items : KeyOwner(KeyHash[i], NumLocales) = t}
    [] OTHER -> {}

\* Mutant: a restarted program takes the locales with a marker for done,
\* whoever saved it.
NewLoops_SkipMarked ==
  /\ \E s \in Strategies, owner \in BlockOwners :
       /\ strategy' = s
       /\ todo' = [t \in Tasks |->
                    CASE markers[t] # NoMarker -> {}
                      [] markers[t] = NoMarker /\ s = "keyed" -> Items
                      [] markers[t] = NoMarker /\ s = "spatial" ->
                           {i \in Items : owner[i] = t}
                      [] OTHER -> AssignedBy(t, s)]
       /\ trailing' = [t \in Tasks |->
                        /\ s = "chunk"
                        /\ NegativeChunk(t, NumLocales, NItems, GrainSize)]
  /\ pool' = 0

\* What the loops of a new run range over: Distribution's Init.
NewLoops ==
  /\ \E s \in Strategies, owner \in BlockOwners :
       /\ strategy' = s
       /\ todo' = [t \in Tasks |->
                    CASE s = "keyed" -> Items
                      [] s = "spatial" -> {i \in Items : owner[i] = t}
                      [] OTHER -> AssignedBy(t, s)]
       /\ trailing' = [t \in Tasks |->
                        /\ s = "chunk"
                        /\ NegativeChunk(t, NumLocales, NItems, GrainSize)]
  /\ pool' = 0

\* Its arrays, locals and switches.
NewVariables ==
  /\ pc' = [t \in Tasks |-> "loop"]
  /\ cur' = [t \in Tasks |-> 0]
  /\ attempt' = [t \in Tasks |-> 0]
  /\ localOut' = [t \in Tasks |-> NoOutput]
  /\ resultData' = [i \in Items |-> NoOutput]
  /\ resultSizes' = [i \in Items |-> NoOutput]
  /\ resultOk' = [i \in Items |-> FALSE]
  /\ saved' = {}
  /\ joined' = FALSE
  /\ halted' = FALSE
  /\ calls' = [i \in Items |-> 0]

\* The program is run again, from the start.
Restart ==
  /\ ~up
  /\ up' = TRUE
  /\ run' = run + 1
  /\ NewLoops
  /\ NewVariables
  /\ UNCHANGED markers

RecoveryNext ==
  \/ \E t \in Tasks : Run(TaskStep(t))
  \/ Run(Join)
  \/ Run(Finished)
  \/ Crash
  \/ Restart

RecoverySpec ==
  /\ RecoveryInit
  /\ [][RecoveryNext]_recoveryVars
  /\ WF_recoveryVars(Run(Join))
  /\ \A t \in Tasks : WF_recoveryVars(Run(TaskStep(t)))

-----------------------------------------------------------------------------
(* Properties.                                                             *)

\* A marker that is still there after any number of crashes was saved when
\* every item of its locale, as the program that saved it divided them, had
\* been passed to c_process_item in that same run: no marker is left by a
\* run that died half way, and none is inherited.
MarkersTellOfTriedItems ==
  MaxRetries > 0 =>
    \A t \in Tasks :
      markers[t] # NoMarker =>
        AssignedBy(t, markers[t].strategy) \subseteq markers[t].tried

\* Once the crashes stop the phase ends, whatever run, strategy or step they
\* hit, and even when a chunk loop walks an unspecified range.
Settles == <>[]up => <>[](joined \/ halted)

\* What "checkpoint intermediate results for resumability" says: a restarted
\* program with the same partition strategy does not process the items of a
\* locale that an earlier run's marker declares finished.
ResumesAfterMarker ==
  \A t \in Tasks :
    markers[t] # NoMarker /\ markers[t].run < run /\ markers[t].strategy = strategy
      => \A i \in Assigned(t) : calls[i] = 0
=============================================================================
