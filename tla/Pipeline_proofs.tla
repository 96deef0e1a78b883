--------------------------- MODULE Pipeline_proofs ---------------------------
(***************************************************************************)
(* What the pipeline guarantees of its binaries, for every set of          *)
(* manifests.  None of the properties is inductive: they speak of binaries *)
(* and of the directory between two commands, and depend on how far a      *)
(* running generate has come and on which files are whole.                 *)
(***************************************************************************)
EXTENDS Pipeline, TLAPS

\* Only valid manifests get into files, under their own name.
FilesFromValid ==
  /\ pc \in Writing => Validate(loaded)
  /\ script # None => Validate(script.of)
  /\ \A n \in Names : chapel[n] # None =>
       Validate(chapel[n].of) /\ SafeName(chapel[n].of.name) = n

\* The binary of the script is linked from what is there.
UpToDate ==
  /\ binary[Target] # None
  /\ binary[Target].chapel = chapel[Target]
  /\ binary[Target].script = script

\* How far the running command has come.
CommandSoFar ==
  /\ pc \in Writing \ {"chapel"} => chapel[Here] = Whole(loaded) /\ spoiled[Here]
  /\ pc \in {"header", "abi", "script", "mode"} => zig[Here] = "whole"
  /\ pc \in {"script", "mode"} => abi[Here] = "whole"
  /\ pc = "mode" => script = Whole(loaded)
  /\ pc \in {"bridge", "library", "wrapper", "exit"} => script # None
  /\ pc = "exit" /\ script.cut \in {"none", "echo"} => UpToDate
  /\ reported # None => pc = "idle"
  /\ pc # "idle" => ran = "nothing"
  /\ progress # "none" => pc \notin Writing

\* build.sh and the program it compiles are whole and go together unless
\* spoiled.
ScriptFits ==
  script # None =>
    spoiled[Target] \/ (script.cut = "none" /\ chapel[Target] = script)

IInv ==
  /\ TypeOK
  /\ FilesFromValid
  /\ CommandSoFar
  /\ ScriptFits
  /\ BuiltFromValid
  /\ MixedOnlyAfterFailure
  /\ StepsInOrderAreCurrent
  /\ (progress # "none" => manifest \in Manifests)
  /\ AnnouncedIsLinked

(* The names of manifests are what files are indexed by.                   *)
LEMMA NamesOfManifests == \A m \in Manifests : SafeName(m.name) \in Names
  BY DEF Names

(* A file is not absent, and what is written has what it was written from. *)
LEMMA FilesThere ==
  /\ \A f \in ChapelFiles \cup ScriptFiles \cup Binaries : f # None
  /\ \A m \in Manifests : /\ Whole(m) \in ChapelFiles /\ Whole(m) \in ScriptFiles
                          /\ Whole(m).of = m /\ Whole(m).cut = "none"
  /\ \A f \in ScriptFiles : f.of \in Manifests /\ (f.cut = "none" => f = Whole(f.of))
BY FilesAssumption DEF ChapelFiles, ScriptFiles, Whole

(* While a command runs, the name it works under is one of Names.          *)
LEMMA HereIsName == TypeOK /\ pc # "idle" => Here \in Names /\ loaded \in Manifests
  BY NamesOfManifests DEF TypeOK, Here

LEMMA InitEstablishes == Init => IInv
<1> SUFFICES ASSUME Init
             PROVE  IInv
  OBVIOUS
<1> USE FilesAssumption
<1>1. TypeOK
  BY TemplateAssumption DEF Init, TypeOK, Writing
<1>2. FilesFromValid /\ CommandSoFar /\ ScriptFits
  BY DEF Init, FilesFromValid, CommandSoFar, ScriptFits, Writing
<1>3. BuiltFromValid /\ MixedOnlyAfterFailure /\ StepsInOrderAreCurrent /\ AnnouncedIsLinked
  BY DEF Init, BuiltFromValid, MixedOnlyAfterFailure, StepsInOrderAreCurrent, AnnouncedIsLinked
<1> QED
  BY <1>1, <1>2, <1>3 DEF IInv, Init

(* An edit, or init: the files stay, the history starts afresh.            *)
LEMMA EditKeeps ==
  ASSUME IInv, manifest' \in Manifests \cup {None, Torn}, progress' = "none",
         ran' = "nothing", UNCHANGED <<sources, outputs, command, reported, spoiled>>
  PROVE  IInv'
<1> USE DEF sources, outputs, command
<1>1. TypeOK'
  BY DEF IInv, TypeOK
<1>2. FilesFromValid' /\ ScriptFits'
  BY DEF IInv, FilesFromValid, ScriptFits, Target
<1>3. CommandSoFar'
  BY DEF IInv, CommandSoFar, UpToDate, Here, Target
<1>4. BuiltFromValid' /\ MixedOnlyAfterFailure'
  BY DEF IInv, BuiltFromValid, MixedOnlyAfterFailure
<1>5. StepsInOrderAreCurrent'
  BY DEF StepsInOrderAreCurrent
<1>6. AnnouncedIsLinked'
  BY DEF IInv, AnnouncedIsLinked, Target
<1> QED
  BY <1>1, <1>2, <1>3, <1>4, <1>5, <1>6 DEF IInv

LEMMA GenerateKeeps == IInv /\ Generate => IInv'
<1> SUFFICES ASSUME IInv, Generate
             PROVE  IInv'
  OBVIOUS
<1> USE FilesAssumption DEF Generate, StartGenerate, sources, outputs
<1>1. TypeOK'
  BY DEF IInv, TypeOK, Writing
<1>2. FilesFromValid' /\ ScriptFits'
  BY DEF IInv, FilesFromValid, ScriptFits, Target, Writing
<1>3. CommandSoFar'
  BY DEF CommandSoFar
<1>4. BuiltFromValid' /\ MixedOnlyAfterFailure'
  BY DEF IInv, BuiltFromValid, MixedOnlyAfterFailure
<1>5. StepsInOrderAreCurrent' /\ AnnouncedIsLinked'
  BY DEF StepsInOrderAreCurrent, AnnouncedIsLinked
<1> QED
  BY <1>1, <1>2, <1>3, <1>4, <1>5 DEF IInv

LEMMA WriteChapelKeeps == IInv /\ WriteChapel => IInv'
<1> SUFFICES ASSUME IInv, WriteChapel
             PROVE  IInv'
  OBVIOUS
<1> USE FilesAssumption DEF WriteChapel, outputs
<1>0. Here \in Names /\ loaded \in Manifests /\ Here' = Here
  BY HereIsName DEF IInv, Here
<1>1. TypeOK'
  BY <1>0, FilesThere DEF IInv, TypeOK, Writing
<1>2. FilesFromValid'
  BY <1>0, FilesThere DEF IInv, TypeOK, FilesFromValid, Writing, Here
<1>3. CommandSoFar'
  BY <1>0 DEF IInv, TypeOK, CommandSoFar, Writing
<1>4. ScriptFits'
  BY <1>0, FilesThere, NamesOfManifests DEF IInv, TypeOK, ScriptFits, Target
<1>5. BuiltFromValid' /\ MixedOnlyAfterFailure'
  BY DEF IInv, BuiltFromValid, MixedOnlyAfterFailure
<1>6. StepsInOrderAreCurrent' /\ AnnouncedIsLinked' /\ progress' = "none"
  BY DEF IInv, CommandSoFar, StepsInOrderAreCurrent, AnnouncedIsLinked, Writing
<1> QED
  BY <1>1, <1>2, <1>3, <1>4, <1>5, <1>6 DEF IInv

(* The bridge and the headers: what is written is known to be whole.       *)
LEMMA WriteWholeKeeps == IInv /\ (WriteZig \/ WriteHeader \/ WriteAbiHeader) => IInv'
<1> SUFFICES ASSUME IInv, WriteZig \/ WriteHeader \/ WriteAbiHeader
             PROVE  IInv'
  OBVIOUS
<1> USE FilesAssumption DEF WriteZig, WriteHeader, WriteAbiHeader, outputs, sources
<1>0. Here \in Names /\ loaded \in Manifests /\ Here' = Here
  BY HereIsName DEF IInv, Here
<1>1. TypeOK'
  BY <1>0 DEF IInv, TypeOK, Writing
<1>2. FilesFromValid' /\ ScriptFits'
  BY DEF IInv, FilesFromValid, ScriptFits, Target, Writing
<1>3. CommandSoFar'
  BY <1>0 DEF IInv, TypeOK, CommandSoFar, Writing
<1>4. BuiltFromValid' /\ MixedOnlyAfterFailure'
  BY DEF IInv, BuiltFromValid, MixedOnlyAfterFailure
<1>5. StepsInOrderAreCurrent' /\ AnnouncedIsLinked' /\ progress' = "none"
  BY DEF IInv, CommandSoFar, StepsInOrderAreCurrent, AnnouncedIsLinked, Writing
<1> QED
  BY <1>1, <1>2, <1>3, <1>4, <1>5 DEF IInv

LEMMA WriteScriptKeeps == IInv /\ WriteScript => IInv'
<1> SUFFICES ASSUME IInv, WriteScript
             PROVE  IInv'
  OBVIOUS
<1> USE FilesAssumption DEF WriteScript, outputs
<1>0. Here \in Names /\ loaded \in Manifests /\ Here' = Here
  BY HereIsName DEF IInv, Here
<1>1. TypeOK'
  BY <1>0, FilesThere DEF IInv, TypeOK, Writing
<1>2. FilesFromValid'
  BY <1>0, FilesThere DEF IInv, FilesFromValid, Writing
<1>3. CommandSoFar'
  BY <1>0 DEF IInv, TypeOK, CommandSoFar, Writing
<1>4. ScriptFits'
  BY <1>0, FilesThere DEF IInv, CommandSoFar, ScriptFits, Target, Here, Writing
<1>5. BuiltFromValid' /\ MixedOnlyAfterFailure'
  BY DEF IInv, BuiltFromValid, MixedOnlyAfterFailure
<1>6. StepsInOrderAreCurrent' /\ AnnouncedIsLinked' /\ progress' = "none"
  BY DEF IInv, CommandSoFar, StepsInOrderAreCurrent, AnnouncedIsLinked, Writing
<1> QED
  BY <1>1, <1>2, <1>3, <1>4, <1>5, <1>6 DEF IInv

LEMMA FinishGenerateKeeps == IInv /\ FinishGenerate => IInv'
<1> SUFFICES ASSUME IInv, FinishGenerate
             PROVE  IInv'
  OBVIOUS
<1> USE FilesAssumption DEF FinishGenerate, sources, outputs
<1>0. Here \in Names /\ loaded \in Manifests
  BY HereIsName DEF IInv
<1>1. /\ chapel[Here] = Whole(loaded) /\ zig[Here] = "whole" /\ abi[Here] = "whole"
      /\ script = Whole(loaded) /\ script.cut = "none" /\ Target = Here
  BY <1>0, FilesThere DEF IInv, CommandSoFar, Writing, Target, Here
<1>2. TypeOK'
  BY <1>0 DEF IInv, TypeOK
<1>3. FilesFromValid'
  BY DEF IInv, FilesFromValid, Writing
<1>4. CommandSoFar'
  BY DEF CommandSoFar, Writing
<1>5. ScriptFits'
  BY <1>1 DEF ScriptFits, Target
<1>6. BuiltFromValid' /\ MixedOnlyAfterFailure'
  BY DEF IInv, BuiltFromValid, MixedOnlyAfterFailure
<1>7. StepsInOrderAreCurrent'
  BY <1>1 DEF StepsInOrderAreCurrent, Here
<1>8. AnnouncedIsLinked' /\ (progress' # "none" => manifest' \in Manifests)
  BY <1>0 DEF IInv, CommandSoFar, AnnouncedIsLinked
<1> QED
  BY <1>2, <1>3, <1>4, <1>5, <1>6, <1>7, <1>8 DEF IInv

(* Whatever is cut short, the workload counts as spoiled.                  *)
LEMMA WriteFailsKeeps == IInv /\ WriteFails => IInv'
<1> SUFFICES ASSUME IInv, WriteFails
             PROVE  IInv'
  OBVIOUS
<1> USE DEF WriteFails, outputs
<1>0. Here \in Names /\ loaded \in Manifests
  BY HereIsName DEF IInv, Writing
<1>1. /\ chapel' = chapel \/ (pc = "chapel" /\ \E f \in ChapelFiles :
             f.of = loaded /\ chapel' = [chapel EXCEPT ![Here] = f])
      /\ zig' \in {zig, [zig EXCEPT ![Here] = "torn"]}
      /\ abi' \in {abi, [abi EXCEPT ![Here] = "torn"]}
      /\ script' = script \/ (pc = "script" /\ \E f \in ScriptFiles :
             f.of = loaded /\ script' = f)
  <2>1. CASE UNCHANGED sources
    BY <2>1 DEF sources
  <2>2. CASE Tear
    <3>1. /\ [of |-> loaded, cut |-> "torn"] \in ChapelFiles
          /\ \A c \in Cuts : [of |-> loaded, cut |-> c] \in ScriptFiles
      BY <1>0 DEF ChapelFiles, ScriptFiles
    <3> QED
      BY <2>2, <3>1 DEF Tear
  <2> QED
    BY <2>1, <2>2
<1>2. TypeOK'
  BY <1>0, <1>1 DEF IInv, TypeOK
<1>3. FilesFromValid'
  <2>1. pc \in Writing /\ Validate(loaded)
    BY DEF IInv, FilesFromValid
  <2>2. script' # None => Validate(script'.of)
    BY <1>1, <2>1 DEF IInv, FilesFromValid
  <2>3. \A n \in Names : chapel'[n] # None =>
          Validate(chapel'[n].of) /\ SafeName(chapel'[n].of.name) = n
    BY <1>0, <1>1, <2>1 DEF IInv, TypeOK, FilesFromValid, Here
  <2> QED
    BY <2>2, <2>3 DEF FilesFromValid, Writing
<1>4. CommandSoFar'
  BY FilesAssumption DEF IInv, CommandSoFar, Writing
<1>5. ScriptFits'
  <2> SUFFICES ASSUME script' # None
               PROVE  spoiled'[Target'] \/ (script'.cut = "none" /\ chapel'[Target'] = script')
    BY DEF ScriptFits
  <2>1. CASE script' = script
    <3>1. Target' = Target /\ Target \in Names
      BY <2>1, FilesThere, NamesOfManifests DEF IInv, TypeOK, Target
    <3>2. spoiled[Target] => spoiled'[Target]
      BY <3>1, <1>0 DEF IInv, TypeOK
    <3>3. chapel'[Target] # chapel[Target] => spoiled'[Target]
      BY <3>1, <1>0, <1>1 DEF IInv, TypeOK
    <3> QED
      BY <2>1, <3>1, <3>2, <3>3 DEF IInv, ScriptFits
  <2>2. CASE script' # script
    <3>1. pc = "script" /\ Target' = Here
      BY <2>2, <1>1 DEF Target, Here
    <3>2. spoiled[Here]
      BY <3>1 DEF IInv, CommandSoFar, Writing
    <3> QED
      BY <3>1, <3>2, <1>0 DEF IInv, TypeOK
  <2> QED
    BY <2>1, <2>2
<1>6. BuiltFromValid' /\ MixedOnlyAfterFailure'
  BY DEF IInv, BuiltFromValid, MixedOnlyAfterFailure
<1>7. StepsInOrderAreCurrent' /\ AnnouncedIsLinked' /\ progress' = "none"
  BY DEF IInv, CommandSoFar, StepsInOrderAreCurrent, AnnouncedIsLinked, Writing
<1> QED
  BY <1>2, <1>3, <1>4, <1>5, <1>6, <1>7 DEF IInv

LEMMA BuildKeeps == IInv /\ Build => IInv'
<1> SUFFICES ASSUME IInv, Build
             PROVE  IInv'
  OBVIOUS
<1> USE FilesAssumption DEF Build, sources, outputs
<1>1. TypeOK'
  BY DEF IInv, TypeOK
<1>2. FilesFromValid' /\ ScriptFits' /\ CommandSoFar'
  BY DEF IInv, FilesFromValid, ScriptFits, CommandSoFar, Target, Writing
<1>3. BuiltFromValid' /\ MixedOnlyAfterFailure'
  BY DEF IInv, BuiltFromValid, MixedOnlyAfterFailure
<1>4. StepsInOrderAreCurrent' /\ AnnouncedIsLinked'
  BY DEF IInv, StepsInOrderAreCurrent, AnnouncedIsLinked
<1> QED
  BY <1>1, <1>2, <1>3, <1>4 DEF IInv

(* The steps of build.sh before the binary, where it may end early, and a  *)
(* command that fails.                                                     *)
LEMMA ScriptStepKeeps ==
  IInv /\ (CompileBridge \/ CheckUserLib \/ StopsShort \/ BuildFails) => IInv'
<1> SUFFICES ASSUME IInv, CompileBridge \/ CheckUserLib \/ StopsShort \/ BuildFails
             PROVE  IInv'
  OBVIOUS
<1> USE FilesAssumption DEF CompileBridge, CheckUserLib, StopsShort, BuildFails, sources, outputs
<1>1. TypeOK'
  BY DEF IInv, TypeOK
<1>2. FilesFromValid' /\ ScriptFits'
  BY DEF IInv, FilesFromValid, ScriptFits, Target, Writing
<1>3. CommandSoFar'
  BY DEF IInv, CommandSoFar, Writing
<1>4. BuiltFromValid' /\ MixedOnlyAfterFailure'
  BY DEF IInv, BuiltFromValid, MixedOnlyAfterFailure
<1>5. StepsInOrderAreCurrent' /\ AnnouncedIsLinked'
  BY DEF IInv, CommandSoFar, StepsInOrderAreCurrent, AnnouncedIsLinked
<1> QED
  BY <1>1, <1>2, <1>3, <1>4, <1>5 DEF IInv

(* The binary is linked from what fits together, or is marked as spoiled.  *)
LEMMA CompileWrapperKeeps == IInv /\ CompileWrapper => IInv'
<1> SUFFICES ASSUME IInv, CompileWrapper
             PROVE  IInv'
  OBVIOUS
<1> USE DEF CompileWrapper, CanLink, sources
<1>1. script \in ScriptFiles /\ script # None /\ Target \in Names
  BY FilesThere, NamesOfManifests DEF IInv, TypeOK, CommandSoFar, Target
<1>2. /\ Linked \in Binaries
      /\ Linked.chapel = chapel[Target] /\ Linked.script = script
      /\ Linked.spoiled = spoiled[Target]
      /\ Linked # None
  <2>1. chapel[Target] \in ChapelFiles /\ spoiled[Target] \in BOOLEAN
    BY <1>1 DEF IInv, TypeOK
  <2>2. Linked \in Binaries
    BY <2>1, <1>1 DEF Linked, Binaries
  <2> QED
    BY <2>2, FilesThere DEF Linked
<1> HIDE DEF Linked
<1>3. /\ binary'[Target] = Linked
      /\ \A n \in Names : n # Target => binary'[n] = binary[n]
  BY <1>1 DEF IInv, TypeOK
<1>4. TypeOK'
  BY <1>1, <1>2 DEF IInv, TypeOK, Writing
<1>5. FilesFromValid' /\ ScriptFits'
  BY DEF IInv, FilesFromValid, ScriptFits, Target, Writing
<1>6. CommandSoFar'
  BY <1>1, <1>2, <1>3 DEF IInv, CommandSoFar, UpToDate, Target, Writing
<1>7. BuiltFromValid'
  BY <1>1, <1>2, <1>3 DEF IInv, BuiltFromValid, FilesFromValid, Target
<1>8. MixedOnlyAfterFailure'
  <2>1. spoiled[Target] \/ \E m \in Manifests : chapel[Target] = Whole(m) /\ script = Whole(m)
    BY <1>1, FilesThere DEF IInv, ScriptFits
  <2> QED
    BY <1>1, <1>2, <1>3, <2>1 DEF IInv, MixedOnlyAfterFailure
<1>9. StepsInOrderAreCurrent'
  <2> SUFFICES ASSUME progress # "none"
               PROVE  StepsInOrderAreCurrent'
    BY DEF StepsInOrderAreCurrent
  <2>1. SafeName(manifest.name) = Target
    BY FilesThere DEF IInv, StepsInOrderAreCurrent, Target
  <2> QED
    BY <1>1, <1>2, <1>3, <2>1 DEF IInv, StepsInOrderAreCurrent
<1>10. AnnouncedIsLinked'
  BY DEF IInv, CommandSoFar, AnnouncedIsLinked
<1> QED
  BY <1>4, <1>5, <1>6, <1>7, <1>8, <1>9, <1>10 DEF IInv

(* What is announced is of the manifest loaded; of a script that was whole *)
(* as far as its commands go it is up to date.                             *)
LEMMA BuildSucceedsKeeps == IInv /\ BuildSucceeds => IInv'
<1> SUFFICES ASSUME IInv, BuildSucceeds
             PROVE  IInv'
  OBVIOUS
<1> USE FilesAssumption DEF BuildSucceeds, sources, outputs
<1>1. Here \in Names
  BY HereIsName DEF IInv
<1>2. TypeOK'
  BY <1>1 DEF IInv, TypeOK
<1>3. FilesFromValid' /\ ScriptFits' /\ CommandSoFar'
  BY DEF IInv, FilesFromValid, ScriptFits, CommandSoFar, Target, Writing
<1>4. BuiltFromValid' /\ MixedOnlyAfterFailure'
  BY DEF IInv, BuiltFromValid, MixedOnlyAfterFailure
<1>5. StepsInOrderAreCurrent'
  <2> SUFFICES ASSUME progress # "none"
               PROVE  StepsInOrderAreCurrent'
    BY DEF IInv, TypeOK, StepsInOrderAreCurrent
  <2>1. SafeName(manifest.name) = Target /\ script.cut = "none"
    BY FilesThere DEF IInv, StepsInOrderAreCurrent, Target
  <2>2. UpToDate /\ ran = "nothing"
    BY <2>1 DEF IInv, CommandSoFar
  <2> QED
    BY <2>1, <2>2 DEF IInv, StepsInOrderAreCurrent, UpToDate
<1>6. AnnouncedIsLinked'
  BY DEF IInv, CommandSoFar, AnnouncedIsLinked, UpToDate, Target
<1> QED
  BY <1>2, <1>3, <1>4, <1>5, <1>6 DEF IInv

LEMMA RunKeeps == IInv /\ Run => IInv'
<1> SUFFICES ASSUME IInv, Run
             PROVE  IInv'
  OBVIOUS
<1> USE DEF Run, sources, outputs, command
<1>1. TypeOK'
  BY DEF IInv, TypeOK
<1>2. FilesFromValid' /\ ScriptFits' /\ CommandSoFar'
  BY DEF IInv, FilesFromValid, ScriptFits, CommandSoFar, UpToDate, Target, Here
<1>3. BuiltFromValid' /\ MixedOnlyAfterFailure' /\ AnnouncedIsLinked'
  BY DEF IInv, BuiltFromValid, MixedOnlyAfterFailure, AnnouncedIsLinked, Target
<1>4. StepsInOrderAreCurrent'
  BY DEF IInv, StepsInOrderAreCurrent
<1> QED
  BY <1>1, <1>2, <1>3, <1>4 DEF IInv

LEMMA StutterKeeps == IInv /\ UNCHANGED vars => IInv'
<1> SUFFICES ASSUME IInv, UNCHANGED vars
             PROVE  IInv'
  OBVIOUS
<1> USE DEF vars, sources, outputs, command
<1>1. TypeOK'
  BY DEF IInv, TypeOK
<1>2. FilesFromValid' /\ ScriptFits' /\ CommandSoFar'
  BY DEF IInv, FilesFromValid, ScriptFits, CommandSoFar, UpToDate, Target, Here
<1>3. BuiltFromValid' /\ MixedOnlyAfterFailure' /\ AnnouncedIsLinked'
  BY DEF IInv, BuiltFromValid, MixedOnlyAfterFailure, AnnouncedIsLinked, Target
<1>4. StepsInOrderAreCurrent'
  BY DEF IInv, StepsInOrderAreCurrent
<1> QED
  BY <1>1, <1>2, <1>3, <1>4 DEF IInv

LEMMA Inductive == Spec => []IInv
<1>1. IInv /\ [Next]_vars => IInv'
  <2> SUFFICES ASSUME IInv, [Next]_vars
               PROVE  IInv'
    OBVIOUS
  <2>1. CASE EditManifest
    BY <2>1, EditKeeps DEF EditManifest
  <2>2. CASE InitManifest
    BY <2>2, EditKeeps, TemplateAssumption DEF InitManifest
  <2>3. CASE Generate
    BY <2>3, GenerateKeeps
  <2>4. CASE WriteChapel
    BY <2>4, WriteChapelKeeps
  <2>5. CASE WriteZig \/ WriteHeader \/ WriteAbiHeader
    BY <2>5, WriteWholeKeeps
  <2>6. CASE WriteScript
    BY <2>6, WriteScriptKeeps
  <2>7. CASE FinishGenerate
    BY <2>7, FinishGenerateKeeps
  <2>8. CASE WriteFails
    BY <2>8, WriteFailsKeeps
  <2>9. CASE Build
    BY <2>9, BuildKeeps
  <2>10. CASE CompileBridge \/ CheckUserLib \/ StopsShort \/ BuildFails
    BY <2>10, ScriptStepKeeps
  <2>11. CASE CompileWrapper
    BY <2>11, CompileWrapperKeeps
  <2>12. CASE BuildSucceeds
    BY <2>12, BuildSucceedsKeeps
  <2>13. CASE Run
    BY <2>13, RunKeeps
  <2>14. CASE UNCHANGED vars
    BY <2>14, StutterKeeps
  <2> QED
    BY <2>1, <2>2, <2>3, <2>4, <2>5, <2>6, <2>7, <2>8, <2>9, <2>10, <2>11, <2>12,
       <2>13, <2>14 DEF Next
<1> QED
  BY <1>1, InitEstablishes, PTL DEF Spec

(* Types; a running command has a manifest that parsed.                    *)
THEOREM TypeCorrect == Spec => []TypeOK
<1>1. IInv => TypeOK
  BY DEF IInv
<1> QED
  BY <1>1, Inductive, PTL

(* generate is the only command that validates, and that is enough: every  *)
(* binary is made from valid manifests of its own safe name.               *)
THEOREM BinariesValid == Spec => []BuiltFromValid
<1>1. IInv => BuiltFromValid
  BY DEF IInv
<1> QED
  BY <1>1, Inductive, PTL

(* A binary mixes two manifests only if it was built after a generate of   *)
(* its name had failed half way.                                           *)
THEOREM BinariesUnmixed == Spec => []MixedOnlyAfterFailure
<1>1. IInv => MixedOnlyAfterFailure
  BY DEF IInv
<1> QED
  BY <1>1, Inductive, PTL

(* generate, build and run in order work with the manifest as it is.       *)
THEOREM OrderIsEnough == Spec => []StepsInOrderAreCurrent
<1>1. IInv => StepsInOrderAreCurrent
  BY DEF IInv
<1> QED
  BY <1>1, Inductive, PTL

(* A build that announces the binary of a whole script has just linked it. *)
THEOREM AnnouncementsTrue == Spec => []AnnouncedIsLinked
<1>1. IInv => AnnouncedIsLinked
  BY DEF IInv
<1> QED
  BY <1>1, Inductive, PTL
=============================================================================
