------------------------------ MODULE Pipeline ------------------------------
(***************************************************************************)
(* The command line over one project directory: init, generate, build and  *)
(* run, one command at a time, while the user edits chapeliser.toml at any *)
(* moment and any write or tool may fail (or the command be interrupted).  *)
(*                                                                         *)
(* A file is None when it is absent, and else what it was generated from   *)
(* and where a failed write has cut it short; of chapeliser.toml only that *)
(* it is Torn and does not load.  The bridge and the headers depend on     *)
(* nothing but the workload's name, so it is enough to know whether they   *)
(* are whole.  The tools may accept what has been cut, down to a file that *)
(* is empty.  A command that fails before it changes a file (a manifest    *)
(* that does not parse or validate, a directory that cannot be made, a     *)
(* compiler that is not installed, generate into another directory) is a   *)
(* stuttering step.                                                        *)
(***************************************************************************)
EXTENDS Manifest

CONSTANTS
  Manifests,  \* what the user may write to chapeliser.toml, if it parses
  None, Torn

\* name.replace('-', "_")
SafeName(name) == [k \in DOMAIN name |-> IF name[k] = "-" THEN "_" ELSE name[k]]

ASSUME TemplateAssumption == Template \in Manifests

ChapelFiles == [of : Manifests, cut : {"none", "torn"}]

\* build.sh may be cut inside or somewhere before the command that compiles the
\* bridge; inside or before the one that compiles the wrapper; or in the echoes
\* that follow.
Cuts == {"bridge", "wrapper", "echo"}

ScriptFiles == [of : Manifests, cut : {"none"} \cup Cuts]

Whole(m) == [of |-> m, cut |-> "none"]

\* What a binary was made from, and whether a generate had been broken off.
Binaries == [chapel : ChapelFiles, script : ScriptFiles, spoiled : BOOLEAN]

ASSUME FilesAssumption ==
  /\ None # Torn /\ {None, Torn} \cap Manifests = {}
  /\ None \notin ChapelFiles \cup ScriptFiles \cup Binaries

Names == {SafeName(m.name) : m \in Manifests}

-----------------------------------------------------------------------------
VARIABLES
  manifest,  \* chapeliser.toml
  chapel,    \* of each safe name, chapel/<name>_distributed.chpl
  zig,       \* zig/<name>_ffi.zig is "absent", "torn" or "whole"
  abi,       \* include/<name>_abi.h, likewise
  script,    \* build.sh, the only artifact whose path does not hold the name
  ffi,       \* <name>_ffi.o exists
  binary,    \* <name>_distributed
  pc,        \* where the running command is, or "idle"
  loaded,    \* the manifest it works with
  reported,  \* the name of the binary the last build has announced
  progress,  \* history: steps of generate, build done for this very manifest
  spoiled,   \* history: a generate of this name wrote files and did not finish
  ran        \* history: the last run's binary is "current" or "stale"

sources == <<chapel, zig, abi, script>>
outputs == <<ffi, binary>>
command == <<pc, loaded>>
vars == <<manifest, sources, outputs, command, reported, progress, spoiled, ran>>

Init ==
  /\ manifest \in Manifests \cup {None}
  /\ chapel = [n \in Names |-> None]
  /\ zig = [n \in Names |-> "absent"]
  /\ abi = [n \in Names |-> "absent"]
  /\ script = None
  /\ ffi = [n \in Names |-> FALSE]
  /\ binary = [n \in Names |-> None]
  /\ pc = "idle"
  /\ loaded = None
  /\ reported = None
  /\ progress = "none"
  /\ spoiled = [n \in Names |-> FALSE]
  /\ ran = "nothing"

\* An edit of chapeliser.toml, during a command or between two.
EditManifest ==
  /\ \E m \in (Manifests \cup {None, Torn}) \ {manifest} : manifest' = m
  /\ progress' = "none"
  /\ ran' = "nothing"
  /\ UNCHANGED <<sources, outputs, command, reported, spoiled>>

\* init never overwrites; its write may be cut short.  A part of the template
\* that still loads is as an edit.
InitManifest ==
  /\ pc = "idle"
  /\ manifest = None
  /\ manifest' \in {Template, Torn}
  /\ progress' = "none"
  /\ ran' = "nothing"
  /\ UNCHANGED <<sources, outputs, command, reported, spoiled>>

-----------------------------------------------------------------------------
(* generate                                                                *)

StartGenerate ==
  /\ pc = "idle"
  /\ loaded' = manifest
  /\ pc' = "chapel"
  /\ reported' = None
  /\ progress' = "none"
  /\ ran' = "nothing"
  /\ UNCHANGED <<manifest, sources, outputs, spoiled>>

\* Mutant: the manifest is parsed, not validated.
Generate_Unvalidated == manifest \in Manifests /\ StartGenerate

Generate ==
  /\ manifest \in Manifests
  /\ Validate(manifest)
  /\ StartGenerate

Here == SafeName(loaded.name)

WriteChapel ==
  /\ pc = "chapel"
  /\ chapel' = [chapel EXCEPT ![Here] = Whole(loaded)]
  /\ spoiled' = [spoiled EXCEPT ![Here] = TRUE]
  /\ pc' = "zig"
  /\ UNCHANGED <<manifest, zig, abi, script, outputs, loaded, reported, progress, ran>>

WriteZig ==
  /\ pc = "zig"
  /\ zig' = [zig EXCEPT ![Here] = "whole"]
  /\ pc' = "header"
  /\ UNCHANGED <<manifest, chapel, abi, script, outputs, loaded, reported,
                 progress, spoiled, ran>>

\* The header for the user's code, which no build reads.
WriteHeader ==
  /\ pc = "header"
  /\ pc' = "abi"
  /\ UNCHANGED <<manifest, sources, outputs, loaded, reported, progress, spoiled, ran>>

WriteAbiHeader ==
  /\ pc = "abi"
  /\ abi' = [abi EXCEPT ![Here] = "whole"]
  /\ pc' = "script"
  /\ UNCHANGED <<manifest, chapel, zig, script, outputs, loaded, reported,
                 progress, spoiled, ran>>

WriteScript ==
  /\ pc = "script"
  /\ script' = Whole(loaded)
  /\ pc' = "mode"
  /\ UNCHANGED <<manifest, chapel, zig, abi, outputs, loaded, reported,
                 progress, spoiled, ran>>

\* build.sh is made executable, and generate_all is done.
FinishGenerate ==
  /\ pc = "mode"
  /\ pc' = "idle"
  /\ loaded' = None
  /\ progress' = IF loaded = manifest THEN "generated" ELSE "none"
  /\ spoiled' = [spoiled EXCEPT ![Here] = FALSE]
  /\ UNCHANGED <<manifest, sources, outputs, reported, ran>>

Writing == {"chapel", "zig", "header", "abi", "script", "mode"}

\* fs::write truncates and then writes: the file may be left cut short.
Tear ==
  /\ chapel' = IF pc = "chapel"
                 THEN [chapel EXCEPT ![Here] = [of |-> loaded, cut |-> "torn"]]
                 ELSE chapel
  /\ zig' = IF pc = "zig" THEN [zig EXCEPT ![Here] = "torn"] ELSE zig
  /\ abi' = IF pc = "abi" THEN [abi EXCEPT ![Here] = "torn"] ELSE abi
  /\ IF pc = "script"
       THEN \E cut \in Cuts : script' = [of |-> loaded, cut |-> cut]
       ELSE UNCHANGED script

\* Mutant: an error of a generator does not end generate_all.
WriteFails_Ignored ==
  /\ pc = "chapel"
  /\ pc' = "zig"
  /\ UNCHANGED <<manifest, sources, outputs, loaded, reported, progress, spoiled, ran>>

\* The file of this step is torn or untouched, and the error ends generate.
WriteFails ==
  /\ pc \in Writing
  /\ Tear \/ UNCHANGED sources
  /\ spoiled' = [spoiled EXCEPT ![Here] = @ \/ chapel' # chapel]
  /\ pc' = "idle"
  /\ loaded' = None
  /\ UNCHANGED <<manifest, outputs, reported, progress, ran>>

-----------------------------------------------------------------------------
(* build                                                                   *)

Target == SafeName(script.of.name)

\* Mutant: what cannot be parsed is taken for a manifest.
Build_Unparsed ==
  /\ pc = "idle"
  /\ script # None
  /\ loaded' = manifest
  /\ pc' = "bridge"
  /\ reported' = None
  /\ ran' = "nothing"
  /\ UNCHANGED <<manifest, sources, outputs, progress, spoiled>>

\* build parses the manifest but does not validate it.
Build ==
  /\ pc = "idle"
  /\ manifest \in Manifests
  /\ script # None
  /\ loaded' = manifest
  /\ pc' = "bridge"
  /\ reported' = None
  /\ ran' = "nothing"
  /\ UNCHANGED <<manifest, sources, outputs, progress, spoiled>>

\* The name of the object, which a cut may take off the command, is also zig's
\* default for it.
CompileBridge ==
  /\ pc = "bridge"
  /\ zig[Target] # "absent"
  /\ ffi' = [ffi EXCEPT ![Target] = TRUE]
  /\ pc' = IF script.cut = "bridge" THEN "exit" ELSE "library"
  /\ UNCHANGED <<manifest, sources, binary, loaded, reported, progress, spoiled, ran>>

\* USER_LIB names a file.
CheckUserLib ==
  /\ pc = "library"
  /\ pc' = "wrapper"
  /\ UNCHANGED <<manifest, sources, outputs, loaded, reported, progress, spoiled, ran>>

CanLink ==
  /\ pc = "wrapper"
  /\ chapel[Target] # None
  /\ abi[Target] # "absent"
  /\ ffi[Target]

Linked == [chapel |-> chapel[Target], script |-> script, spoiled |-> spoiled[Target]]

\* Mutant: a binary that exists is taken to be up to date.
CompileWrapper_Cached ==
  /\ CanLink
  /\ binary' = [binary EXCEPT ![Target] = IF @ = None THEN Linked ELSE @]
  /\ pc' = "exit"
  /\ UNCHANGED <<manifest, sources, ffi, loaded, reported, progress, spoiled, ran>>

\* Of a command that is cut the flags and the name may be missing, which is
\* also chpl's default.
CompileWrapper ==
  /\ CanLink
  /\ binary' = [binary EXCEPT ![Target] = Linked]
  /\ pc' = "exit"
  /\ UNCHANGED <<manifest, sources, ffi, loaded, reported, progress, spoiled, ran>>

\* A script that was cut before a command ends there, with 0.
StopsShort ==
  /\ pc \in {"bridge", "wrapper"}
  /\ script.cut = pc
  /\ pc' = "exit"
  /\ UNCHANGED <<manifest, sources, outputs, loaded, reported, progress, spoiled, ran>>

\* The script exits with 0; build announces the binary of the manifest it has
\* loaded.
BuildSucceeds ==
  /\ pc = "exit"
  /\ pc' = "idle"
  /\ loaded' = None
  /\ reported' = Here
  /\ progress' = IF progress = "generated" THEN "built" ELSE progress
  /\ UNCHANGED <<manifest, sources, outputs, spoiled, ran>>

\* Mutant: a script without "set -e", whose last command is an echo.
BuildFails_Ignored ==
  /\ pc \in {"bridge", "library", "wrapper"}
  /\ pc' = "idle"
  /\ loaded' = None
  /\ reported' = Here
  /\ UNCHANGED <<manifest, sources, outputs, progress, spoiled, ran>>

\* A command of the script fails; "set -e" ends it, what is built stays.
BuildFails ==
  /\ pc \in {"bridge", "library", "wrapper", "exit"}
  /\ pc' = "idle"
  /\ loaded' = None
  /\ UNCHANGED <<manifest, sources, outputs, reported, progress, spoiled, ran>>

-----------------------------------------------------------------------------
(* run                                                                     *)

\* run parses the manifest for the name, and starts the binary it finds.
Run ==
  /\ pc = "idle"
  /\ manifest \in Manifests
  /\ LET b == binary[SafeName(manifest.name)]
     IN /\ b # None
        /\ ran' = IF {b.chapel, b.script} = {Whole(manifest)} THEN "current" ELSE "stale"
  /\ UNCHANGED <<manifest, sources, outputs, command, reported, progress, spoiled>>

Next ==
  \/ EditManifest \/ InitManifest
  \/ Generate \/ WriteChapel \/ WriteZig \/ WriteHeader \/ WriteAbiHeader
  \/ WriteScript \/ FinishGenerate \/ WriteFails
  \/ Build \/ CompileBridge \/ CheckUserLib \/ CompileWrapper \/ StopsShort
  \/ BuildSucceeds \/ BuildFails
  \/ Run

Spec == Init /\ [][Next]_vars

-----------------------------------------------------------------------------
(* Types; a command that runs has a manifest that parsed.                  *)
TypeOK ==
  /\ manifest \in Manifests \cup {None, Torn}
  /\ chapel \in [Names -> ChapelFiles \cup {None}]
  /\ zig \in [Names -> {"absent", "torn", "whole"}]
  /\ abi \in [Names -> {"absent", "torn", "whole"}]
  /\ script \in ScriptFiles \cup {None}
  /\ ffi \in [Names -> BOOLEAN]
  /\ binary \in [Names -> Binaries \cup {None}]
  /\ pc \in Writing \cup {"idle", "bridge", "library", "wrapper", "exit"}
  /\ loaded \in IF pc = "idle" THEN {None} ELSE Manifests
  /\ reported \in Names \cup {None}
  /\ progress \in {"none", "generated", "built"}
  /\ spoiled \in [Names -> BOOLEAN]
  /\ ran \in {"nothing", "current", "stale"}

(* Only generate validates, yet build and run act on a manifest that may   *)
(* have been edited since, build.sh may be another workload's, and it and  *)
(* what it compiles may have been cut short: still everything in a binary  *)
(* comes from manifests that were valid, of the binary's own name.         *)
BuiltFromValid ==
  \A n \in Names : binary[n] # None =>
    \A f \in {binary[n].chapel, binary[n].script} :
      Validate(f.of) /\ SafeName(f.of.name) = n

(* A program and the flags it was compiled with come from one manifest and *)
(* from whole files, unless a generate of that name had failed half way    *)
(* when it was built - also when two workloads share a safe name, or take  *)
(* turns in build.sh.                                                      *)
MixedOnlyAfterFailure ==
  \A n \in Names : binary[n] # None =>
    \/ binary[n].spoiled
    \/ \E m \in Manifests : binary[n].chapel = Whole(m) /\ binary[n].script = Whole(m)

(* generate, build and run in this order, with no edit after the first     *)
(* has loaded the manifest, use that manifest - whatever failed commands   *)
(* and other workloads have left in the directory before.                  *)
StepsInOrderAreCurrent ==
  progress # "none" =>
    LET n == SafeName(manifest.name) IN
    /\ chapel[n] = Whole(manifest)
    /\ script = Whole(manifest)
    /\ zig[n] = "whole" /\ abi[n] = "whole"
    /\ progress = "built" => /\ ran # "stale"
                             /\ binary[n].chapel = Whole(manifest)
                             /\ binary[n].script = Whole(manifest)

(* A build that announces success has linked what is in the directory,     *)
(* provided build.sh is of the workload that is announced and whole as far *)
(* as its commands go: an error of any of them does not get lost.          *)
AnnouncedIsLinked ==
  reported # None /\ script # None =>
    (script.cut \in {"none", "echo"} /\ Target = reported =>
       /\ binary[reported] # None
       /\ binary[reported].chapel = chapel[reported]
       /\ binary[reported].script = script)
=============================================================================
