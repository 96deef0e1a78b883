------------------------------ MODULE Manifest ------------------------------
(***************************************************************************)
(* chapeliser.toml: what loading makes of a file that parses, what         *)
(* validate accepts, the file init writes, and the config constants that   *)
(* the manifest gives a generated program and its command line overrides.  *)
(*                                                                         *)
(* A file is the function of the keys it has; of the optional ones without *)
(* those that only shape the generated text.  A name and an entry point    *)
(* are sequences of pieces.  An optional value is the set of it, or {}.    *)
(***************************************************************************)
EXTENDS Integers, Sequences

Partitions     == {"per-item", "chunk", "adaptive", "spatial", "keyed"}
Gathers        == {"merge", "reduce", "tree-reduce", "stream", "first"}
Serializations == {"bincode", "messagepack", "cbor", "json", "flatbuffers", "raw"}

\* The keys that have no default: those of [workload] and of [data].
RequiredKeys == {"name", "entry", "partition", "gather", "inputType", "outputType"}

\* [scaling] must be there too, although each of its keys may be left out.
Required == RequiredKeys \cup {"scaling"}

\* The default_* functions, and None for the optional keys.
Defaults ==
  [serialization |-> "bincode", maxItemBytes |-> {},
   minNodes |-> 1, maxNodes |-> 64, grainSize |-> 50, expectedItems |-> {},
   retries |-> 3, checkpoint |-> FALSE, checkpointIntervalSecs |-> 300,
   redistribute_on_failure |-> TRUE]

Loads(file) == Required \subseteq DOMAIN file

\* load_manifest: absent keys get their defaults, unknown ones are ignored.
Loaded(file) ==
  [key \in RequiredKeys \cup DOMAIN Defaults |->
     IF key \in DOMAIN file THEN file[key] ELSE Defaults[key]]

\* Mutant: a grain of zero is accepted.
Validate_AnyGrain(m) ==
  /\ m.partition \in Partitions
  /\ m.gather \in Gathers
  /\ m.serialization \in Serializations
  /\ m.minNodes # 0
  /\ m.maxNodes >= m.minNodes
  /\ \E k \in DOMAIN m.entry : m.entry[k] \in {":", "::"}

Validate(m) ==
  /\ m.partition \in Partitions
  /\ m.gather \in Gathers
  /\ m.serialization \in Serializations
  /\ m.minNodes # 0
  /\ m.maxNodes >= m.minNodes
  /\ m.grainSize # 0
  /\ \E k \in DOMAIN m.entry : m.entry[k] \in {":", "::"}

\* The file init writes.  Its redistribute-on-failure is not the key that
\* the loader knows, redistribute_on_failure, and so it is left out here.
TemplateFile ==
  [name |-> <<"my", "-", "workload">>, entry |-> <<"src/lib.rs", "::", "process_batch">>,
   partition |-> "per-item", gather |-> "merge", inputType |-> "Vec<PathBuf>",
   outputType |-> "Vec<Result>", serialization |-> "bincode", scaling |-> "table",
   minNodes |-> 1, maxNodes |-> 64, grainSize |-> 50, retries |-> 3,
   checkpoint |-> FALSE]

Template == Loaded(TemplateFile)

-----------------------------------------------------------------------------
(* The config constants of the program generated from manifest m.          *)

ConfigConstants(m) ==
  [totalItems             |-> 0,
   maxItemBytes           |-> IF m.maxItemBytes = {}
                                THEN 1048576
                                ELSE CHOOSE bytes \in m.maxItemBytes : TRUE,
   grainSize              |-> m.grainSize,
   maxRetries             |-> m.retries,
   enableCheckpoint       |-> m.checkpoint,
   checkpointIntervalSecs |-> m.checkpointIntervalSecs]

\* As they are when it runs with the options --name=value of args.
Overridden(config, args) ==
  [c \in DOMAIN config |-> IF c \in DOMAIN args THEN args[c] ELSE config[c]]
=============================================================================
