----------------------------- MODULE MCPipeline -----------------------------
(* Two workloads whose names fall together, one that does not validate,    *)
(* and the template of init.                                               *)
EXTENDS Pipeline, FiniteSets

CONSTANT MaxTorn  \* how many of the files generate writes are torn at a time

MCManifests ==
  LET Of(name, partition, grain) ==
        [Template EXCEPT !.name = name, !.partition = partition, !.grainSize = grain]
  IN {Template,
      Of(<<"scan", "-", "all">>, "chunk", 50),
      Of(<<"scan", "_", "all">>, "keyed", 50),
      Of(<<"scan", "-", "all">>, "chunk", 0)}

TornFiles ==
  {"chapel"} \X {n \in Names : chapel[n] # None /\ chapel[n].cut = "torn"}
    \cup {"zig"} \X {n \in Names : zig[n] = "torn"}
    \cup {"abi"} \X {n \in Names : abi[n] = "torn"}
    \cup {"script"} \X {n \in Names : script # None /\ Target = n /\ script.cut # "none"}

FewTorn == Cardinality(TornFiles) <= MaxTorn
=============================================================================
