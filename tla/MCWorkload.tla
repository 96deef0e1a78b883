----------------------------- MODULE MCWorkload -----------------------------
(* Instances of Workload for TLC. *)
EXTENDS Workload

\* One manifest for each gather strategy under a partition strategy that
\* reads grainSize and one that does not, with and without attempts and
\* checkpoints; chunks that two locales share evenly and three do not; and a
\* manifest that does not validate.
MCManifests ==
  LET Of(partition, gatherBy, grain, retries) ==
        [Template EXCEPT !.partition = partition, !.gather = gatherBy,
                         !.grainSize = grain, !.retries = retries,
                         !.checkpoint = retries > 1]
  IN  {Of(p, g, 50, r) : p \in {"adaptive", "keyed"}, g \in Gathers, r \in {0, 3}}
        \cup {Of("chunk", g, 3, 3) : g \in Gathers}
        \cup {Of("chunk", "merge", 0, 3)}

\* No override, and one at a time.
MCArguments ==
  {<<>>, [totalItems |-> NItems], [grainSize |-> 0], [maxRetries |-> 0],
   [enableCheckpoint |-> TRUE]}
=============================================================================
