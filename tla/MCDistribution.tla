--------------------------- MODULE MCDistribution ---------------------------
(* Instances of Distribution for TLC. *)
EXTENDS Distribution

MCAll == {"per-item", "chunk", "adaptive", "spatial", "keyed"}
MCChunk == {"chunk"}
MCKeyed == {"keyed"}

\* Hashes with two items of the same key and one locale that owns nothing
\* when there are three.
MCKeyHash == [i \in Items |-> IF i \in {0, 2} THEN 4 ELSE 3]
=============================================================================
