----------------------------- MODULE MCRecovery -----------------------------
(* Instances of Recovery for TLC. *)
EXTENDS Recovery

MCPerItem == {"per-item"}
MCSaveOrNot == {"per-item", "chunk", "adaptive", "keyed"}

MCKeyHash == [i \in Items |-> i + 3]
=============================================================================
