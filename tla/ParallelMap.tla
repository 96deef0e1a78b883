----------------------------- MODULE ParallelMap -----------------------------
(***************************************************************************)
(* What the distribution phase promises, whatever the partition strategy:  *)
(* every item is decided exactly once, as succeeded or as failed, in any   *)
(* order, and the phase ends once no item is undecided.                    *)
(***************************************************************************)
EXTENDS Naturals

CONSTANT Items

VARIABLES
  outcome,   \* what is known of each item
  joined     \* the phase has ended

vars == <<outcome, joined>>

Outcomes == {"pending", "ok", "failed"}

Init ==
  /\ outcome = [i \in Items |-> "pending"]
  /\ joined = FALSE

Decide(i) ==
  /\ ~joined
  /\ outcome[i] = "pending"
  /\ \E verdict \in {"ok", "failed"} :
       outcome' = [outcome EXCEPT ![i] = verdict]
  /\ UNCHANGED joined

Join ==
  /\ ~joined
  /\ \A i \in Items : outcome[i] # "pending"
  /\ joined' = TRUE
  /\ UNCHANGED outcome

Next == Join \/ \E i \in Items : Decide(i)

SafeSpec == Init /\ [][Next]_vars

Spec == SafeSpec /\ WF_vars(Next)
=============================================================================
