------------------------------ MODULE Reduction ------------------------------
(***************************************************************************)
(* What a parallel reduction promises, whatever the shape of its tree: the *)
(* successful results are combined two parts at a time, each result is in  *)
(* exactly one part, and the end of it is one part with all of them.  A    *)
(* combination that fails loses the parts it was to combine, and nothing   *)
(* is promised of the verdict after that.                                  *)
(***************************************************************************)
CONSTANT Items

VARIABLES
  parts,    \* the sets of items combined so far
  lossy,    \* a combination failed
  verdict   \* "open" while parts are left to combine, then "valid" or "none"

vars == <<parts, lossy, verdict>>

Init ==
  /\ \E ok \in SUBSET Items : parts = {{i} : i \in ok}
  /\ lossy = FALSE
  /\ verdict = "open"

Combine ==
  /\ verdict = "open"
  /\ \E p, q \in parts :
       /\ p # q
       /\ parts' = (parts \ {p, q}) \cup {p \cup q}
  /\ UNCHANGED <<lossy, verdict>>

\* One of the two may be no part, {}, and so may both.
Fail ==
  /\ verdict = "open"
  /\ \E p, q \in parts \cup {{}} : parts' = parts \ {p, q}
  /\ lossy' = TRUE
  /\ UNCHANGED verdict

Finish ==
  /\ verdict = "open"
  /\ \A p, q \in parts : p = q
  /\ \/ verdict' = IF parts = {} THEN "none" ELSE "valid"
     \/ lossy /\ verdict' \in {"none", "valid"}
  /\ UNCHANGED <<parts, lossy>>

Next == Combine \/ Fail \/ Finish

SafeSpec == Init /\ [][Next]_vars

Spec == SafeSpec /\ WF_vars(Next)
=============================================================================
