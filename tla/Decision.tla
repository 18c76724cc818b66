------------------------------ MODULE Decision ------------------------------
(***************************************************************************)
(* What administrator acceptance promises for one candidate                 *)
(* (docs/candidate-lifecycle.md, acceptance): a decision is sealed once, on  *)
(* evidence, and never taken back; the protected index records at most one   *)
(* sealed decision and keeps it.                                             *)
(***************************************************************************)
CONSTANTS Approvals, Evidenced

VARIABLES sealed, index

Seal(a) ==
  /\ a \in Evidenced
  /\ sealed' = sealed \cup {a}
  /\ UNCHANGED index

Record(a) ==
  /\ a \in sealed /\ index = {}
  /\ index' = {a}
  /\ UNCHANGED sealed

Init == sealed = {} /\ index = {}
Next == \E a \in Approvals : Seal(a) \/ Record(a)
Spec == Init /\ [][Next]_<<sealed, index>>
=============================================================================
