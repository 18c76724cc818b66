------------------------------ MODULE Verdict ------------------------------
(***************************************************************************)
(* What the Lean backend promises about one proof (docs/design.md, results; *)
(* lean_backend.py:1-5): the stages are answered in order; a pass needs the *)
(* answer of every stage, a failure a stage that really rejected, and       *)
(* whatever else happens is an infrastructure error.  A verdict is final.   *)
(***************************************************************************)
EXTENDS Naturals

CONSTANT Last   \* number of stages

VARIABLES
  answer,       \* what each stage really answered
  result        \* the verdict, "none" while there is none

Stage == 1..Last
Open(s) == result = "none" /\ answer[s] = "open" /\ \A t \in 1..(s - 1) : answer[t] = "accepted"

Accept(s) ==
  /\ Open(s)
  /\ answer' = [answer EXCEPT ![s] = "accepted"]
  /\ result' = IF s = Last THEN "passed" ELSE "none"

Reject(s) ==
  /\ Open(s)
  /\ answer' = [answer EXCEPT ![s] = "rejected"]
  /\ result' = "failed"

Lose ==
  /\ result = "none"
  /\ result' = "infrastructure_error"
  /\ UNCHANGED answer

Init == answer = [s \in Stage |-> "open"] /\ result = "none"
Next == Lose \/ \E s \in Stage : Accept(s) \/ Reject(s)
Spec == Init /\ [][Next]_<<answer, result>>
=============================================================================
