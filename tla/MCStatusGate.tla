---------------------------- MODULE MCStatusGate ----------------------------
(***************************************************************************)
(* Small instances of StatusGate for TLC.                                   *)
(***************************************************************************)
EXTENDS StatusGate, TLC

CONSTANTS h1, h2, v1, v2, p1

AnyHead == [p \in PRs |-> Heads]

\* h1 proposes a candidate (its proof verifies on v1 only), h2 changes nothing
\* that needs a proof on v1 and waits for a prerequisite on v2; a listing of the
\* other commit's files hides the candidate or finds it unregistered.
MCPlanOf == [x \in Heads \X Heads \X Revs |->
  CASE x[2] = h2 /\ x[3] = v1 -> "not_applicable"
    [] x[1] = x[2] /\ x[1] = h1 -> "ready"
    [] x[1] = x[2] /\ x[1] = h2 -> "blocked"
    [] OTHER -> "failed"]
MCProven == {<<h1, h1, v1>>}

\* Bound: at most one run is re-run.
OneRerun == \A r, s \in Runs : attempt[r] > 1 /\ attempt[s] > 1 => r = s

RunSymmetry == Permutations(Runs)
=============================================================================
