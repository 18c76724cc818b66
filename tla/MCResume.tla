------------------------------ MODULE MCResume ------------------------------
(***************************************************************************)
(* Small instances of Resume for TLC.                                       *)
(***************************************************************************)
EXTENDS Resume

CONSTANTS c1, c2, v1, v2

\* c1 proposes a candidate that can be proved on v1 and has to wait on v2, c2
\* changes nothing that needs a proof.
MCPlanOf == [x \in Heads \X Revs |->
  CASE x = <<c1, v1>> -> "ready"
    [] x = <<c1, v2>> -> "blocked"
    [] OTHER -> "not_applicable"]

\* Bound: at most one thing at a time keeps the scheduler from the pull request.
OneObstacle ==
  \A p \in PRs :
    LET obstacles == <<~pr[p].open, pr[p].draft, ~pr[p].repo, ~guarded[pr[p].base],
                       pr[p].head \notin Candidates>> IN
    Cardinality({i \in DOMAIN obstacles : obstacles[i]}) <= 1

\* Bound: at most one run is dispatched by hand.
OneManual == Cardinality({r \in Runs : Exists(r) /\ run[r].by = "manual"}) <= 1

RunSymmetry == Permutations(Runs)
=============================================================================
