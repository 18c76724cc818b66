---------------------------- MODULE MCAcceptance ----------------------------
(***************************************************************************)
(* Small instances of Acceptance for TLC.                                   *)
(***************************************************************************)
EXTENDS Acceptance, TLC

CONSTANTS a1, a2, v1

AllOnV1 == [a \in Approvals |-> v1]
\* Bound: histories that begin before the approved revision only add commands that stop.
ApprovedFirst == v1 \in been

\* Bound: at most one asset is left half uploaded.
OneInterrupted ==
  LET starters == {x \in Releases \X Files :
                     release[x[1]] # None /\ release[x[1]].asset[x[2]] = "starter"} IN
  Cardinality(starters) <= 1

Symmetry == Permutations(Sessions) \cup Permutations(Files) \cup Permutations(Revs \ {v1})
=============================================================================
