--------------------------- MODULE MCPublication ---------------------------
(***************************************************************************)
(* Small instances of Publication for TLC.                                  *)
(***************************************************************************)
EXTENDS Publication, FiniteSets, TLC

\* Bound: others push foreign files to at most one pull request, and no call fails then.
OneIntrusion ==
  LET tampered == {n \in Numbers : Exists(n) /\ pull[n].head.files.other} IN
  Cardinality(tampered) + failures <= 1

Symmetry == Permutations(Operators)
=============================================================================
