----------------------------- MODULE Resources -----------------------------
(***************************************************************************)
(* The resource policy of an environment (lean_backend.py:25-28), in the     *)
(* units the models count in.                                                *)
(***************************************************************************)
EXTENDS Naturals

CONSTANTS
  Limit,        \* output a stream may have, in reads
  Timeout,      \* time an execution may take, in ticks
  MaxFiles      \* files a source package may have (max_files)

ASSUME ResourcesAssumption == {Limit, Timeout, MaxFiles} \subseteq Nat \ {0}
=============================================================================
