------------------------------- MODULE Intake -------------------------------
(***************************************************************************)
(* Preparation of a candidate (verifier/intake.py, prepare_one): blockers,   *)
(* the selection of its sources by following imports, and the adaptation     *)
(* that keeps them apart from the trusted files of the problem.              *)
(*                                                                          *)
(* A file of the repository is known by its path, which is also the name of  *)
(* its module; what it imports is found out when it is read.                 *)
(***************************************************************************)
EXTENDS Resources, FiniteSets

CONSTANTS
  Files,        \* paths a candidate may use
  Challenge,    \* Challenge.lean
  Renamed,      \* CandidateChallenge.lean
  Bridge,       \* path of the problem's solution module
  Trusted,      \* trusted files of the problem
  Allowed,      \* approved submission paths
  TargetSets,   \* the files candidates name as targets (bound)
  Includes      \* source selections of candidates (bound)

ASSUME IntakeAssumption ==
  /\ IsFiniteSet(Files) /\ IsFiniteSet(Trusted)
  /\ {Challenge, Renamed} \subseteq Files /\ Challenge \in Trusted
  /\ TargetSets \subseteq (SUBSET Files) \ {{}} /\ Includes \subseteq SUBSET Files
  /\ Challenge # Renamed /\ Bridge \notin Trusted /\ Bridge \in Allowed

VARIABLES
  cand,         \* the candidate and the protected data it meets
  pending,      \* files still to be followed
  selected,     \* files selected
  deps,         \* what a selected file imports
  blocked,      \* first blocker, "none" while there is none
  istep         \* where prepare_one is

ivars == <<cand, pending, selected, deps, blocked, istep>>

\* include: the source selection, all files if there is none; environment: no approved
\* one matches the sources, one that the problem is not bound to, or the problem's.
Candidate == [tree : SUBSET Files, targets : SUBSET Files, include : SUBSET Files,
              authorized : BOOLEAN, problem : {"none", "pending", "approved"},
              environment : {"none", "other", "bound"}]

Goto(to) == istep' = to
Block(kind) == blocked' = IF blocked = "none" THEN kind ELSE blocked
Locals == <<pending, selected, deps>>

\* Without authorization no source is retrieved.
Check ==
  /\ istep = "check"
  /\ blocked' = IF ~cand.authorized THEN "needs_information"
                ELSE CASE cand.problem = "none" -> "waiting_problem"
                       [] cand.problem = "pending" -> "waiting_review"
                       [] OTHER -> "none"
  /\ Goto(IF cand.authorized THEN "retrieve" ELSE "end")
  /\ UNCHANGED <<cand, Locals>>

\* The tree and the metadata; the environment they need.
Retrieve ==
  /\ istep = "retrieve"
  /\ CASE cand.environment = "none" -> Block("waiting_environment")
       [] cand.environment = "other" /\ cand.problem # "none" -> Block("waiting_problem")
       [] OTHER -> UNCHANGED blocked
  /\ IF blocked' = "none" THEN Goto("select") /\ pending' = cand.targets
                          ELSE Goto("end") /\ UNCHANGED pending
  /\ UNCHANGED <<cand, selected, deps>>

\* Imports of the candidate's own repository; others are left to the environment.
Local(imports) == imports \cap cand.tree

Readable(f) ==
  /\ f \in cand.tree
  /\ f \in cand.include
  /\ Cardinality(selected) < MaxFiles

\* One turn of the loop.
Follow(f, imports) ==
  /\ istep = "select" /\ f \in pending \ selected /\ Readable(f)
  /\ selected' = selected \cup {f}
  /\ deps' = [deps EXCEPT ![f] = imports]
  /\ pending' = (pending \ {f}) \cup Local(imports)
  /\ UNCHANGED <<cand, blocked, istep>>

Skip(f) ==
  /\ istep = "select" /\ f \in pending \cap selected
  /\ pending' = pending \ {f}
  /\ UNCHANGED <<cand, selected, deps, blocked, istep>>

Rename == Challenge \in selected /\ Challenge \in Trusted
Destination(f) == IF Rename /\ f = Challenge THEN Renamed ELSE f
\* Mutated form: only the file is renamed.
ImportsKept(f) == deps[f]
\* What the adapted file imports (_rename_import).
Imports(f) == IF Rename THEN {IF d = Challenge THEN Renamed ELSE d : d \in deps[f]} ELSE deps[f]
Destinations == {Destination(f) : f \in selected}

\* Mutated form: only the trusted files are kept clear of.
SeparateTrusted == Destinations \cap Trusted = {}
\* No two sources share a path, and none has one of a trusted file or of the bridge.
Separate ==
  /\ \A f, g \in selected : Destination(f) = Destination(g) => f = g
  /\ Destinations \cap (Trusted \cup {Bridge}) = {}

Adapt ==
  /\ istep = "select" /\ pending = {}
  /\ IF Separate /\ Destinations \subseteq Allowed THEN UNCHANGED blocked ELSE Block("needs_adaptation")
  /\ Goto("end")
  /\ UNCHANGED <<cand, Locals>>

\* Metadata that needs a review; a source that may not be selected, cannot be read as
\* Lean imports, or whose imports cannot be replaced; targets that do not cover the
\* problem's; a bridge that is not approved.
Refuse ==
  /\ istep \in {"retrieve", "select"}
  /\ Block("needs_adaptation") /\ Goto("end")
  /\ UNCHANGED <<cand, Locals>>

\* A request that fails.
Unavailable ==
  /\ istep \in {"retrieve", "select"}
  /\ Block("infrastructure_error") /\ Goto("end")
  /\ UNCHANGED <<cand, Locals>>
-----------------------------------------------------------------------------
Fresh == pending = {} /\ selected = {} /\ deps = [f \in Files |-> {}]

IInit ==
  /\ cand \in [tree : SUBSET Files, targets : TargetSets, include : Includes, authorized : BOOLEAN,
               problem : {"none", "pending", "approved"}, environment : {"none", "other", "bound"}]
  /\ Fresh /\ blocked = "none" /\ istep = "check"

INext ==
  \/ Check \/ Retrieve \/ Adapt \/ Refuse \/ Unavailable
  \/ \E f \in Files : Skip(f) \/ \E imports \in SUBSET (Files \ {f}) : Follow(f, imports)

ITypeOK ==
  /\ cand \in Candidate
  /\ pending \subseteq Files /\ selected \subseteq Files
  /\ deps \in [Files -> SUBSET Files]
  /\ blocked \in {"none", "needs_information", "waiting_problem", "waiting_review",
                  "waiting_environment", "needs_adaptation", "infrastructure_error"}
  /\ istep \in {"check", "retrieve", "select", "end"}
=============================================================================
