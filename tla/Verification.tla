---------------------------- MODULE Verification ----------------------------
(***************************************************************************)
(* One proof job: a candidate is prepared (Intake), its materials are put    *)
(* together again from the fixed commit (merge_gate.py, candidate_sources),  *)
(* the backend verifies them (Backend), and execute_candidates writes the    *)
(* outcome.  A registered submission is executed without preparation.        *)
(***************************************************************************)
EXTENDS Backend, Intake

VARIABLES
  job,          \* where execute_candidates is
  plan,         \* the submission: which files, whether Challenge.lean is renamed
  solution,     \* the solution's sources: path and origin
  outcome,      \* machine_status and verification_status, "none" before the end
  report        \* the written verification-result.json, or "refused"

evars == <<job, plan, solution, outcome, report>>
vars == <<bvars, ivars, evars>>

NoOutcome == [machine |-> "none", verification |-> "none"]
NoPlan == [files |-> {}, rename |-> FALSE, prepared |-> FALSE]
Shared == Trusted \ {Challenge}

(***************************************************************************)
(* Prerequisites and materials.                                             *)
(***************************************************************************)
\* The submission of a prepared candidate names the files that were selected.
Plan ==
  /\ job = "intake" /\ istep = "end"
  /\ IF blocked = "none"
     THEN plan' = [files |-> selected, rename |-> Rename, prepared |-> TRUE] /\ job' = "prerequisites"
     ELSE job' = "done" /\ UNCHANGED plan
  /\ UNCHANGED <<bvars, ivars, solution, outcome, report>>

Conclude(machine, status) ==
  /\ outcome' = [machine |-> machine, verification |-> status]
  /\ job' = "report"

\* Statement, policy and environment of the protected branch; the image.
Prerequisites ==
  /\ job = "prerequisites"
  /\ \/ job' = "materials" /\ UNCHANGED outcome
     \/ Conclude("not_run", "not_run")
     \/ ~plan.prepared /\ Conclude("not_run", "unsupported")
  /\ UNCHANGED <<bvars, ivars, plan, solution, report>>

Included == plan.files \cap cand.tree
Moved(f) == IF plan.rename /\ f = Challenge THEN Renamed ELSE f
Written == {[path |-> Moved(f), from |-> f] : f \in Included} \cup {[path |-> Bridge, from |-> "overlay"]}
Paths(sources) == {s.path : s \in sources}

\* write refuses a path twice, a trusted one, one that is not approved, or too many.
Acceptable ==
  /\ Included # {} /\ Cardinality(Included) < MaxFiles
  /\ \A f, g \in Included : Moved(f) = Moved(g) => f = g
  /\ {Moved(f) : f \in Included} \cap (Trusted \cup {Bridge}) = {}
  /\ Paths(Written) \subseteq Allowed
  /\ \A t \in cand.targets : Moved(t) \in Paths(Written)

\* candidate_sources; the shared trusted files are copied after the candidate's.
Materials ==
  /\ job = "materials"
  /\ \/ /\ Acceptable
        /\ solution' = Written \cup {[path |-> p, from |-> "trusted"] : p \in Shared}
        /\ job' = "launch" /\ UNCHANGED outcome
     \/ ~Acceptable /\ Conclude("not_run", "not_run") /\ UNCHANGED solution
     \/ Conclude("not_run", "infrastructure_error") /\ UNCHANGED solution
  /\ UNCHANGED <<bvars, ivars, plan, report>>

\* What was read for the preparation is no longer needed.
Launch ==
  /\ job = "launch"
  /\ Verify(Cardinality(Trusted), Cardinality(solution))
  /\ job' = "verify"
  /\ cand' = [cand EXCEPT !.tree = {}, !.targets = {}, !.include = {}]
  /\ pending' = {} /\ selected' = {} /\ deps' = [f \in Files |-> {}]
  /\ plan' = NoPlan /\ solution' = {}
  /\ UNCHANGED <<blocked, istep, outcome, report>>

(***************************************************************************)
(* The outcome.                                                             *)
(***************************************************************************)
\* Mutated form: the review is not looked at.
VerificationUnreviewed(machine) == IF machine = "passed" THEN "verified" ELSE machine
VerificationStatus(machine) ==
  IF machine = "passed" THEN IF cand.problem = "approved" THEN "verified" ELSE "review_pending"
  ELSE machine

\* Mutated form: the failure's classification is taken for the machine status.
MachineStatusWhole(verdict) == verdict
MachineStatus(verdict) == IF verdict = "passed" THEN "passed" ELSE "failed"

\* Copying the inputs into the evidence may fail.
Outcome ==
  /\ job = "verify" /\ phase = "end"
  /\ \/ Conclude(MachineStatus(result), VerificationStatus(result))
     \/ Conclude("not_run", "infrastructure_error")
  /\ UNCHANGED <<bvars, ivars, plan, solution, report>>

\* write_result refuses an outcome that contradicts itself.
Consistent ==
  /\ outcome.verification = "verified" => outcome.machine = "passed" /\ cand.problem = "approved"
  /\ outcome.verification = "review_pending" => outcome.machine = "passed" /\ cand.problem # "approved"

Report ==
  /\ job = "report"
  /\ report' = IF Consistent THEN outcome.verification ELSE "refused"
  /\ job' = "done"
  /\ UNCHANGED <<bvars, ivars, plan, solution, outcome>>
-----------------------------------------------------------------------------
\* A candidate is prepared first; a submission names its files itself.
Init ==
  /\ BInit /\ IInit
  /\ \/ job = "intake" /\ plan = NoPlan
     \/ /\ job = "prerequisites" /\ cand.authorized /\ cand.problem # "none"
        /\ cand.environment = "bound"
        /\ plan = [files |-> cand.include, rename |-> FALSE, prepared |-> FALSE]
  /\ solution = {} /\ outcome = NoOutcome /\ report = "none"

Intaking == job = "intake" /\ INext /\ UNCHANGED <<bvars, evars>>
Controlling == job = "verify" /\ Controller /\ UNCHANGED <<ivars, evars>>
Happening == job = "verify" /\ (Environment \/ Tick) /\ UNCHANGED <<ivars, evars>>

Program ==
  \/ Intaking \/ Plan \/ Prerequisites \/ Materials \/ Launch
  \/ Controlling \/ Outcome \/ Report

Next == Program \/ Happening
Spec == Init /\ [][Next]_vars

\* The controller goes on and time passes; containers and clients owe nothing.
FairSpec ==
  /\ Spec
  /\ WF_vars(Program)
  /\ WF_vars(job = "verify" /\ Tick /\ UNCHANGED <<ivars, evars>>)
-----------------------------------------------------------------------------
Machine == {"not_run", "failed", "passed"}
Statuses == {"verified", "review_pending", "failed", "not_run", "unsupported", "infrastructure_error"}

TypeOK ==
  /\ BTypeOK
  /\ job = "intake" => ITypeOK
  /\ job \in {"intake", "prerequisites", "materials", "launch", "verify", "report", "done"}
  /\ plan \in [files : SUBSET Files, rename : BOOLEAN, prepared : BOOLEAN]
  /\ solution \subseteq [path : Files \cup Trusted \cup {Bridge}, from : Files \cup {"overlay", "trusted"}]
  /\ outcome # NoOutcome => outcome \in [machine : Machine, verification : Statuses]

\* What a prepared candidate imports from its own repository is in the solution, under
\* the name the adapted file imports, and is its own: never left out, and never a
\* trusted file of the same name (intake.py:255-282, merge_gate.py:222-258, 380-387).
OwnImports ==
  job = "launch" /\ plan.prepared =>
    \A f \in plan.files : \A d \in deps[f] \cap cand.tree :
      \E i \in Imports(f) :
        /\ i = Moved(d)
        /\ {s \in solution : s.path = i} = {[path |-> i, from |-> d]}

\* Preparation and execution, which select and adapt the sources each for itself, agree:
\* a ready candidate is executed, if the bridge still fits (intake.py:253, 276-286;
\* merge_gate.py:215-231).
ReadyExecutes ==
  job = "materials" /\ plan.prepared /\ Cardinality(plan.files) < MaxFiles => Acceptable

\* The job passes only what every stage really accepted for an approved statement
\* (merge_gate.py:395-410, results.py:24-29; docs/design.md:102-106).
PassEarned ==
  report = "verified" => cand.problem = "approved" /\ \A n \in 1..Number : answer[n] = "accepted"

\* Every outcome can be written (results.py:20-29; docs/design.md:108: every executed
\* candidate job writes its result).
ResultWritten == report # "refused"

\* Whatever containers do, the job comes to its end (lean_backend.py:56-80).
Terminates == <>(job = "done")
=============================================================================
