----------------------------- MODULE StatusGate -----------------------------
(***************************************************************************)
(* The lean-verification merge gate as the runs of one workflow             *)
(* (.github/workflows/lean-verification.yml) execute it: the resolve job    *)
(* announces a pending commit status, the plan and verify jobs run the      *)
(* trusted controller (verifier/merge_gate.py), and the publish job turns   *)
(* the job results into the final status (scripts/gate_status.py).  Every   *)
(* API call of a job is a step of its own, so pull requests and protected   *)
(* branches may move between any two of them.                               *)
(*                                                                          *)
(* What the controller answers for a commit, a file listing and a base      *)
(* revision is data: the constants PlanOf and Proven.                       *)
(***************************************************************************)
EXTENDS Naturals

CONSTANTS
  PRs,          \* pull request numbers
  Heads,        \* candidate commits a pull request may point at
  Branches,     \* branches a pull request may target
  Targets,      \* the protected targets 'main' and 'develop'
  Revs,         \* revisions of the target branches
  Runs,         \* workflow runs; each has one run_url for all its attempts
  None,         \* absent value
  HeadsOf,      \* [PRs -> SUBSET Heads]: the commits each pull request can have
  PlanOf,       \* plan status for <<head, commit whose files were listed, base>>
  Proven,       \* those triples for which every candidate proof verifies
  Drains,       \* may a cancelled run still finish while its successor runs
  Moves,        \* kinds of repository change the instance explores
  Outages,      \* may API calls, runners and jobs fail
  MaxAttempts   \* attempts a run may have (bound on manual re-runs)

PlanStatus == {"ready", "not_applicable", "blocked", "failed"}

ASSUME GateAssumption ==
  /\ Targets \subseteq Branches
  /\ HeadsOf \in [PRs -> SUBSET Heads]
  /\ PlanOf \in [Heads \X Heads \X Revs -> PlanStatus]
  /\ Proven \subseteq Heads \X Heads \X Revs
  /\ Moves \subseteq {"ready", "push", "retarget", "close", "advance", "protect",
                     "manual", "resume"}
  /\ Drains \in BOOLEAN /\ Outages \in BOOLEAN
  /\ MaxAttempts \in Nat \ {0}
  /\ None \notin Heads \cup Revs \cup Branches \cup Runs

VARIABLES
  pr,           \* pulls/<number>: open, head.sha, base.ref
  tip,          \* branches/<b>: commit.sha
  been,         \* every revision <b> has pointed at
  guarded,      \* branches/<b>: protected
  status,       \* latest lean-verification status of each commit
  pc,           \* what each run is about to do
  trigger,      \* immutable event of each run
  ctx,          \* outputs of the resolve job: head, base_ref, base
  seen,         \* what the running controller job has read: target, listed files
  basis,        \* history: the listings behind the plan and the proof check
  planned,      \* PLAN_STATUS, or "none"/"cancelled" without one
  executed,     \* EXECUTION_RESULT of the verify job, or "none"
  cancel,       \* cancellation requested by the concurrency group
  attempt       \* GITHUB_RUN_ATTEMPT

github == <<pr, tip, been, guarded>>
jobs == <<ctx, seen, basis, planned, executed>>
vars == <<pr, tip, been, guarded, status, pc, trigger, ctx, seen, basis,
            planned, executed, cancel, attempt>>

(***************************************************************************)
(* Phases.  The resolve and publish jobs hold the lean-status lock of their *)
(* pull request; "...Wait" is the lock's single pending slot.               *)
(***************************************************************************)
Resolving == {"resolvePull", "resolveBranch", "resolvePost", "resolveEmit"}
Publishing == {"finishPull", "finishBranch", "finishStatus", "finishPost"}
Holding == Resolving \cup Publishing
Waiting == {"resolveWait", "publishWait"}
Planning == {"plan", "planList", "planRecheck"}
Verifying == {"verify", "verifyList", "verifyRecheck"}
Active == Holding \cup Waiting \cup Planning \cup Verifying
Over == {"done", "unresolved"}
Phases == Active \cup Over \cup {"unused", "triggered", "queued"}

PullRequest == [open : BOOLEAN, head : Heads, base : Branches]

\* A pull_request_target event carries the pull request as it was; base is the
\* checkout revision.  A dispatch carries the ref, its revision and the
\* optional expected_head and expected_base.
Trigger == [event : {"pull_request_target", "workflow_dispatch"}, pr : PRs,
            head : Heads \cup {None}, ref : Branches, sha : Revs,
            base : Revs \cup {None}]

Context == [head : Heads \cup {None}, ref : Branches \cup {None},
            base : Revs \cup {None}]
NoContext == [head |-> None, ref |-> None, base |-> None]

Reading == [ref : Branches \cup {None}, listed : Heads \cup {None}]
NothingRead == [ref |-> None, listed |-> None]

Basis == [plan : Heads \cup {None}, proof : Heads \cup {None}]
NoBasis == [plan |-> None, proof |-> None]

\* state and run are what GitHub stores (target_url names the run); the other
\* fields record, for the properties only, what the run based its answer on.
Status == [state : {"none", "pending", "success", "failure"},
           run : Runs \cup {None}, ref : Branches \cup {None},
           base : Revs \cup {None}, basis : Basis]
NoStatus == [state |-> "none", run |-> None, ref |-> None, base |-> None,
             basis |-> NoBasis]

SamePR(r, s) == trigger[r].pr = trigger[s].pr
Rivals(r) == {s \in Runs \ {r} : pc[s] # "unused" /\ SamePR(s, r)}

(***************************************************************************)
(* Pull requests and branches.                                              *)
(***************************************************************************)

\* A pull request event: the workflow runs only for the target branches, with
\* the pull request and its (possibly lagging) base.sha as payload.
PullRequestEvent(p, new) ==
  /\ pr' = [pr EXCEPT ![p] = new]
  /\ UNCHANGED <<tip, been, guarded, status, jobs, cancel, attempt>>
  /\ \/ /\ new.base \notin Targets
        /\ UNCHANGED <<pc, trigger>>
     \/ /\ new.base \in Targets
        /\ \E r \in Runs, rev \in been[new.base] :
             /\ pc[r] = "unused"
             /\ pc' = [pc EXCEPT ![r] = "triggered"]
             /\ trigger' = [trigger EXCEPT ![r] =
                  [event |-> "pull_request_target", pr |-> p, head |-> new.head,
                   ref |-> new.base, sha |-> rev, base |-> None]]

Open(p) == ~pr[p].open /\ PullRequestEvent(p, [pr[p] EXCEPT !.open = TRUE])
Ready(p) == pr[p].open /\ PullRequestEvent(p, pr[p])
Push(p, h) == /\ pr[p].open /\ h # pr[p].head
                 /\ PullRequestEvent(p, [pr[p] EXCEPT !.head = h])
Retarget(p, b) == /\ pr[p].open /\ b # pr[p].base
                  /\ PullRequestEvent(p, [pr[p] EXCEPT !.base = b])

Close(p) ==
  /\ pr[p].open
  /\ pr' = [pr EXCEPT ![p].open = FALSE]
  /\ UNCHANGED <<tip, been, guarded, status, pc, trigger, jobs, cancel, attempt>>

Advance(b, rev) ==
  /\ rev \notin been[b]
  /\ tip' = [tip EXCEPT ![b] = rev]
  /\ been' = [been EXCEPT ![b] = @ \cup {rev}]
  /\ UNCHANGED <<pr, guarded, status, pc, trigger, jobs, cancel, attempt>>

Protect(b) ==
  /\ guarded' = [guarded EXCEPT ![b] = ~@]
  /\ UNCHANGED <<pr, tip, been, status, pc, trigger, jobs, cancel, attempt>>

\* A maintainer (expected values absent) or the resume scheduler (a head and a
\* base it read some time ago) dispatches the workflow on a target branch.
Dispatch(p, b, head, base) ==
  /\ b \in Targets
  /\ \E r \in Runs :
       /\ pc[r] = "unused"
       /\ pc' = [pc EXCEPT ![r] = "triggered"]
       /\ trigger' = [trigger EXCEPT ![r] =
            [event |-> "workflow_dispatch", pr |-> p, head |-> head, ref |-> b,
             sha |-> tip[b], base |-> base]]
  /\ UNCHANGED <<github, status, jobs, cancel, attempt>>

ManualDispatch(p, b) == Dispatch(p, b, None, None)
ResumeDispatch(p, b) ==
  \E h \in HeadsOf[p], rev \in been[b] : Dispatch(p, b, h, rev)

(***************************************************************************)
(* The run-level concurrency group trusted-lean-<PR>: a new run replaces    *)
(* the pending one and cancels the one in progress.                         *)
(***************************************************************************)
Enqueue(r) ==
  /\ pc[r] = "triggered"
  /\ pc' = [s \in Runs |-> IF s = r THEN "queued"
                           ELSE IF s \in Rivals(r) /\ pc[s] = "queued" THEN "done"
                           ELSE pc[s]]
  /\ cancel' = [s \in Runs |-> IF s \in Rivals(r) /\ pc[s] \in Active
                               THEN TRUE ELSE cancel[s]]
  /\ UNCHANGED <<github, status, trigger, jobs, attempt>>

(***************************************************************************)
(* The job-level group lean-status-<PR>, never cancelled in progress: a job *)
(* that finds it taken waits in the single pending slot, and a job already  *)
(* waiting there is cancelled in its favour.                                *)
(***************************************************************************)
Dropped(phase) == IF phase = "resolveWait" THEN "unresolved" ELSE "done"

\* Mutated form: the two jobs do not share a lock.
JoinedUnlocked(r, wait, enter) == [pc EXCEPT ![r] = enter]

Joined(r, wait, enter) ==
  IF \E s \in Rivals(r) : pc[s] \in Holding \cup Waiting
  THEN [s \in Runs |-> IF s = r THEN wait
                       ELSE IF s \in Rivals(r) /\ pc[s] \in Waiting
                       THEN Dropped(pc[s]) ELSE pc[s]]
  ELSE [pc EXCEPT ![r] = enter]

\* The run's first job of this attempt: a full run resolves; a re-run of failed
\* jobs keeps the outputs of the jobs that had succeeded.
Start(r) ==
  /\ pc[r] = "queued"
  /\ \A s \in Rivals(r) : pc[s] \in Active => Drains /\ cancel[s]
  /\ \/ /\ ctx[r].base = None
        /\ pc' = Joined(r, "resolveWait", "resolvePull")
     \/ /\ ctx[r].base # None /\ planned[r] = "none"
        /\ pc' = [pc EXCEPT ![r] = "plan"]
     \/ /\ ctx[r].base # None /\ planned[r] # "none" /\ executed[r] = "none"
        /\ pc' = [pc EXCEPT ![r] = "verify"]
     \/ /\ ctx[r].base # None /\ planned[r] # "none" /\ executed[r] # "none"
        /\ pc' = Joined(r, "publishWait", "finishPull")
  /\ UNCHANGED <<github, status, trigger, jobs, cancel, attempt>>

Acquire(r) ==
  /\ pc[r] \in Waiting
  /\ \A s \in Rivals(r) : pc[s] \notin Holding
  /\ pc' = [pc EXCEPT ![r] = IF pc[r] = "resolveWait" THEN "resolvePull"
                                                      ELSE "finishPull"]
  /\ UNCHANGED <<github, status, trigger, jobs, cancel, attempt>>

(***************************************************************************)
(* gate_status.py resolve.  A failed assertion ends the job, and publish    *)
(* needs its success.                                                       *)
(***************************************************************************)
Goto(r, phase) == pc' = [pc EXCEPT ![r] = phase]

\* Mutated form: the pull request's own base takes the place of the branch tip.
ResolvePullBase(r) ==
  LET p == pr[trigger[r].pr] IN
  /\ pc[r] = "resolvePull" /\ p.open /\ p.base \in Targets
  /\ ctx' = [ctx EXCEPT ![r] = [head |-> p.head, ref |-> p.base, base |-> p.base]]
  /\ Goto(r, "resolveBranch")
  /\ UNCHANGED <<github, status, trigger, seen, basis, planned, executed, cancel, attempt>>

ResolvePull(r) ==
  LET p == pr[trigger[r].pr] IN
  /\ pc[r] = "resolvePull"
  /\ \/ /\ p.open /\ p.base \in Targets
        /\ ctx' = [ctx EXCEPT ![r] = [head |-> p.head, ref |-> p.base, base |-> None]]
        /\ Goto(r, "resolveBranch")
     \/ /\ ~(p.open /\ p.base \in Targets)
        /\ Goto(r, "unresolved")
        /\ UNCHANGED ctx
  /\ UNCHANGED <<github, status, trigger, seen, basis, planned, executed, cancel, attempt>>

\* The identity asserted before anything is announced: expected head and base,
\* live protection, the event's own head and target, and a checkout of the tip.
Resolvable(r) ==
  LET t == trigger[r]  c == ctx[r] IN
  /\ guarded[c.ref]
  /\ t.head \in {None, c.head}
  /\ t.base \in {None, tip[c.ref]}
  /\ t.ref = c.ref
  /\ t.sha = tip[c.ref]

ResolveBranch(r) ==
  /\ pc[r] = "resolveBranch"
  /\ \/ /\ Resolvable(r)
        /\ ctx' = [ctx EXCEPT ![r].base = tip[ctx[r].ref]]
        /\ Goto(r, "resolvePost")
     \/ /\ ~Resolvable(r)
        /\ ctx' = [ctx EXCEPT ![r] = NoContext]
        /\ Goto(r, "unresolved")
  /\ UNCHANGED <<github, status, trigger, seen, basis, planned, executed, cancel, attempt>>

Post(r, state) ==
  status' = [status EXCEPT ![ctx[r].head] =
    [state |-> state, run |-> r, ref |-> ctx[r].ref, base |-> ctx[r].base,
     basis |-> basis[r]]]

ResolvePost(r) ==
  /\ pc[r] = "resolvePost"
  /\ Post(r, "pending")
  /\ Goto(r, "resolveEmit")
  /\ UNCHANGED <<github, trigger, jobs, cancel, attempt>>

ResolveEmit(r) ==
  /\ pc[r] = "resolveEmit"
  /\ Goto(r, "plan")
  /\ UNCHANGED <<github, status, trigger, jobs, cancel, attempt>>

(***************************************************************************)
(* merge_gate.run: the plan job (--check-only) and the verify jobs read the *)
(* pull request and its target, list its files as they are now, work on the *)
(* tree of the resolved head, and read pull request and target again before *)
(* answering.                                                               *)
(***************************************************************************)
Readable(r) ==
  LET p == pr[trigger[r].pr] IN
  /\ p.open /\ p.head = ctx[r].head /\ p.base \in Targets
  /\ guarded[p.base] /\ tip[p.base] = ctx[r].base

Unmoved(r) == Readable(r) /\ pr[trigger[r].pr].base = seen[r].ref

\* What the controller works on: head's tree, the listed paths, the base.
Inputs(r) == <<ctx[r].head, seen[r].listed, ctx[r].base>>

PlanPassed(r) == planned[r] \in {"ready", "not_applicable"}

\* Mutated form: without always(), publish needs a plan that went through.
AfterPlanNeeds(r, answer) ==
  /\ planned' = [planned EXCEPT ![r] = answer]
  /\ basis' = [basis EXCEPT ![r] = [plan |-> seen[r].listed, proof |-> None]]
  /\ seen' = [seen EXCEPT ![r] = NothingRead]
  /\ UNCHANGED executed
  /\ Goto(r, IF answer = "ready" THEN "verify" ELSE "done")

\* Mutated form: verify has no condition on the plan's answer.
AfterPlanAlways(r, answer) ==
  /\ planned' = [planned EXCEPT ![r] = answer]
  /\ basis' = [basis EXCEPT ![r] = [plan |-> seen[r].listed, proof |-> None]]
  /\ seen' = [seen EXCEPT ![r] = NothingRead]
  /\ UNCHANGED executed
  /\ Goto(r, "verify")

\* The plan job ends: verify runs for a ready plan only, publish in every case.
AfterPlan(r, answer) ==
  /\ planned' = [planned EXCEPT ![r] = answer]
  /\ basis' = [basis EXCEPT ![r] = [plan |-> seen[r].listed, proof |-> None]]
  /\ seen' = [seen EXCEPT ![r] = NothingRead]
  /\ \/ /\ answer = "ready"
        /\ Goto(r, "verify")
        /\ UNCHANGED executed
     \/ /\ answer # "ready"
        /\ executed' = [executed EXCEPT ![r] = "skipped"]
        /\ pc' = Joined(r, "publishWait", "finishPull")

AfterVerify(r, result) ==
  /\ executed' = [executed EXCEPT ![r] = result]
  /\ basis' = [basis EXCEPT ![r].proof = seen[r].listed]
  /\ seen' = [seen EXCEPT ![r] = NothingRead]
  /\ pc' = Joined(r, "publishWait", "finishPull")
  /\ UNCHANGED planned

Read(r, next) ==
  /\ Readable(r)
  /\ seen' = [seen EXCEPT ![r].ref = pr[trigger[r].pr].base]
  /\ Goto(r, next)
  /\ UNCHANGED <<basis, planned, executed>>

PlanRead(r) ==
  /\ pc[r] = "plan"
  /\ \/ Read(r, "planList")
     \/ ~Readable(r) /\ AfterPlan(r, "failed")
  /\ UNCHANGED <<github, status, trigger, ctx, cancel, attempt>>

VerifyRead(r) ==
  /\ pc[r] = "verify"
  /\ \/ Read(r, "verifyList")
     \/ ~Readable(r) /\ AfterVerify(r, "failure")
  /\ UNCHANGED <<github, status, trigger, ctx, cancel, attempt>>

\* pulls/<number>/files names no commit: it lists the pull request's live files.
ListFiles(r) ==
  /\ \/ pc[r] = "planList" /\ Goto(r, "planRecheck")
     \/ pc[r] = "verifyList" /\ Goto(r, "verifyRecheck")
  /\ seen' = [seen EXCEPT ![r].listed = pr[trigger[r].pr].head]
  /\ UNCHANGED <<github, status, trigger, ctx, basis, planned, executed, cancel, attempt>>

PlanRecheck(r) ==
  /\ pc[r] = "planRecheck"
  /\ \/ Unmoved(r) /\ AfterPlan(r, PlanOf[Inputs(r)])
     \/ ~Unmoved(r) /\ AfterPlan(r, "failed")
  /\ UNCHANGED <<github, status, trigger, ctx, cancel, attempt>>

VerifyRecheck(r) ==
  LET passed == Unmoved(r) /\ Inputs(r) \in Proven IN
  /\ pc[r] = "verifyRecheck"
  /\ AfterVerify(r, IF passed THEN "success" ELSE "failure")
  /\ UNCHANGED <<github, status, trigger, ctx, cancel, attempt>>

(***************************************************************************)
(* gate_status.py finish.  Each early return leaves the status alone.       *)
(***************************************************************************)
\* Mutated form: the publisher does not compare the target branch.
SamePullAnyBase(r) ==
  LET p == pr[trigger[r].pr] IN p.open /\ p.head = ctx[r].head

SamePull(r) ==
  LET p == pr[trigger[r].pr] IN p.open /\ p.head = ctx[r].head /\ p.base = ctx[r].ref
SameTarget(r) == guarded[ctx[r].ref] /\ tip[ctx[r].ref] = ctx[r].base

FinishPull(r) ==
  /\ pc[r] = "finishPull"
  /\ Goto(r, IF SamePull(r) THEN "finishBranch" ELSE "done")
  /\ UNCHANGED <<github, status, trigger, jobs, cancel, attempt>>

FinishBranch(r) ==
  /\ pc[r] = "finishBranch"
  /\ Goto(r, IF SameTarget(r) THEN "finishStatus" ELSE "done")
  /\ UNCHANGED <<github, status, trigger, jobs, cancel, attempt>>

OwnsPending(r) ==
  /\ status[ctx[r].head].run = r
  /\ status[ctx[r].head].state = "pending"

FinishStatus(r) ==
  /\ pc[r] = "finishStatus"
  /\ Goto(r, IF OwnsPending(r) THEN "finishPost" ELSE "done")
  /\ UNCHANGED <<github, status, trigger, jobs, cancel, attempt>>

\* Mutated forms: the verify job's result is ignored; a skipped proof check
\* counts as success whatever the plan came to.
SucceededPlanOnly(r) == PlanPassed(r)
SucceededIfSkipped(r) == executed[r] \in {"success", "skipped"}

Succeeded(r) ==
  /\ PlanPassed(r)
  /\ \/ planned[r] = "ready" /\ executed[r] = "success"
     \/ planned[r] = "not_applicable" /\ executed[r] = "skipped"

FinishPost(r) ==
  /\ pc[r] = "finishPost"
  /\ Post(r, IF Succeeded(r) THEN "success" ELSE "failure")
  /\ Goto(r, "done")
  /\ UNCHANGED <<github, trigger, jobs, cancel, attempt>>

(***************************************************************************)
(* Cancelled and failing jobs, re-runs.                                     *)
(***************************************************************************)

\* How a run goes on when its current job ends without success: publish runs
\* whatever the other jobs came to, provided resolve had succeeded.
JobEnds(r, result) ==
  \/ /\ pc[r] \in Resolving \cup {"resolveWait"}
     /\ Goto(r, "unresolved")
     /\ ctx' = [ctx EXCEPT ![r] = NoContext]
     /\ UNCHANGED <<seen, basis, planned, executed>>
  \/ pc[r] \in Planning /\ AfterPlan(r, result) /\ UNCHANGED ctx
  \/ pc[r] \in Verifying /\ AfterVerify(r, result) /\ UNCHANGED ctx

Cancelled(r) ==
  /\ cancel[r]
  /\ JobEnds(r, "cancelled")
  /\ UNCHANGED <<github, status, trigger, cancel, attempt>>

Outage(r) ==
  /\ Outages
  /\ \/ JobEnds(r, "failure")
     \/ /\ pc[r] \in Publishing
        /\ Goto(r, "done")
        /\ UNCHANGED jobs
  /\ UNCHANGED <<github, status, trigger, cancel, attempt>>

Again(r) ==
  /\ pc[r] \in Over /\ attempt[r] < MaxAttempts
  /\ attempt' = [attempt EXCEPT ![r] = @ + 1]
  /\ cancel' = [cancel EXCEPT ![r] = FALSE]
  /\ Goto(r, "triggered")
  /\ UNCHANGED <<github, status, trigger, seen>>

RerunAll(r) ==
  /\ Again(r)
  /\ ctx' = [ctx EXCEPT ![r] = NoContext]
  /\ basis' = [basis EXCEPT ![r] = NoBasis]
  /\ planned' = [planned EXCEPT ![r] = "none"]
  /\ executed' = [executed EXCEPT ![r] = "none"]

\* Only the jobs that did not succeed, and those that need them, run again.
RerunFailed(r) ==
  /\ Again(r)
  /\ planned' = [planned EXCEPT ![r] = IF PlanPassed(r) THEN @ ELSE "none"]
  /\ executed' = [executed EXCEPT ![r] =
       IF PlanPassed(r) /\ executed[r] \in {"success", "skipped"} THEN @ ELSE "none"]
  /\ UNCHANGED <<ctx, basis>>

-----------------------------------------------------------------------------
Init ==
  /\ pr \in [PRs -> PullRequest]
  /\ \A p \in PRs : ~pr[p].open /\ pr[p].head \in HeadsOf[p]
  /\ tip \in [Branches -> Revs]
  /\ been = [b \in Branches |-> {tip[b]}]
  /\ guarded = [b \in Branches |-> b \in Targets]
  /\ status = [h \in Heads |-> NoStatus]
  /\ pc = [r \in Runs |-> "unused"]
  /\ trigger = [r \in Runs |-> None]
  /\ ctx = [r \in Runs |-> NoContext]
  /\ seen = [r \in Runs |-> NothingRead]
  /\ basis = [r \in Runs |-> NoBasis]
  /\ planned = [r \in Runs |-> "none"]
  /\ executed = [r \in Runs |-> "none"]
  /\ cancel = [r \in Runs |-> FALSE]
  /\ attempt = [r \in Runs |-> 1]

\* What people, and the scheduler, do to the repository; an instance explores
\* opening plus the kinds of change in Moves.
PullMove(p) ==
  \/ Open(p)
  \/ "ready" \in Moves /\ Ready(p)
  \/ "close" \in Moves /\ Close(p)
  \/ "push" \in Moves /\ \E h \in HeadsOf[p] : Push(p, h)
  \/ "retarget" \in Moves /\ \E b \in Branches : Retarget(p, b)
  \/ "manual" \in Moves /\ \E b \in Branches : ManualDispatch(p, b)
  \/ "resume" \in Moves /\ \E b \in Branches : ResumeDispatch(p, b)

BranchMove(b) ==
  \/ "advance" \in Moves /\ \E rev \in Revs : Advance(b, rev)
  \/ "protect" \in Moves /\ b \in Targets /\ Protect(b)

Repository == (\E p \in PRs : PullMove(p)) \/ (\E b \in Branches : BranchMove(b))

RunStep(r) ==
  \/ Enqueue(r) \/ Start(r) \/ Acquire(r)
  \/ ResolvePull(r) \/ ResolveBranch(r) \/ ResolvePost(r) \/ ResolveEmit(r)
  \/ PlanRead(r) \/ VerifyRead(r) \/ ListFiles(r) \/ PlanRecheck(r) \/ VerifyRecheck(r)
  \/ FinishPull(r) \/ FinishBranch(r) \/ FinishStatus(r) \/ FinishPost(r)
  \/ Cancelled(r)

Next ==
  \/ Repository
  \/ \E r \in Runs : RunStep(r) \/ Outage(r) \/ RerunAll(r) \/ RerunFailed(r)

Spec == Init /\ [][Next]_vars

\* Runners pick up queued jobs, finish them within their timeout and honour
\* cancellation; nothing is assumed of people, branches or outages.
FairSpec == Spec /\ \A r \in Runs : WF_vars(RunStep(r))

-----------------------------------------------------------------------------
PlanResults == PlanStatus \cup {"none", "failure", "cancelled"}
JobResults == {"none", "success", "failure", "cancelled", "skipped"}

TypeOK ==
  /\ pr \in [PRs -> PullRequest]
  /\ tip \in [Branches -> Revs] /\ been \in [Branches -> SUBSET Revs]
  /\ guarded \in [Branches -> BOOLEAN]
  /\ status \in [Heads -> Status]
  /\ pc \in [Runs -> Phases]
  /\ trigger \in [Runs -> Trigger \cup {None}]
  /\ ctx \in [Runs -> Context] /\ seen \in [Runs -> Reading]
  /\ basis \in [Runs -> Basis]
  /\ planned \in [Runs -> PlanResults] /\ executed \in [Runs -> JobResults]
  /\ cancel \in [Runs -> BOOLEAN]
  /\ attempt \in [Runs -> 1..MaxAttempts]

\* A success on a commit was produced by a run bound to a protected target and a
\* revision that target really had, whose plan found nothing to prove or whose
\* proof checks all passed (gate_status.py:114-116 with the job results it is
\* given), however jobs failed, were cancelled, superseded or re-run.
SuccessEarned ==
  \A h \in Heads : status[h].state = "success" =>
    LET s == status[h]  b == s.basis IN
    /\ s.ref \in Targets /\ s.base \in been[s.ref] /\ b.plan \in Heads
    /\ \/ b.proof = None /\ PlanOf[<<h, b.plan, s.base>>] = "not_applicable"
       \/ /\ PlanOf[<<h, b.plan, s.base>>] = "ready"
          /\ <<h, b.proof, s.base>> \in Proven

Verdict(h) == status[h].state \in {"success", "failure"}

\* A final status only ever replaces the pending status of its own run
\* (gate_status.py:106-113): a superseded or re-run workflow never overwrites
\* what a later run has announced or decided.
ReplacesOwnPending ==
  [][\A h \in Heads : status'[h] # status[h] /\ Verdict(h)' =>
       status[h].state = "pending" /\ status[h].run = status'[h].run]_vars

\* The publisher's pull request and branch checks (gate_status.py:95-105): a run
\* whose pull request has moved for good, or whose target has, when its publish
\* job starts never comes to post a verdict.
PullMoved(r) ==
  /\ ctx[r].base # None
  /\ LET p == pr[trigger[r].pr] IN
     ~p.open \/ p.head # ctx[r].head \/ p.base # ctx[r].ref
TargetMoved(r) ==
  /\ ctx[r].base # None
  /\ ~guarded[ctx[r].ref] \/ tip[ctx[r].ref] # ctx[r].base
StaleNeverPosts ==
  \A r \in Runs :
    [](pc[r] = "finishPull" /\ ([]PullMoved(r) \/ []TargetMoved(r))
         => [](pc[r] # "finishPost"))

\* Nobody has asked for anything newer than r on its pull request.
Newest(r) == /\ pc[r] # "unused" /\ ~cancel[r]
             /\ \A s \in Rivals(r) : pc[s] \in Over \/ cancel[s]

\* r's event still describes its pull request and its target's protected tip.
Bound(r) ==
  /\ pc[r] # "unused"
  /\ LET t == trigger[r]  p == pr[t.pr] IN
     /\ p.open /\ p.base = t.ref /\ t.head \in {None, p.head}
     /\ t.base \in {None, tip[t.ref]} /\ guarded[t.ref] /\ tip[t.ref] = t.sha

AnsweredBy(r) == \E h \in Heads : status[h].run = r /\ Verdict(h)

\* A run that stays the newest one of an unmoved pull request posts a verdict on
\* its head: no pending status is left behind by the jobs' handing over.
NewestRunAnswers ==
  \A r \in Runs :
    pc[r] = "queued" /\ Newest(r) /\ Bound(r)
      ~> AnsweredBy(r) \/ ~Newest(r) \/ ~Bound(r)

\* docs/merge-gate-review.md on resolver failures: the required status is then
\* missing or pending, which blocks the merge, and no earlier success is reused.
\* Here only a success earned for another target counts as reused.
ResolverFailureBlocks ==
  [][\A r \in Runs : pc[r] \in Resolving /\ pc'[r] = "unresolved" /\ Bound(r) =>
       LET p == pr[trigger[r].pr]  s == status[p.head] IN
       ~(s.state = "success" /\ s.ref # p.base)]_vars

-----------------------------------------------------------------------------
(***************************************************************************)
(* What the safety properties rest on.                                      *)
(***************************************************************************)

\* Phases in which the run has the resolver's outputs.
Resolved == {"resolvePost", "resolveEmit", "publishWait"}
              \cup Planning \cup Verifying \cup Publishing

\* The job results of one run fit together.
ResultsOK(r) ==
  /\ planned[r] = "none" => executed[r] = "none"
  /\ planned[r] = "ready" => executed[r] # "skipped"
  /\ planned[r] \notin {"none", "ready"} => executed[r] = "skipped"
  /\ pc[r] \in Planning \cup Resolving \cup {"resolveWait"} => planned[r] = "none"
  /\ pc[r] \in Verifying => planned[r] = "ready"
  /\ pc[r] \in {"planRecheck", "verifyRecheck"} => seen[r].listed \in Heads

\* The resolver's outputs are complete when used and name what was resolved.
OutputsOK(r) ==
  /\ pc[r] # "unused" => trigger[r] \in Trigger
  /\ pc[r] = "unused" => ctx[r] = NoContext
  /\ pc[r] \in Resolved => ctx[r].base # None
  /\ ctx[r].base = None => planned[r] = "none"
  /\ pc[r] = "resolveBranch" \/ ctx[r].base # None =>
       ctx[r].head \in HeadsOf[trigger[r].pr] /\ ctx[r].ref \in Targets
  /\ ctx[r].base # None => ctx[r].base \in been[ctx[r].ref]

\* A passed plan and a passed proof check are about the run's own identity.
BasisOK(r) ==
  LET c == ctx[r]  b == basis[r] IN
  /\ PlanPassed(r) => b.plan \in Heads /\ PlanOf[<<c.head, b.plan, c.base>>] = planned[r]
  /\ planned[r] = "not_applicable" => b.proof = None
  /\ executed[r] = "success" => <<c.head, b.proof, c.base>> \in Proven

\* Every run is consistent, and branches and pull requests stay within what they
\* can be: the facts about one run that its verdict depends on, through failed,
\* cancelled and re-run jobs.
RunsOK ==
  /\ \A b \in Branches : tip[b] \in been[b]
  /\ \A p \in PRs : pr[p].head \in HeadsOf[p]
  /\ \A r \in Runs : ResultsOK(r) /\ OutputsOK(r) /\ BasisOK(r)

GateInv == TypeOK /\ RunsOK /\ SuccessEarned

\* At most one resolve or publish job of a pull request is running, and one that
\* is about to post a verdict still finds its own pending status in place.
LockInv ==
  /\ \A r, s \in Runs : r # s /\ pc[r] \in Holding /\ pc[s] \in Holding => ~SamePR(r, s)
  /\ \A r \in Runs : pc[r] = "finishPost" => OwnsPending(r)

DisjointHeads == \A p, q \in PRs : p # q => HeadsOf[p] \cap HeadsOf[q] = {}
=============================================================================
