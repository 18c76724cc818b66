------------------------------ MODULE Catalog ------------------------------
(***************************************************************************)
(* The public catalog of candidates: revalidation runs of the default branch *)
(* (revalidate.yml), and the builds that turn their jobs into a page         *)
(* (verifier/catalog.py, candidate-catalog.yml).  A build reads the runs, the *)
(* jobs of each, the jobs again and the runs again while all of them go on;   *)
(* builds are called by finished revalidation runs and by a schedule, and one *)
(* concurrency group lets one build run and one wait.                         *)
(*                                                                          *)
(* Pushes, manual selections, re-runs and cancellations happen at any time.   *)
(***************************************************************************)
EXTENDS Naturals, FiniteSetsExt

CONSTANTS
  Candidates,   \* registered candidates, in the order of their IDs
  Runs,         \* revalidation runs, numbered in the order they are created
  All,          \* the selection of every candidate
  None,         \* absent value
  Supported,    \* candidates the plan puts into the matrix; the others are blocked
  Selected,     \* candidates people revalidate on their own (bound)
  MaxRevision,  \* pushes to the default branch (bound)
  MaxAttempts,  \* attempts of a run (bound)
  MaxStarts,    \* runs and re-runs started in all (bound)
  MaxFailures   \* builds that fail (bound)

ASSUME CatalogAssumption ==
  /\ Supported \subseteq Candidates /\ Selected \subseteq Candidates
  /\ Candidates \cup Runs \subseteq Nat
  /\ {MaxRevision, MaxAttempts, MaxStarts} \subseteq Nat \ {0}
  /\ MaxFailures \in Nat
  /\ All \notin Candidates /\ None \notin Candidates \cup Runs

VARIABLES
  tip,          \* number of the default branch's revision
  run,          \* the revalidation runs, None while they do not exist
  slot,         \* the build in progress, or None
  waiting,      \* the build waiting for the slot, or None
  page,         \* the deployed catalog, or None
  failures,     \* builds that have failed so far
  apt           \* history: was the site true between the readings of the jobs

vars == <<tip, run, slot, waiting, page, failures, apt>>

Revisions == 1..MaxRevision
\* "running": queued or in progress.
JobState == {"absent", "running", "success", "failure", "cancelled"}
Jobs == [verify : [Candidates -> JobState], summary : BOOLEAN]
NoJobs == [verify |-> [c \in Candidates |-> "absent"], summary |-> FALSE]

Run == [rev : Revisions, scope : Candidates \cup {All}, attempt : 1..MaxAttempts,
        started : 1..MaxStarts, cancel : BOOLEAN, planned : BOOLEAN,
        phase : {"waiting", "plan", "verify", "call", "called", "over"},
        jobs : [1..MaxAttempts -> Jobs]]

Exists(r) == run[r] # None
Current(r) == run[r].jobs[run[r].attempt]
Status(r) == CASE run[r].phase = "over" -> "completed"
               [] run[r].phase = "waiting" -> "queued"
               [] OTHER -> "in_progress"

\* Mutated form: the conclusion of a job is passed on as it is.
RowRaw(status, jobs, c) ==
  IF jobs.verify[c] = "absent"
  THEN IF status # "completed" /\ ~jobs.summary THEN "running" ELSE "not_run"
  ELSE jobs.verify[c]
\* What a row of the catalog says (outcome).
Row(status, jobs, c) ==
  CASE jobs.verify[c] = "absent" ->
         IF status # "completed" /\ ~jobs.summary THEN "running" ELSE "not_run"
    [] jobs.verify[c] = "success" -> "verified"
    [] jobs.verify[c] = "failure" -> "failed"
    [] OTHER -> jobs.verify[c]   \* "running" or "cancelled"
Attempt == [run : Runs, attempt : 1..MaxAttempts]
Page == [rev : Revisions, rows : [Candidates ->
          [status : {"running", "not_run", "verified", "failed", "cancelled"},
           evidence : Attempt \cup {None}]]]

Covers(r, rev, c) == Exists(r) /\ run[r].rev = rev /\ run[r].scope \in {All, c}

\* The truth about the default branch: for each candidate, what its most recently
\* started run for the current revision says.
Evidence(r) == [run |-> r, attempt |-> run[r].attempt]
Latest(c) == {r \in Runs : /\ Covers(r, tip, c)
                           /\ \A q \in Runs : Covers(q, tip, c) => run[q].started <= run[r].started}
Truth == [rev |-> tip, rows |-> [c \in Candidates |->
            LET latest == Latest(c) IN
            IF latest = {} THEN [status |-> "not_run", evidence |-> None]
            ELSE LET r == CHOOSE r \in latest : TRUE IN
                 [status |-> Row(Status(r), Current(r), c), evidence |-> Evidence(r)]]]

(***************************************************************************)
(* Revalidation runs.                                                       *)
(***************************************************************************)
Build == <<slot, page>>
Clock == Max({0} \cup {run[q].started : q \in {q \in Runs : Exists(q)}})

\* A run of the same selection is superseded (concurrency, cancel-in-progress).
Interrupted(x) == [x EXCEPT !.jobs[x.attempt].verify = [c \in Candidates |->
                     IF @[c] = "running" THEN "cancelled" ELSE @[c]]]
Ended(x) == [x EXCEPT !.phase = "over", !.cancel = FALSE]
Superseded(x) == IF x.phase = "waiting" THEN Ended(Interrupted(x))
                                        ELSE [x EXCEPT !.cancel = TRUE]
Enter(r, new) ==
  /\ Clock < MaxStarts
  /\ run' = [q \in Runs |-> IF q = r THEN new
                            ELSE IF Exists(q) /\ run[q].scope = new.scope /\ run[q].phase # "over"
                                 THEN Superseded(run[q]) ELSE run[q]]

New(rev, scope, started) ==
  [rev |-> rev, scope |-> scope, attempt |-> 1, started |-> started, cancel |-> FALSE,
   planned |-> FALSE, phase |-> "waiting", jobs |-> [a \in 1..MaxAttempts |-> NoJobs]]

Created(r) == ~Exists(r) /\ \A q \in Runs : q < r => Exists(q)

Push(r) ==
  /\ tip < MaxRevision /\ Created(r)
  /\ tip' = tip + 1
  /\ Enter(r, New(tip + 1, All, Clock + 1))
  /\ UNCHANGED <<Build, waiting>>

Dispatch(r, scope) ==
  /\ Created(r)
  /\ Enter(r, New(tip, scope, Clock + 1))
  /\ UNCHANGED <<tip, Build, waiting>>

\* A re-run starts a new attempt, of all jobs or of those that did not succeed.
Again(r, jobs, planned) ==
  LET x == run[r] IN
  /\ Exists(r) /\ x.phase = "over" /\ x.attempt < MaxAttempts
  /\ Enter(r, [x EXCEPT !.attempt = @ + 1, !.started = Clock + 1,
                        !.planned = planned, !.phase = "waiting", !.jobs[x.attempt + 1] = jobs])
  /\ UNCHANGED <<tip, Build, waiting>>

RerunAll(r) == Again(r, NoJobs, FALSE)
RerunFailed(r) ==
  /\ Exists(r) /\ run[r].planned
  /\ Again(r, [verify |-> [c \in Candidates |->
                 IF Current(r).verify[c] \in {"absent", "success"} THEN Current(r).verify[c]
                 ELSE "running"], summary |-> FALSE], TRUE)

\* The superseded run has left the group.
Begin(r) ==
  /\ Exists(r) /\ run[r].phase = "waiting"
  /\ \A q \in Runs \ {r} : Exists(q) /\ run[q].scope = run[r].scope => run[q].phase \in {"waiting", "over"}
  /\ run' = [run EXCEPT ![r].phase = IF run[r].planned THEN "verify" ELSE "plan"]
  /\ UNCHANGED <<tip, Build, waiting>>

\* The summary runs whatever became of the jobs, the publication only after a plan.
Concluded(r) ==
  LET x == [run[r] EXCEPT !.jobs[run[r].attempt].summary = TRUE] IN
  [run EXCEPT ![r] = IF x.planned THEN [x EXCEPT !.phase = "call"] ELSE Ended(x)]

\* The plan needs the run's revision to be the default branch's; it may fail anyway.
Plan(r) ==
  LET x == run[r]
      work == Supported \cap (IF x.scope = All THEN Candidates ELSE {x.scope}) IN
  /\ Exists(r) /\ x.phase = "plan"
  /\ \/ /\ x.rev = tip
        /\ run' = [run EXCEPT ![r].phase = "verify", ![r].planned = TRUE,
             ![r].jobs[x.attempt].verify = [c \in Candidates |-> IF c \in work THEN "running" ELSE "absent"]]
     \/ run' = Concluded(r)
  /\ UNCHANGED <<tip, Build, waiting>>

Job(r, c, to) ==
  /\ Exists(r) /\ run[r].phase = "verify" /\ Current(r).verify[c] = "running"
  /\ run' = [run EXCEPT ![r].jobs[run[r].attempt].verify[c] = to]
  /\ UNCHANGED <<tip, Build, waiting>>

FailJob(r, c) == Job(r, c, "failure")
\* A proof passes only if its revision is still the default branch's at the end; what
\* follows that check (the sealing of the evidence) is part of the step.
PassJob(r, c) == Exists(r) /\ run[r].rev = tip /\ Job(r, c, "success")

Cancel(r) ==
  /\ Exists(r) /\ run[r].cancel
  /\ \/ run[r].phase = "plan" /\ run' = Concluded(r)
     \/ /\ run[r].phase = "verify"
        /\ \E c \in Candidates : Current(r).verify[c] = "running"
        /\ run' = [run EXCEPT ![r] = Interrupted(@)]
  /\ UNCHANGED <<tip, Build, waiting>>

Summary(r) ==
  /\ Exists(r) /\ run[r].phase = "verify"
  /\ \A c \in Candidates : Current(r).verify[c] # "running"
  /\ run' = Concluded(r)
  /\ UNCHANGED <<tip, Build, waiting>>

(***************************************************************************)
(* The concurrency group lean-candidate-catalog.                            *)
(***************************************************************************)
Over(x) == IF x = None \/ x.by = None THEN run ELSE [run EXCEPT ![x.by] = Ended(@)]

\* A newer request displaces the waiting one.
Call(r) ==
  /\ Exists(r) /\ run[r].phase = "call"
  /\ run' = [Over(waiting) EXCEPT ![r].phase = "called"]
  /\ waiting' = [rev |-> run[r].rev, by |-> r]
  /\ UNCHANGED <<tip, Build>>

\* Mutated form: only a revision that has no page yet is published.
ScheduleUnpublished ==
  /\ page # None => page.rev # tip
  /\ run' = Over(waiting)
  /\ waiting' = [rev |-> tip, by |-> None]
  /\ UNCHANGED <<tip, Build>>
Schedule ==
  /\ run' = Over(waiting)
  /\ waiting' = [rev |-> tip, by |-> None]
  /\ UNCHANGED <<tip, Build>>

Acquire ==
  /\ slot = None /\ waiting # None
  /\ slot' = [rev |-> waiting.rev, by |-> waiting.by, step |-> "runs",
              seen |-> [c \in Candidates |-> None], cache |-> [r \in Runs |-> None], left |-> {}]
  /\ waiting' = None
  /\ UNCHANGED <<tip, run, page>>

(***************************************************************************)
(* build.                                                                   *)
(***************************************************************************)
Steps == {"runs", "jobs", "recheck", "again", "deploy"}
Identity == [run : Runs, attempt : 1..MaxAttempts, status : {"queued", "in_progress", "completed"}]
Building == [rev : Revisions, by : Runs \cup {None}, step : Steps,
             seen : [Candidates -> Identity \cup {None}],
             cache : [Runs -> Jobs \cup {None}], left : SUBSET Candidates]
Request == [rev : Revisions, by : Runs \cup {None}]

\* The absent value is none of the records it stands in for.
ASSUME NoneAssumption ==
  None \notin Run \cup Jobs \cup Attempt \cup Page \cup Identity \cup Building \cup Request

At(step) == slot # None /\ slot.step = step
Goto(step) == slot' = [slot EXCEPT !.step = step]
ReadOnly == UNCHANGED <<tip, waiting, page>>
Stop == slot' = None /\ run' = Over(slot)

\* Mutated form: the revision is not compared with the branch.
OnDefaultAny == slot.rev \in Revisions
OnDefault == slot.rev = tip

\* The most recently started run of the revision that covers the candidate.
Newest(rev, c) ==
  {r \in Runs : Covers(r, rev, c) /\ \A q \in Runs : Covers(q, rev, c) => run[q].started <= run[r].started}

Listing(rev) ==
  [c \in Candidates |->
     LET newest == Newest(rev, c) IN
     IF newest = {} THEN None
     ELSE LET r == CHOOSE r \in newest : TRUE IN
          [run |-> r, attempt |-> run[r].attempt, status |-> Status(r)]]
Listed(seen) == {c \in Candidates : seen[c] # None}

\* The run whose jobs are read next: that of the first candidate left.
Turn == slot.seen[Min(slot.left)]
JobsNow == run[Turn.run].jobs[Turn.attempt]
Others == {c \in slot.left : slot.seen[c].run # Turn.run}

\* The branch is compared again at the end, so reading it and listing is one step.
ListRuns ==
  /\ At("runs")
  /\ ReadOnly
  /\ \/ /\ OnDefault /\ UNCHANGED run
        /\ LET listing == Listing(slot.rev) IN
           slot' = [slot EXCEPT !.step = "jobs", !.seen = listing, !.left = Listed(listing)]
     \/ ~OnDefault /\ Stop

ReadJobs ==
  /\ At("jobs")
  /\ UNCHANGED run /\ ReadOnly
  /\ \/ /\ slot.left # {}
        /\ slot' = [slot EXCEPT !.cache[Turn.run] = JobsNow, !.left = Others]
     \/ /\ slot.left = {}
        /\ slot' = [slot EXCEPT !.step = "recheck", !.left = Listed(slot.seen)]

\* Mutated form: only the names of the jobs are compared.
UnchangedNames == slot.cache[Turn.run] # None
Unchanged == slot.cache[Turn.run] = JobsNow

Recheck ==
  /\ At("recheck")
  /\ ReadOnly
  /\ \/ slot.left # {} /\ UNCHANGED run /\ Unchanged /\ slot' = [slot EXCEPT !.left = Others]
     \/ slot.left # {} /\ ~Unchanged /\ Stop
     \/ slot.left = {} /\ UNCHANGED run /\ Goto("again")

\* The runs and, last, the branch.
ListAgain ==
  /\ At("again")
  /\ ReadOnly
  /\ \/ UNCHANGED run /\ Goto("deploy") /\ OnDefault /\ Listing(slot.rev) = slot.seen
     \/ Stop /\ ~(OnDefault /\ Listing(slot.rev) = slot.seen)

\* The site that is uploaded.
Site == [rev |-> slot.rev, rows |-> [c \in Candidates |->
  LET id == slot.seen[c] IN
  IF id = None THEN [status |-> "not_run", evidence |-> None]
  ELSE [status |-> Row(id.status, slot.cache[id.run], c),
        evidence |-> [run |-> id.run, attempt |-> id.attempt]]]]

Deploy ==
  /\ At("deploy")
  /\ UNCHANGED <<tip, waiting>>
  /\ Stop
  /\ page' = Site

\* A request, the upload or the deployment fails.
Fail ==
  /\ slot # None /\ failures < MaxFailures
  /\ failures' = failures + 1
  /\ Stop
  /\ ReadOnly

\* The build of a run that is being cancelled may be cancelled with it.
Abandon ==
  \/ /\ slot # None /\ slot.by # None /\ run[slot.by].cancel
     /\ Stop
     /\ ReadOnly
  \/ /\ waiting # None /\ waiting.by # None /\ run[waiting.by].cancel
     /\ waiting' = None /\ run' = Over(waiting)
     /\ UNCHANGED <<tip, Build>>
-----------------------------------------------------------------------------
\* The first run has just been started.
Init ==
  /\ tip = 1
  /\ \E scope \in Selected \cup {All} :
       run = [r \in Runs |-> IF r = Min(Runs) THEN New(1, scope, 1) ELSE None]
  /\ slot = None /\ waiting = None /\ page = None
  /\ failures = 0 /\ apt = FALSE

People(r) ==
  \/ Push(r) \/ RerunAll(r) \/ RerunFailed(r)
  \/ \E scope \in Selected \cup {All} : Dispatch(r, scope)

RunStep(r) ==
  \/ Begin(r) \/ Plan(r) \/ Cancel(r) \/ Summary(r) \/ Call(r)
  \/ \E c \in Candidates : FailJob(r, c) \/ PassJob(r, c)

BuildStep ==
  \/ Acquire \/ ListRuns \/ ReadJobs \/ Recheck \/ ListAgain \/ Deploy

\* Whether the site agrees with the truth is noted when all jobs have been read once
\* and none twice.
Observe == apt' = IF slot' = None THEN FALSE
                  ELSE IF At("jobs") /\ slot'.step = "recheck" THEN Site = Truth ELSE apt

Next ==
  /\ \/ /\ UNCHANGED failures
        /\ \/ \E r \in Runs : People(r) \/ RunStep(r)
           \/ Schedule \/ BuildStep \/ Abandon
     \/ Fail
  /\ Observe

Spec == Init /\ [][Next]_vars

\* Builds that were called go on, and the schedule does; revalidation runs need not.
FairSpec ==
  /\ Spec
  /\ WF_vars(BuildStep /\ Observe /\ UNCHANGED failures)
  /\ WF_vars(Schedule /\ Observe /\ UNCHANGED failures)
-----------------------------------------------------------------------------
TypeOK ==
  /\ tip \in Revisions
  /\ run \in [Runs -> Run \cup {None}]
  /\ slot \in Building \cup {None}
  /\ slot # None /\ slot.step \in {"recheck", "again", "deploy"} =>
       \A c \in Listed(slot.seen) : slot.cache[slot.seen[c].run] # None
  /\ waiting \in Request \cup {None}
  /\ page \in Page \cup {None}
  /\ failures \in 0..MaxFailures
  /\ apt \in BOOLEAN

\* A site that is uploaded shows, for all candidates together, what was true at one
\* moment of its build (catalog.py:84-136): never one run's jobs from before and
\* another's from after a change, a superseded attempt, or another revision.
TrueAtOnce == At("deploy") => apt

\* The page never goes back: not to an earlier revision, and within a revision not
\* from a run to none nor to an earlier attempt of a run (candidate-catalog.yml:9-11,
\* catalog.py:75, 135).
PageForward ==
  [][page # None /\ page' # page =>
       \/ page'.rev > page.rev
       \/ /\ page'.rev = page.rev
          /\ \A c \in Candidates :
               LET old == page.rows[c].evidence
                   new == page'.rows[c].evidence IN
               old # None => new # None /\ (new.run = old.run => new.attempt >= old.attempt)]_vars

\* Once people leave the branch alone the page comes to show the truth and stays so,
\* although calls were displaced and builds stopped by a moved branch, by jobs that
\* went on, or by a failure: what is on the page is published again
\* (docs/candidate-lifecycle.md:87-89: the scheduled publisher provides recovery).
PageCatchesUp == <>[](page # None /\ page = Truth)
=============================================================================
