------------------------------- MODULE Resume -------------------------------
(***************************************************************************)
(* The resume scheduler (verifier/resume.py, resume-candidates.yml): one    *)
(* invocation at a time per protected branch walks through the open pull    *)
(* requests of that branch and dispatches the verification workflow once    *)
(* per identity (pull request, head, base revision, branch), with at most   *)
(* one retry of a run that failed before any proof was executed.            *)
(*                                                                          *)
(* Each API call is a step: pull requests, branches and workflow runs move  *)
(* between any two of them.  What a verification run does is StatusGate's   *)
(* business; here a run is active, executes its proofs or not, and ends.    *)
(***************************************************************************)
EXTENDS Naturals, FiniteSets, SequencesExt

CONSTANTS
  PRs,          \* pull request numbers, newer ones larger
  Heads,        \* candidate commits
  Branches,     \* the protected branches the scheduler runs on
  Cron,         \* those whose scheduler is started again and again (bound): the default branch
  Revs,         \* revisions of the branches
  Runs,         \* workflow runs
  None,         \* absent value
  Candidates,   \* heads that touch candidates/, submissions/ or proofs/
  PlanOf,       \* answer of the check-only plan for <<head, base>>
  PageSize,     \* pull requests per page (100 in the code)
  Moves,        \* kinds of repository change the instance explores
  Outages,      \* may API calls fail and jobs time out
  MaxAttempts   \* attempts a run may have (bound on manual re-runs)

VARIABLES
  pr,           \* pulls/<number>
  tip,          \* branches/<b>: commit.sha
  been,         \* every revision <b> has pointed at
  guarded,      \* branches/<b>: protected
  run,          \* the workflow runs, None while they do not exist
  scan          \* what the scheduler invocation of each branch is doing

github == <<pr, tip, been, guarded>>
vars == <<pr, tip, been, guarded, run, scan>>

\* repo: the head repository still exists.
PullRequest == [open : BOOLEAN, draft : BOOLEAN, head : Heads, base : Branches,
                repo : BOOLEAN]

\* head and base are what run-name shows: a dispatch shows the expected head it
\* was given and the tip it ran on, an event its own, possibly lagging, base.
Run == [by : {"event", "manual", "scheduler"}, pr : PRs, head : Heads \cup {None},
        base : Revs, branch : Branches, active : BOOLEAN, attempt : 1..MaxAttempts,
        conclusion : {"none", "success", "failure", "cancelled"}, executed : BOOLEAN]

ASSUME ResumeAssumption ==
  /\ PRs \subseteq Nat /\ IsFiniteSet(PRs) /\ Cron \subseteq Branches
  /\ Candidates \subseteq Heads
  /\ PlanOf \in [Heads \X Revs -> {"ready", "not_applicable", "blocked", "failed"}]
  /\ PageSize \in Nat \ {0} /\ MaxAttempts \in Nat \ {0}
  /\ Moves \subseteq {"push", "draft", "retarget", "close", "advance", "manual",
                      "protect", "delete"}
  /\ Outages \in BOOLEAN
  /\ None \notin Heads \cup Revs \cup Runs \cup Run

Exists(r) == run[r] # None
Identity(x) == <<x.pr, x.head, x.base, x.branch>>

(***************************************************************************)
(* Workflow runs.                                                           *)
(***************************************************************************)
\* A new run of a pull request cancels the one in progress
\* (lean-verification.yml: concurrency trusted-lean-<PR>, cancel-in-progress).
Cancel(x) == [x EXCEPT !.active = FALSE, !.conclusion = "cancelled"]

NewRun(by, p, head, base, branch) ==
  \E r \in Runs :
    /\ ~Exists(r)
    /\ run' = [s \in Runs |->
         IF s = r
         THEN [by |-> by, pr |-> p, head |-> head, base |-> base, branch |-> branch,
               active |-> TRUE, attempt |-> 1, conclusion |-> "none", executed |-> FALSE]
         ELSE IF Exists(s) /\ run[s].pr = p /\ run[s].active THEN Cancel(run[s])
         ELSE run[s]]

\* The verify job of a run whose identity is current starts a proof check.  Only
\* first attempts are ever asked whether they did.
Execute(r) ==
  /\ Exists(r) /\ run[r].active /\ run[r].attempt = 1 /\ ~run[r].executed
  /\ LET x == run[r] IN
     /\ x.base = tip[x.branch] /\ x.head \in {None, pr[x.pr].head}
     /\ PlanOf[<<pr[x.pr].head, x.base>>] = "ready"
  /\ run' = [run EXCEPT ![r].executed = TRUE]
  /\ UNCHANGED <<github, scan>>

Complete(r) ==
  /\ Exists(r) /\ run[r].active
  /\ \E c \in {"success", "failure"} :
       run' = [run EXCEPT ![r].active = FALSE, ![r].conclusion = c]
  /\ UNCHANGED <<github, scan>>

\* A maintainer re-runs a finished run, under the same run id.
Rerun(r) ==
  /\ Exists(r) /\ ~run[r].active /\ run[r].attempt < MaxAttempts
  /\ run' = [s \in Runs |->
       IF s = r THEN [run[r] EXCEPT !.active = TRUE, !.attempt = @ + 1, !.conclusion = "none"]
       ELSE IF Exists(s) /\ run[s].pr = run[r].pr /\ run[s].active THEN Cancel(run[s])
       ELSE run[s]]
  /\ UNCHANGED <<github, scan>>

(***************************************************************************)
(* Pull requests and branches.  The payload of an event carries base.sha,   *)
(* which may lag behind the branch (resume.py:28).                          *)
(***************************************************************************)
Event(p, new) ==
  /\ pr' = [pr EXCEPT ![p] = new]
  /\ \E rev \in been[new.base] : NewRun("event", p, new.head, rev, new.base)
  /\ UNCHANGED <<tip, been, guarded, scan>>

Quiet(p, new) ==
  /\ pr' = [pr EXCEPT ![p] = new]
  /\ UNCHANGED <<tip, been, guarded, run, scan>>

Open(p) == ~pr[p].open /\ Event(p, [pr[p] EXCEPT !.open = TRUE])
Push(p, h) == /\ pr[p].open /\ pr[p].repo /\ h # pr[p].head
                  /\ Event(p, [pr[p] EXCEPT !.head = h])
Retarget(p, b) == pr[p].open /\ b # pr[p].base /\ Event(p, [pr[p] EXCEPT !.base = b])
Ready(p) == pr[p].open /\ pr[p].draft /\ Event(p, [pr[p] EXCEPT !.draft = FALSE])
Draft(p) == pr[p].open /\ ~pr[p].draft /\ Quiet(p, [pr[p] EXCEPT !.draft = TRUE])
Close(p) == pr[p].open /\ Quiet(p, [pr[p] EXCEPT !.open = FALSE])
Delete(p) == pr[p].repo /\ Quiet(p, [pr[p] EXCEPT !.repo = FALSE])

\* A manual dispatch names the pull request and no expected head.
Manual(p, b) ==
  /\ NewRun("manual", p, None, tip[b], b)
  /\ UNCHANGED <<github, scan>>

Advance(b, rev) ==
  /\ rev \notin been[b]
  /\ tip' = [tip EXCEPT ![b] = rev]
  /\ been' = [been EXCEPT ![b] = @ \cup {rev}]
  /\ UNCHANGED <<pr, guarded, run, scan>>

Protect(b) ==
  /\ guarded' = [guarded EXCEPT ![b] = ~@]
  /\ UNCHANGED <<pr, tip, been, run, scan>>

(***************************************************************************)
(* One invocation.  base is the checkout; listed and initial are the runs   *)
(* as they were when listed; queue is the rest of the current page, as it   *)
(* was when fetched; page is its number, 0 before the first and after the   *)
(* last.                                                                    *)
(***************************************************************************)
Steps == {"idle", "branch", "runs", "pulls", "next", "files", "initial", "jobs",
          "plan", "current", "tip", "dispatch"}
\* Steps at the first entry of the queue.
Working == {"files", "initial", "jobs", "plan", "current", "tip", "dispatch"}
Entry == [number : PRs, head : Heads, draft : BOOLEAN, repo : BOOLEAN]
Scan == [step : Steps, base : Revs \cup {None}, listed : SUBSET [id : Runs, was : Run],
         page : Nat, full : BOOLEAN, queue : Seq(Entry), old : Runs \cup {None},
         plan : {"none", "ready", "not_applicable", "blocked", "failed"}]

Idle == [step |-> "idle", base |-> None, listed |-> {}, page |-> 0, full |-> FALSE,
         queue |-> <<>>, old |-> None, plan |-> "none"]

At(b, step) == scan[b].step = step
Set(b, new) == scan' = [scan EXCEPT ![b] = new] /\ UNCHANGED <<github, run>>
Goto(b, step) == Set(b, [scan[b] EXCEPT !.step = step])
Stop(b) == Set(b, Idle)
Cur(b) == Head(scan[b].queue)
\* Mutated form: going on skips the look at the page and at the draft flag.
NextPullUnseen(s) == [s EXCEPT !.step = "files", !.queue = Tail(@), !.old = None,
                               !.plan = "none"]
NextPull(s) == [s EXCEPT !.step = "next", !.queue = Tail(@), !.old = None,
                             !.plan = "none"]
SkipPull(b) == Set(b, NextPull(scan[b]))

\* The schedule, a push or a person starts the workflow; the concurrency group
\* lean-candidate-resume-<ref> keeps invocations of one branch apart.
Wake(b) ==
  /\ At(b, "idle") /\ b \in Cron
  /\ Set(b, [Idle EXCEPT !.step = "branch", !.base = tip[b]])

OnTip(b) == guarded[b] /\ tip[b] = scan[b].base

ReadBranch(b) ==
  /\ At(b, "branch")
  /\ \/ OnTip(b) /\ Goto(b, "runs")
     \/ ~OnTip(b) /\ Stop(b)

\* The runs whose head_sha is the base: dispatches made on that revision.
Snapshot(S) == {[id |-> r, was |-> run[r]] : r \in S}
ListRuns(b) ==
  /\ At(b, "runs")
  /\ Set(b, [scan[b] EXCEPT !.step = "pulls", !.listed = Snapshot(
       {r \in Runs : Exists(r) /\ run[r].by # "event" /\ run[r].base = scan[b].base})])

\* pulls?state=open&base=<b>, newest first, page by page: the next page is asked
\* for only after every pull request of the page before was dealt with.
Pulls(b) == {p \in PRs : pr[p].open /\ pr[p].base = b}
NewestFirst(S) == {s \in SetToSeqs(S) : \A i, j \in DOMAIN s : i < j => s[i] > s[j]}
Page(all, k) ==
  LET end == IF k * PageSize < Len(all) THEN k * PageSize ELSE Len(all) IN
  SubSeq(all, (k - 1) * PageSize + 1, end)
EntryOf(p) == [number |-> p, head |-> pr[p].head, draft |-> pr[p].draft, repo |-> pr[p].repo]

ListPulls(b) ==
  /\ At(b, "pulls")
  /\ \E all \in NewestFirst(Pulls(b)) :
       LET k == scan[b].page + 1  found == Page(all, k) IN
       Set(b, [scan[b] EXCEPT !.step = "next", !.page = k,
               !.full = Len(found) = PageSize,
               !.queue = [i \in 1..Len(found) |-> EntryOf(found[i])]])

NextEntry(b) ==
  /\ At(b, "next")
  /\ \/ scan[b].queue = <<>> /\ scan[b].full /\ Goto(b, "pulls")
     \/ scan[b].queue = <<>> /\ ~scan[b].full /\ Stop(b)
     \/ /\ scan[b].queue # <<>>
        /\ IF Cur(b).draft THEN SkipPull(b) ELSE Goto(b, "files")

\* pulls/<number>/files lists the live files; a failing listing is reported and
\* the next pull request tried.
ReadFiles(b) ==
  /\ At(b, "files")
  /\ \/ pr[Cur(b).number].head \in Candidates /\ Goto(b, "initial")
     \/ pr[Cur(b).number].head \notin Candidates /\ SkipPull(b)
     \/ Outages /\ SkipPull(b)

\* Mutated forms: the base revision does not count; dispatches are left out.
PreviousAnyBase(b) ==
  LET e == Cur(b)
      initial == {r \in Runs : Exists(r) /\ run[r].by = "event" /\ run[r].head = e.head} IN
  {x \in scan[b].listed \cup Snapshot(initial) :
     x.was.pr = e.number /\ x.was.head = e.head /\ x.was.branch = b}
PreviousEvents(b) ==
  LET e == Cur(b)
      initial == {r \in Runs : Exists(r) /\ run[r].by = "event" /\ run[r].head = e.head} IN
  {x \in Snapshot(initial) : Identity(x.was) = <<e.number, e.head, scan[b].base, b>>}

\* Runs of this very identity: dispatches as listed when the invocation began,
\* events as listed now.
Previous(b) ==
  LET e == Cur(b)
      initial == {r \in Runs : Exists(r) /\ run[r].by = "event" /\ run[r].head = e.head} IN
  {x \in scan[b].listed \cup Snapshot(initial) :
     Identity(x.was) = <<e.number, e.head, scan[b].base, b>>}

Retriable(x) == /\ ~x.was.active /\ x.was.attempt = 1
                /\ x.was.conclusion \in {"failure", "cancelled"}

ReadRuns(b) ==
  LET previous == Previous(b) IN
  /\ At(b, "initial")
  /\ \/ ~Cur(b).repo /\ SkipPull(b)
     \/ /\ Cur(b).repo /\ previous = {}
        /\ Goto(b, "plan")
     \/ /\ Cur(b).repo
        /\ \E x \in previous :
             /\ previous = {x} /\ Retriable(x)
             /\ Set(b, [scan[b] EXCEPT !.step = "jobs", !.old = x.id])
     \/ /\ Cur(b).repo /\ previous # {}
        /\ ~ \E x \in previous : previous = {x} /\ Retriable(x)
        /\ SkipPull(b)

\* Mutated form: the jobs of the failed run are not looked at.
RetryAlways(b) == At(b, "jobs") /\ Goto(b, "plan")

\* The jobs of the failed run's first attempt: no retry once a proof was executed.
ReadJobs(b) ==
  /\ At(b, "jobs")
  /\ \/ ~run[scan[b].old].executed /\ Goto(b, "plan")
     \/ run[scan[b].old].executed /\ SkipPull(b)

\* merge_gate.run in check-only mode; whatever it raises counts as blocked.
Plannable(b) ==
  LET p == pr[Cur(b).number] IN
  p.open /\ p.head = Cur(b).head /\ guarded[p.base] /\ tip[p.base] = scan[b].base
Plan(b) ==
  /\ At(b, "plan")
  /\ \E answer \in {IF Plannable(b) THEN PlanOf[<<Cur(b).head, scan[b].base>>] ELSE "blocked"}
                     \cup (IF Outages THEN {"blocked"} ELSE {}) :
       Set(b, [scan[b] EXCEPT !.step = "current", !.plan = answer])

Current(b) ==
  LET p == pr[Cur(b).number] IN p.open /\ p.base = b /\ p.head = Cur(b).head
ReadCurrent(b) ==
  /\ At(b, "current")
  /\ \/ Current(b) /\ Goto(b, "tip")
     \/ ~Current(b) /\ SkipPull(b)

ReadTip(b) ==
  /\ At(b, "tip")
  /\ \/ ~OnTip(b) /\ Stop(b)
     \/ OnTip(b) /\ scan[b].plan \in {"ready", "blocked"} /\ Goto(b, "dispatch")
     \/ OnTip(b) /\ scan[b].plan \notin {"ready", "blocked"} /\ SkipPull(b)

\* The dispatch runs on the branch as it is when it arrives.
Dispatch(b) ==
  /\ At(b, "dispatch")
  /\ NewRun("scheduler", Cur(b).number, Cur(b).head, tip[b], b)
  /\ scan' = [scan EXCEPT ![b] = NextPull(@)]
  /\ UNCHANGED github

\* An API call that fails outside the one try block, or the job's timeout, ends
\* the invocation; a later one starts from nothing.
Abort(b) == Outages /\ ~At(b, "idle") /\ Stop(b)

-----------------------------------------------------------------------------
Init ==
  /\ pr \in [PRs -> PullRequest]
  /\ \A p \in PRs : ~pr[p].open /\ ~pr[p].draft /\ pr[p].repo
  /\ tip \in [Branches -> Revs]
  /\ been = [b \in Branches |-> {tip[b]}]
  /\ guarded = [b \in Branches |-> TRUE]
  /\ run = [r \in Runs |-> None]
  /\ scan = [b \in Branches |-> Idle]

PullMove(p) ==
  \/ Open(p)
  \/ "push" \in Moves /\ \E h \in Heads : Push(p, h)
  \/ "retarget" \in Moves /\ \E b \in Branches : Retarget(p, b)
  \/ "draft" \in Moves /\ (Ready(p) \/ Draft(p))
  \/ "close" \in Moves /\ Close(p)
  \/ "delete" \in Moves /\ Delete(p)
  \/ "manual" \in Moves /\ \E b \in Branches : Manual(p, b)

BranchMove(b) ==
  \/ "advance" \in Moves /\ \E rev \in Revs : Advance(b, rev)
  \/ "protect" \in Moves /\ Protect(b)

RunMove(r) == Execute(r) \/ Complete(r) \/ Rerun(r)

Invocation(b) ==
  \/ ReadBranch(b) \/ ListRuns(b) \/ ListPulls(b) \/ NextEntry(b) \/ ReadFiles(b)
  \/ ReadRuns(b) \/ ReadJobs(b) \/ Plan(b) \/ ReadCurrent(b) \/ ReadTip(b) \/ Dispatch(b)

Next ==
  \/ \E p \in PRs : PullMove(p)
  \/ \E r \in Runs : RunMove(r)
  \/ \E b \in Branches : BranchMove(b) \/ Wake(b) \/ Invocation(b) \/ Abort(b)

Spec == Init /\ [][Next]_vars

\* An invocation goes on, and the schedule starts one on the default branch again
\* and again; develop is only woken by pushes and people.
FairSpec ==
  /\ Spec
  /\ \A b \in Branches : WF_vars(Invocation(b))
  /\ \A b \in Cron : WF_vars(Wake(b))

-----------------------------------------------------------------------------
TypeOK ==
  /\ pr \in [PRs -> PullRequest]
  /\ tip \in [Branches -> Revs] /\ been \in [Branches -> SUBSET Revs]
  /\ guarded \in [Branches -> BOOLEAN]
  /\ run \in [Runs -> Run \cup {None}]
  /\ scan \in [Branches -> Scan]
  /\ \A b \in Branches :
       /\ scan[b].step \in Working => scan[b].queue # <<>>
       /\ At(b, "jobs") => scan[b].old \in Runs

Made(r) == ~Exists(r) /\ run'[r] # None /\ run'[r].by = "scheduler"
Earlier(r) == {s \in Runs : Exists(s) /\ run[s].by = "scheduler"
                              /\ Identity(run[s]) = Identity(run'[r])}

\* docs/simplified-intake.md:60-65 on deduplication: the scheduler dispatches an
\* identity once, and once more only after that dispatch failed before executing
\* a proof (a re-run a maintainer started since then is his own affair).
DispatchedOnce ==
  [][\A r \in Runs : Made(r) =>
       /\ Cardinality(Earlier(r)) <= 1
       /\ \A s \in Earlier(r) : ~run[s].executed /\ (run[s].active => run[s].attempt > 1)]_vars

\* p waits for the scheduler of its branch at this identity.
Awaits(p, h, v) ==
  LET x == pr[p] IN
  /\ x.open /\ ~x.draft /\ x.repo /\ x.head = h /\ h \in Candidates
  /\ x.base \in Cron /\ guarded[x.base] /\ tip[x.base] = v
  /\ PlanOf[<<h, v>>] \in {"ready", "blocked"}
Attempted(p, h, v) ==
  \E r \in Runs : Exists(r) /\ run[r].pr = p /\ run[r].head = h /\ run[r].base = v
                    /\ run[r].branch = pr[p].base

\* Every candidate that stays open at an identity gets a run for it
\* (docs/simplified-intake.md:72-73: a new target revision is a new recovery
\* opportunity), unless the instance has no run left.
EveryIdentityAttempted ==
  \A p \in PRs, h \in Heads, v \in Revs :
    <>[]Awaits(p, h, v) => <>(Attempted(p, h, v) \/ \A r \in Runs : Exists(r))
=============================================================================
