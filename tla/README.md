# Formal models of the Lean verification service

This directory models the part of the repository that decides things: when a
candidate proof may be called verified, how one proof is executed, when a
verification is started again, when an acceptance is published, what reaches the
protected branch, and what the public catalog shows.  The models are TLA+ modules
translated from the code (`verifier/`, `scripts/`, `.github/workflows/`), TLC
checks them on small instances, and TLAPS proves for every instance all safety
properties that the passing runs check, three of them under a hypothesis section 5
states (`DisjointHeads`, `OnePage`), and both refinements.

```
tlc -workers 2 -config GateAnswers.cfg MCStatusGate.tla   # any other .cfg likewise
tlapm StatusGateProofs.tla       # likewise ResumeProofs, AcceptanceProofs,
                                 # PublicationProofs, CatalogProofs, VerificationProofs
```

`PROJECT.json` lists the components, the runs, the mutated definitions each
property was tried against, the source lines of every definition, the hazards
and the theorems.

## 1. The system

A repository of Lean proof candidates verifies pull requests with a trusted
controller.  Everything persistent is at GitHub: pull requests, protected
branches, commit statuses, workflow runs, releases, and files of the default
branch.  The programs keep no state between API calls except local variables, so
the whole difficulty is that those calls are not one transaction.

| component | state it keeps | operations | hard behaviour | correct when |
| --- | --- | --- | --- | --- |
| status gate (`scripts/gate_status.py`, `lean-verification.yml`) | commit status; outputs and results of jobs; concurrency groups | resolve, plan, verify, publish; cancel, re-run | runs superseding each other, pull requests and branches moving between calls, failing and re-run jobs | a success was earned for exactly this head, target and base; a verdict replaces only its own announcement; the newest run answers |
| merge gate controller (`verifier/merge_gate.py`) | none (reads a snapshot, rechecks it) | snapshot, plan, verify | stale reads | plan and proof are about what was resolved |
| resume scheduler (`verifier/resume.py`) | the dispatched runs | one invocation per branch per quarter of an hour | lists read once and used for minutes, paging over a changing list, automatic retry | an identity is dispatched once and retried once; none is forgotten |
| acceptance (`verifier/acceptance.py`) | releases, assets, index | accept, import_release | interrupted uploads, rival operators, resumption, changing settings | a published release is complete; the index holds one sealed, evidenced decision |
| candidate commands (`verifier/candidate.py`) | branches, pull requests, index, README table | submit, verify, publish | publication generated on one revision and merged on another, calls that fail in the middle, rerun as only recovery | table and index agree and lose nothing; only what was generated is merged; a rerun finishes |
| catalog, revalidation (`verifier/catalog.py`, `revalidate.py`, `revalidate.yml`, `candidate-catalog.yml`) | runs and their jobs, the deployed page | push, select, re-run; build, deploy | runs and jobs read over many calls while they go on, builds displacing and overtaking one another | a page shows one moment's truth, does not go back, and catches up |
| Lean backend (`verifier/lean_backend.py`, `results.py`) | docker client, container, output buffers | probes, sources, build, targets, axioms, replay | deadline against output and exit, a client that dies before its container | a pass has the whole answer of every stage; a timed-out or truncated execution decides nothing; the job ends |
| intake and adaptation (`verifier/intake.py`) | a worklist of sources | check, retrieve, select, adapt | the same sources are selected and adapted again at execution, by other code | what is called ready is executed; imports stay the candidate's own |
| registry, environments, evidence archives, matrix, summaries | none | pure functions over files | input classes | agreement with their documented decision tables |

Interaction: the scheduler dispatches runs of the gate; the gate's jobs call the
controller; revalidation calls it too; a proof job prepares or reads its materials and runs the backend;
publish merges what the gate passed, calls
acceptance, and proposes index and table in a pull request that is itself subject
to required checks; the catalog reads runs and index.  The components share no
memory, only GitHub's objects, and each model has the objects its component reads
and writes as variables which other people may also change.

## 2. Modules

| module | models | how it corresponds to the code |
| --- | --- | --- |
| `StatusGate` | the workflow and `gate_status.py`, with the controller's reads | `pc[r]` is the job and call a run is at; one action per API call.  `ctx` is the resolver's output, `planned`/`executed` the job results the publisher gets, `status` GitHub's commit status with the run URL, `basis` a history variable: which listing plan and proof used |
| `MCStatusGate` | instances | what plan and proof answer for each head and base |
| `StatusGateProofs` | theorems about StatusGate | section 5; so for the other `...Proofs` |
| `Resume` | `resume.py` | `scan[b]` is the local state of the invocation of branch b, `run` the workflow runs as the API lists them |
| `MCResume` | instances | |
| `ResumeProofs` | theorems about Resume | the invariant is about what an invocation remembers |
| `Acceptance` | `acceptance.py`, publish around it | `session[s]` is a command's local state, `release` GitHub's releases with drafts and assets, `change` the publication pull requests, `index` the protected index |
| `Decision` | abstract specification of Acceptance | decisions are sealed once, on evidence; at most one is indexed and it stays |
| `MCAcceptance` | instances | |
| `AcceptanceProofs` | theorems about Acceptance | the invariant says what a command has established at each step; also the refinement of Decision |
| `Publication` | `candidate.py`: submit, publish, open_change, merge, complete_publication; `registration.py`: the table | `branch` is the history of the default branch, `pull` and `refs` GitHub's, `command[o]` a command's local state |
| `MCPublication` | instances | |
| `PublicationProofs` | theorems about Publication | the invariant is about the heads of pull requests |
| `Catalog` | `revalidate.yml`, `candidate-catalog.yml`, `catalog.py`: build | `run` has each run's attempts with their jobs, `slot` and `waiting` are the concurrency group, `slot` holds the local state of the build (what it listed, which jobs it has read, which are left), `page` what is deployed; one action per list of runs or jobs |
| `MCCatalog` | instances | |
| `CatalogProofs` | theorems about Catalog | the invariant relates what a build has read to what is so now |
| `Verdict` | abstract specification of Backend | stages are answered in order; a pass needs every answer, a failure a rejection, anything else is an infrastructure error |
| `Resources` | the resource policy of an environment | constants of Backend and Intake |
| `Backend` | `lean_backend.py`: sandbox, execute, copy_sources, verify | `at` is the stage, `phase` where `sandbox` is; `client`, `box`, `sent`, `clock` belong to the docker client, the container, its output and time, which take steps of their own; `answer` is a history variable: what a container really said, if it ended and everything was read |
| `Intake` | `intake.py`: prepare_one | `pending` and `selected` are the worklist, `deps` what files turn out to import as they are read, `blocked` the first blocker |
| `Verification` | `merge_gate.py`: prerequisites, candidate_sources, execute_candidates; `results.py`: write_result; Intake and Backend composed | `job` is where the job is; preparation hands a plan (files, renaming) to the execution, which forms the sources again (`solution`), runs the backend on them and reports the outcome |
| `MCVerification` | instances | |
| `VerificationProofs` | theorems about Verification, Backend, Intake | the refinement of Verdict among them |

An action stands for one API call and the code that follows up to the next one.
Where two reads follow each other and the later check fails on any change in
between, they are one step; the comment at the action says so.

Data that no property distinguishes is abstract.  What the controller says of a
head, a listing and a base is the constant `PlanOf`, whether the proofs verify is
`Proven`; a candidate's files are its ID; a release tag is the approval it is a
hash of; the verify matrix is one job whose result is the matrix's.  The
properties hold for any value of these constants; the instances choose values in
which every answer occurs.

GitHub's side is modelled from the use the code makes of it: a concurrency group
holds one running and one waiting job and a newer one displaces the waiting one;
a status is per commit, a lock per pull request; re-run of failed jobs keeps the
outputs of successful ones and the run URL; required checks are strict
(`docs/merge-gate-review.md:5`), so a pull request is mergeable only on the tip;
a release's asset can be left behind half uploaded; creating an existing ref
fails; git refuses to merge two different changes of one file (the file is the
unit, which is coarser than lines).

## 3. What the runs check

All runs disable the deadlock check: run ids, release ids, pull request numbers
and revisions are finite sets, and once they are used up an instance may stop.

| run | properties | question |
| --- | --- | --- |
| `GateAnswers` | TypeOK, SuccessEarned, NewestRunAnswers, StaleNeverPosts | liveness of the hand-over between two runs; moved pull requests get no verdict |
| `GateOutages` | SuccessEarned, RunsOK, LockInv, ReplacesOwnPending | every job and call may fail, cancelled runs still drain, maintainers re-run all or failed jobs |
| `GateResolverOutage` | ResolverFailureBlocks | counterexample, see section 4 |
| `ResumeDispatch` | TypeOK, DispatchedOnce | advancing and unprotected branch, pushes, drafts, closing, manual runs, aborted invocations, three runs |
| `ResumeLive` | EveryIdentityAttempted | nothing waiting is forgotten after the base moves |
| `AcceptRivals` | TypeOK, PublishedIntact, IndexBacked, Decides | two commands, two approvals, interrupted uploads, changing sealing setting |
| `AcceptRerun` | RerunCompletes, PublishedResumes | rerun after failing calls |
| `AcceptInterrupted` | RerunCompletes | counterexample |
| `PublishRace` | TypeOK, TableAgrees, NothingLost, MergesGenerated | two operators, two candidates, other people pushing, closing, merging, failing calls |
| `PublishOrphan` | RerunSynchronizes | counterexample |
| `CatalogPages` | TypeOK, TrueAtOnce, PageForward, PageCatchesUp | builds that read runs while they go on, displace each other and fail |
| `VerifyJob` | TypeOK, OwnImports, ReadyExecutes, PassEarned, ResultWritten, Alone, Judges, Terminates | one proof job from preparation to written result against misbehaving containers |

### Bounds

- Gate: one pull request; SuccessEarned and RunsOK are proved for any number, and
  two of them interact only over a shared commit (see section 4).  Two runs are one
  publishing or draining and one displacing it, two attempts are a run and a re-run
  of it; three runs at once are covered by the proofs only.  `GateAnswers` has two
  heads, two targets and two base revisions, `GateOutages` failures, re-runs (of one
  of the two runs, `OneRerun`) and an unprotected target in their place; every kind
  of move occurs in one of them.
- Resume: three runs are a dispatch, its retry and the one too many.  Only the
  default branch has a scheduler that is started again and again (`Cron`);
  invocations for the other branches, which are started by pushes and share with it
  only the runs they list, are not explored.  `OneObstacle`, in `ResumeDispatch`, leaves out
  states in which two of {closed, draft, fork gone, branch unprotected, no candidate
  file} keep the scheduler from the pull request at once, and `OneManual` a second run
  by hand.
- Acceptance: two commands and two approvals, two releases, two or three assets,
  three revisions (the approved one and two later).  `AcceptRivals` starts on the
  approved revision (`ApprovedFirst`: earlier commands only stop) and has at most one
  asset half uploaded at a time (`OneInterrupted`).
- Publication: two pull requests and three revisions, starting with any subset of
  the candidates registered, so two publications generated on one revision can
  both try to land; in `PublishRace` one failing call or one pull request with
  foreign files (`OneIntrusion`).
- Catalog: a first run, of everything or of one selected candidate, and one more run
  or re-run (`MaxStarts`): a push or selection superseding or overtaking it, or a
  second attempt.  One candidate is in the matrix and one blocked.  Two builds may fail
  (`MaxFailures`), so a retry can fail again; builds that stop because something moved
  are not counted.
- VerifyJob: one read of output and two ticks are the limits, so that a stream can
  stay at the limit or pass it and every wait can end just before or at its deadline;
  four paths of which two are trusted, one is the renamed file and one neither;
  files may import any of them; up to four files, so the bridge may be one too many.
- `Moves` names the kinds of outside change an instance explores.  Every action
  occurs in at least one passing run.

### Fairness

- `GateAnswers`: `WF_vars(RunStep(r))` for each run: runners take jobs, jobs end
  within their `timeout-minutes`, cancellation is honoured.  No fairness for
  people or branches.  Outages are off, since a failing publisher posts nothing, and
  `Drains` is FALSE: when a cancelled run still drains, TLC finds, with two runs,
  its publish job displacing the newest run's waiting resolve job from the group's
  single waiting slot, after which the newest run never starts.  Safety is checked
  with draining runs in `GateOutages` and proved for both values.
- `ResumeLive`: an invocation goes on, and the schedule (`cron`) wakes the one of
  the default branch again and again; no fairness for `develop`, which has none.
- `AcceptRerun`, `AcceptInterrupted`: a command runs to its end and the operator
  runs it again (the documented recovery).  Failing calls are bounded in number.
- `CatalogPages`: builds that were called go on, and the schedule
  (`candidate-catalog.yml`) calls again and again; nothing is assumed of the
  revalidation runs, which may stay unfinished and are then shown so.  That people
  leave the branch alone in the end, and that builds do not fail for ever, follows
  from the bounds on starts and failures: PageCatchesUp has no premise.
- `VerifyJob`: `WF_vars(Program)`, the controller is a process that goes on, and
  time passes.  Containers and docker clients owe nothing: they may hang, stay silent
  or write for ever.
- `PublishOrphan`: a command runs to its end; strong fairness of rerunning publish
  for each candidate; what a pull request waits for is eventually done.

## 4. Disagreements found

Listed as findings, with a run each:

1. `GateResolverOutage`: the resolver announces *pending* only in its last call
   (`gate_status.py:80`).  When it fails after a retarget, the success of the
   earlier target stays on the head, while `docs/merge-gate-review.md:9` says a
   resolver outage leaves the status missing or pending and no previous success is
   reused.
2. `AcceptInterrupted`: a rerun skips the assets whose names the draft already has
   (`acceptance.py:219`), also one left in a state other than *uploaded*, which every
   readback refuses (`acceptance.py:54`); the documented resumption never completes.
3. `PublishOrphan`: the branch of a publication is created before its pull request
   (`candidate.py:168-170`) under a name fixed by candidate, base and contents.  A
   failure in between, or a closed pull request, makes each rerun fail on creating
   the branch as long as the base stays, until somebody deletes it by hand.

Seen while modelling, without a run of their own:

- Two pull requests with one head share its status but not the lock, so one run's
  pending status may arrive between the other publisher's check
  (`gate_status.py:112`) and its post (`:120`) and be overwritten.  `LockInvariant`
  and `VerdictsReplaceOwnPending` therefore assume disjoint heads; what holds without
  that is `VerdictsSpareOwnPull`.
- A base that fast-forwards to a commit the head already contains leaves the head up
  to date, and the success for the older base counts (`gate_status.py:103`).
- The files of a pull request are listed live (`merge_gate.py:127`); a head pushed
  away and back between the first read and the recheck gives a plan on another
  commit's listing.  `SuccessEarned` says so explicitly: plan and proof are about
  the head, the listing actually used and the base.
- The scheduler does not list runs again between planning and dispatching
  (`resume.py:92`) and can cancel a run an event started in between; paging over
  the open pull requests while they shift (`resume.py:35`, `merge_gate.py:70-79`)
  can dispatch one twice.  `docs/simplified-intake.md:64` says dispatches are
  deduplicated by pull request, head, base and branch, and they are as long as a
  branch's open pull requests stay below a page of 100: that is the hypothesis of
  `OncePerIdentity`.  Without it TLC finds, with one pull request per page, two pull
  requests and an advancing branch, that a pull request dispatched from the first
  page is pushed onto the second by a newer one, met again, not found among the runs
  listed at the start, and dispatched a second time, which cancels the first run.
  The instances of the passing runs have no second page.
- Two commands that list releases before either drafts create two drafts of one tag;
  the newer one hides the published one from later reruns (`acceptance.py:181`).
- `publish --pr` checks file names, then merge reads the pull request anew without an
  expected head (`candidate.py:270-276`): what is pushed in between and passes
  checks and review is merged without that check.
- Preparation admits `max_files` sources (`intake.py:253`), execution counts the
  bridge with them (`merge_gate.py:229`): a candidate with exactly that many is
  reported ready and refused when it is executed.  `ReadyExecutes` excludes this case
  in its premise and holds in every other.  The backend counts the shared trusted
  files as well (`lean_backend.py:99`).
- Removing a container may fail, which is not looked at (`lean_backend.py:79`); when the
  execution itself ended well, `Alone` holds because its container was already gone.

## 5. What is proved

`StatusGateProofs` proves, for every finite or infinite choice of pull requests,
branches, revisions, runs, plan answers, moves and outages satisfying
`GateAssumption`:

- `GateInvariant`: `Spec => []GateInv`, with
  `GateInv == TypeOK /\ RunsOK /\ SuccessEarned`.
- `TypeCorrect`, `RunsConsistent`, `SuccessIsEarned`: its parts that the runs check.
- `LockInvariant`, `VerdictsReplaceOwnPending`: under `DisjointHeads` (no commit
  belongs to two pull requests, which excludes the first case in section 4 seen
  while modelling), resolve and publish jobs of a pull request exclude each other, a run about to post a verdict
  still finds its own pending status, and hence a verdict only ever replaces it.
- `SharedLockInvariant`, `VerdictsSpareOwnPull`: the same without `DisjointHeads`.  Jobs
  of one pull request still exclude each other; what a verdict replaces is its own
  run's pending status or a status of another pull request, never one of another run
  of its own.  So overwriting across pull requests, that first case, is the only kind
  there is.
- `StaleNever`: a run whose pull request or target has moved for good when its
  publish job starts never posts.  It is a temporal formula, but a safety one: a
  moved pull request keeps the run before the branch check, a moved target before
  the status check (`NextChecked`).

The argument.  SuccessEarned is not inductive: that a publisher posts a success
says nothing unless what it was given is right.  `RunsOK` adds, for each run, that
results fit together (`ResultsOK`), that the resolver's outputs are complete and
name a protected target and a revision it has had (`OutputsOK`), and that a passed
plan or proof is about exactly these outputs (`BasisOK`).  The delicate steps are
hand-over between jobs (`AfterPlanOK`, `AfterVerifyOK`) and `RerunOK`: re-running
failed jobs keeps some results and resets others, and what is kept must still
belong to the outputs that are kept.  Each action has a lemma that states what it
does to one run; `RunStepOK`, `RepositoryStepOK` and `NextOK` combine them, and
`PostEarned` carries a status from a run's basis.  For the lock, every entry into a
holding phase goes through `Joined`, which keeps at most one holder per pull
request (`JoinedRespects`, `StepRespects`), and with disjoint heads nobody else
writes the status between check and post.

`VerificationProofs` proves about the proof job, for all limits, files, trusted and
approved paths, imports and selections satisfying `ResourcesAssumption` and
`IntakeAssumption`:

- `BackendJudges`: `Spec => Judges`, the refinement: every step of the backend is a
  step of `Verdict` or a stutter.  `ContainersRemoved`: `Alone`.
- `VerifiedEarned` (`PassEarned`) and `OutcomesWritten` (`ResultWritten`).
- `ImportsOwn` (`OwnImports`) and `ReadyAccepted` (`ReadyExecutes`).

The argument rests on three invariants, one per part of the job.  `BInv` (backend): all
stages before `at` are accepted and none after (`Answers`); which phases have a client
and when its exit code exists (`Clients`); and, what makes the refinement work,
`Reading`: a stream the selector has dropped was closed and read to its end, so a
controller without an exception on its way has everything and the exit of its client.
Dropping a deadline or a limit breaks exactly this conjunct.  `Concluded` (outcome):
what is reported agrees with the backend's result, which stays.  `Planned` (sources):
the worklist is complete (`Reached`: what a selected file imports is selected or still
to be followed), a ready candidate's destinations are separate and approved, and the
plan that execution gets is about the same tree; the execution's own renaming
(`Moved`) then agrees with the preparation's (`Destination`).  `JobStep` says that a step
of the job is a step of the backend or leaves it alone, so that the invariants are
proved apart.

`VerificationType` (`TypeOK`) holds by a fourth invariant, `Types`: what is read of a
stream stops one read after its limit, and every wait ends with its deadline (`Waits`),
so the counters stay within the ranges TypeOK names.

`AcceptanceProofs`, for any commands, approvals, files, revisions and finitely many
releases (`AcceptanceAssumption`; there must be a newest one among those listed):

- `AcceptanceInvariant` (`IInv`), `AcceptanceType` (`TypeOK`).
- `OnlyWholePublished` (`PublishedIntact`), `IndexRests` (`IndexBacked`).
- `AcceptanceDecides` (`Decides`): every step is a step of `Decision` or a stutter.

That what is published is complete rests on what a command has established before it
publishes, while others draft, upload and change settings: `CommandOK` lists it step
by step.  From `recheck` on its release is complete, and stays so, since assets are
only ever added to (`Upload`) and never half replaced.  Up to the publication pull
request it holds that if the tip has not moved, what the command read of the index is
the index (`tip = c.base => c.prior = index`); hence a pull request still on the tip
found the index empty (`ChangeOK`), and of two rival decisions only one can be merged.

`PublicationProofs`, for any candidates, operators, pull requests and revisions
(`PublicationAssumption`):

- `PublicationInvariant` (`IInv`), `PublicationType` (`TypeOK`).
- `TableAlwaysAgrees` (`TableAgrees`), `NothingIsLost` (`NothingLost`).
- `OnlyGeneratedMerged` (`MergesGenerated`).

The invariant is about what has not been merged: every open head, applied to the
revision it was made on, gives a revision whose table and index agree and which keeps
all of that revision (`HeadOK`).  It is merged on that revision, or after an update
that git accepts, which it does only where nobody else changed the same file
(`Mergeable`); `HeadOK` therefore also says that a head carries an index or a table only if
it changes it.  Without that an update could take back a later row.

`ResumeProofs`, for any finite set of pull requests, any branches, revisions, runs,
page size and moves (`ResumeAssumption`):

- `ResumeType` (`TypeOK`), without further hypotheses.
- `ResumeInvariant` and `OncePerIdentity` (`DispatchedOnce`) under `[]OnePage`: every
  branch always has fewer open pull requests than a page holds.  The code has no other
  protection (section 4), so the hypothesis is necessary.

An invocation lists the runs once and dispatches from that list long after.  `KnownOK`
says that a run dispatched at its revision for a pull request still in its queue was
there when it listed, for no other invocation dispatches on this branch and it leaves an entry
with its dispatch; `OldOK` that the one failed run it may repeat is the only one, and,
after the look at its jobs, cannot execute a proof in its first attempt any more;
`FreshOK` that a branch that moved between the last look and the dispatch has had no
dispatch yet, since no branch returns to a revision.

`CatalogProofs`, for any candidates, runs, attempts and revisions
(`CatalogAssumption`, `NoneAssumption`):

- `CatalogInvariant` (`IInv`), `CatalogType` (`TypeOK`).
- `SiteTrueAtOnce` (`TrueAtOnce`), `PageNeverBack` (`PageForward`).

The code reads everything twice and compares, which proves nothing by itself: a value
that changes and changes back looks unmoved.  The proof is that nothing a build reads
returns.  Jobs of an attempt only go on (`Since`), so does its status
(`StatusSince`), attempts count up, and a run started later stays later; `Gone` and
`Moved` say that what was read is no longer so, and both last.  `NoticeOK`, the centre
of the invariant, says that a build which was not true at its first reading has a
difference still ahead of it: a job among those left to compare, or a run in the
listing to come.  When none is left, the build was true.  `AheadOK` carries `PageForward`: what a build
lists is never behind the page, because the page itself was in the past of the runs
when the build began (`InPast`) and builds exclude each other.

The assumptions on `None` in these modules say that the absent value is none of the
records it stands in for.

Only model-checked: liveness (NewestRunAnswers, EveryIdentityAttempted,
RerunCompletes, PublishedResumes, PageCatchesUp, Terminates), which is out of the
prover's reach under fairness, and the three counterexamples.

## 6. Simplifications a reader should know

- Expiry of evidence artifacts is not modelled (it makes `CheckEvidence` fail; so
  does an approval without evidence).
- Acceptance takes releases as listed newest first.
- The scheduler's dispatch and the appearance of the run are one step; its plan is
  one step, between reads that are steps of their own.
- Two approvals of one candidate may both be published before either is indexed;
  `Decision` allows that and only one can be recorded.
- Submit's bridge file belongs to its candidate file; drafts of pull requests are
  "not passed".
- In Publication, a candidate in `Sealed` is always published with its approval or
  release tag; how the release comes about is Acceptance.  `ReadPull` takes pull
  request and branch in one step, since the branch is compared again before the
  merge and GitHub then merges only the named head while mergeable.

- Catalog: `PassJob` is the comparison with the default branch and the sealing that
  follows it; a row's link is the run and attempt.  Not modelled: re-running only the
  deployment job, switching the default branch, jobs GitHub skips, more than one
  page of runs, `publication_history`, HTML and JSON output.
- Backend: `Select` reads every ready stream once, in one step.  A container whose
  creation is under way when its client is killed is never created.  Exit codes are
  three classes (zero, a rejection, the runtime's).  What the programs in the image
  answer is free; a malformed answer the code does not expect (a missing key) is an
  exception like any other and not told apart.
- Intake: the order of the worklist is free, so the properties hold for every order.
  Byte limits, attribution texts, metadata and what a bridge contains are behind
  `Refuse`, which may refuse anything; protected mappings of submitted paths and
  environments without a bound standard library are not modelled.
- Verification: failures of API calls while materials are read are one outcome of
  `Materials`.  `Written` always adds one bridge, also where a registered submission's
  overlay has none or several.  In `VerifyJob` the bridge's path is none of the files'
  (`Files`), so a submitted file under it is covered by the proofs only.

Not modelled: the other sequential parts (registry validation, environments, evidence
archives, matrix selection, step summaries), command line parsing, tests, documents
and data.  `PROJECT.json` gives the reason for each.

## 7. Plan

Done: `StatusGate`, `Resume`, `Acceptance` with `Decision`, `Publication`, `Catalog`,
`Backend` with `Verdict`, `Intake` and `Verification`, each with theorems for every
safety property its passing runs check.  Left, in order of weight:

1. A form of `OncePerIdentity` for several pages: per identity, the number of
   dispatches bounded by the number of pages on which an invocation met it.
2. The pure decisions (change of the registry in `merge_gate.py`, environment matrix)
   as operators against a reference definition.
