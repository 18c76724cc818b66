--------------------------- MODULE CatalogProofs ---------------------------
(***************************************************************************)
(* Proofs about Catalog, for any number of candidates, runs, attempts and   *)
(* pushes.  A build reads the runs and their jobs one call at a time, while  *)
(* all of them go on.  What makes the page true is that nothing it reads     *)
(* ever returns to what it was: two equal readings mean that nothing moved   *)
(* between them.                                                             *)
(***************************************************************************)
EXTENDS Catalog, TLAPS, WellFoundedInduction

-----------------------------------------------------------------------------
(***************************************************************************)
(* Nothing returns.                                                         *)
(***************************************************************************)

\* Jobs a, some time later.
Since(a, b) ==
  /\ \A c \in Candidates : \/ b.verify[c] = a.verify[c]
                           \/ a.verify[c] = "absent"
                           \/ a.verify[c] = "running" /\ b.verify[c] # "absent"
  /\ a.summary => b.summary

\* A status of an attempt, some time later.
StatusSince(a, b) ==
  (a = "completed" => b = "completed") /\ (b = "queued" => a = "queued")

\* Something has happened since the listing that it would show: a run where there
\* was none, an attempt, a status, or a run started later.
Gone(s, c) ==
  LET id == s.seen[c] IN
  IF id = None THEN \E q \in Runs : Covers(q, s.rev, c)
  ELSE \/ run[id.run].attempt # id.attempt \/ Status(id.run) # id.status
       \/ \E q \in Runs : Covers(q, s.rev, c) /\ run[q].started > run[id.run].started

\* The jobs of the run the candidate's row comes from, as they are now.
JobsOf(s, c) == run[s.seen[c].run].jobs[s.seen[c].attempt]
Moved(s, c) == s.cache[s.seen[c].run] # JobsOf(s, c)

-----------------------------------------------------------------------------
(***************************************************************************)
(* The inductive invariant.                                                 *)
(***************************************************************************)

\* An attempt that has no plan yet has no jobs.
Fit(x) ==
  /\ x.phase = "plan" => ~x.planned
  /\ x.phase \in {"waiting", "plan"} /\ ~x.planned => x.jobs[x.attempt] = NoJobs

\* No two runs started at once; builds are called by runs that exist, or by the schedule.
RunsOK ==
  /\ \A r \in Runs : Exists(r) => Fit(run[r])
  /\ \A q, r \in Runs : Exists(q) /\ Exists(r) /\ run[q].started = run[r].started => q = r
CallerOf(x) == x = None \/ x.by = None \/ (x.by \in Runs /\ Exists(x.by))

\* What a build has listed is in the past of the runs.
ListedOK(s) ==
  /\ \A c \in Listed(s.seen) :
       LET id == s.seen[c] IN
       /\ Covers(id.run, s.rev, c)
       /\ id.attempt <= run[id.run].attempt
       /\ id.attempt = run[id.run].attempt => StatusSince(id.status, Status(id.run))
  /\ \A c, d \in Listed(s.seen) : s.seen[c].run = s.seen[d].run => s.seen[c] = s.seen[d]
  /\ s.left \subseteq Listed(s.seen)

\* So are the jobs it has read.
CacheOK(s) ==
  \A c \in Listed(s.seen) :
    \/ s.step = "jobs" /\ c \in s.left
    \/ s.cache[s.seen[c].run] # None /\ Since(s.cache[s.seen[c].run], JobsOf(s, c))

\* A build that was not true after the first reading will notice.
Behind(s) == tip # s.rev \/ \E c \in Candidates : Gone(s, c)
NoticeOK(s) ==
  /\ s.step = "recheck" => apt \/ Behind(s) \/ \E c \in s.left : Moved(s, c)
  /\ s.step = "again" => apt \/ Behind(s)
  /\ s.step = "deploy" => apt

\* What is on the page is in the past of the runs, and of what the build has listed.
InPast(p) ==
  /\ p.rev <= tip
  /\ \A c \in Candidates : LET e == p.rows[c].evidence IN
       e # None => Covers(e.run, p.rev, c) /\ e.attempt <= run[e.run].attempt
PageOK == \A p \in Page : p = page => InPast(p)
AheadOK(s) ==
  page # None =>
    /\ page.rev <= s.rev
    /\ page.rev = s.rev =>
         \A c \in Candidates : LET e == page.rows[c].evidence IN
           e # None => /\ s.seen[c] # None
                       /\ s.seen[c].run = e.run => e.attempt <= s.seen[c].attempt

SlotOK(s) ==
  s.step # "runs" => s.rev <= tip /\ ListedOK(s) /\ CacheOK(s) /\ NoticeOK(s) /\ AheadOK(s)

BuildOK == \A s \in Building : s = slot => SlotOK(s)

IInv == TypeOK /\ RunsOK /\ CallerOf(slot) /\ CallerOf(waiting) /\ PageOK /\ BuildOK

-----------------------------------------------------------------------------
(***************************************************************************)
(* Least and greatest numbers.                                              *)
(***************************************************************************)

LEMMA Least ==
  ASSUME NEW S \in SUBSET Nat, S # {}
  PROVE  \E m \in S : \A n \in S : m <= n
<1> DEFINE R == {ss \in Nat \X Nat : ss[1] < ss[2]}
<1>1. IsWellFoundedOn(R, Nat)
  BY NatLessThanWellFounded DEF OpToRel
<1> HIDE DEF R
<1>2. PICK m \in S : \A n \in S : ~(<<n, m>> \in R)
  BY <1>1, WFMin
<1>3. ASSUME NEW n \in S PROVE m <= n
  <2>1. <<n, m>> \notin R /\ <<n, m>> \in Nat \X Nat
    BY <1>2
  <2>2. ~(n < m)
    BY <2>1 DEF R
  <2> QED BY <2>2
<1> QED BY <1>3

LEMMA MinFound ==
  ASSUME NEW S \in SUBSET Nat, S # {}
  PROVE  Min(S) \in S
BY Least DEF Min

LEMMA Greatest ==
  ASSUME NEW n \in Nat, NEW S \in SUBSET (0..n), S # {}
  PROVE  \E z \in S : \A x \in S : z >= x
<1> DEFINE T == {n - x : x \in S}
<1>1. T \in SUBSET Nat
  OBVIOUS
<1>2. T # {}
  OBVIOUS
<1>3. PICK m \in T : \A t \in T : m <= t
  <2> HIDE DEF T
  <2> QED BY <1>1, <1>2, Least
<1>4. PICK y \in S : m = n - y
  OBVIOUS
<1>5. ASSUME NEW x \in S PROVE y >= x
  <2>1. n - x \in T
    OBVIOUS
  <2>2. n - y <= n - x
    BY <1>3, <1>4, <2>1
  <2> HIDE DEF T
  <2> QED BY <2>2
<1> QED BY <1>5

\* The clock is the start of the run started last.
LEMMA ClockLast ==
  ASSUME TypeOK
  PROVE  Clock \in 0..MaxStarts /\ \A q \in Runs : Exists(q) => run[q].started <= Clock
<1> DEFINE S == {0} \cup {run[q].started : q \in {q \in Runs : Exists(q)}}
<1>1. MaxStarts \in Nat /\ \A q \in Runs : Exists(q) => run[q].started \in 1..MaxStarts
  BY CatalogAssumption DEF TypeOK, Exists, Run
<1>2. S \in SUBSET (0..MaxStarts) /\ S # {}
  BY <1>1
<1>3. \A q \in Runs : Exists(q) => run[q].started \in S
  OBVIOUS
<1>4. Clock = Max(S)
  BY DEF Clock
<1> HIDE DEF S
<1>5. Max(S) \in S /\ \A x \in S : Max(S) >= x
  BY <1>1, <1>2, Greatest DEF Max
<1>6. \A q \in Runs : Exists(q) => run[q].started <= Clock
  BY <1>1, <1>2, <1>3, <1>4, <1>5
<1> QED BY <1>2, <1>4, <1>5, <1>6

-----------------------------------------------------------------------------
(***************************************************************************)
(* Revalidation runs: within an attempt jobs and status only go forward, an *)
(* older attempt is left alone, and what is started is started last.        *)
(***************************************************************************)

Same(x, y) ==
  /\ y.rev = x.rev /\ y.scope = x.scope /\ y.attempt = x.attempt /\ y.started = x.started
  /\ x.phase = "over" => y.phase = "over"
  /\ y.phase = "waiting" => x.phase = "waiting"
  /\ Since(x.jobs[x.attempt], y.jobs[x.attempt])
  /\ \A a \in 1..MaxAttempts : a # x.attempt => y.jobs[a] = x.jobs[a]

Anew(x, y) ==
  /\ y.rev = x.rev /\ y.scope = x.scope /\ y.attempt = x.attempt + 1
  /\ \A a \in 1..x.attempt : y.jobs[a] = x.jobs[a]

StartsLast(y) == \A q \in Runs : Exists(q) => y.started > run[q].started

RunsGo ==
  /\ run' \in [Runs -> Run \cup {None}] /\ RunsOK'
  /\ \A r \in Runs : Exists(r) =>
       /\ run'[r] # None
       /\ Same(run[r], run'[r]) \/ (Anew(run[r], run'[r]) /\ StartsLast(run'[r]))

LEMMA Constants ==
  /\ MaxRevision \in Nat \ {0} /\ MaxAttempts \in Nat \ {0} /\ MaxStarts \in Nat \ {0}
  /\ Candidates \subseteq Nat /\ Runs \subseteq Nat
  /\ None \notin Runs /\ None \notin Candidates /\ All \notin Candidates
BY CatalogAssumption

LEMMA RunParts ==
  ASSUME NEW x \in Run
  PROVE  /\ x # None
         /\ x.rev \in Revisions /\ x.scope \in Candidates \cup {All}
         /\ x.attempt \in 1..MaxAttempts /\ x.attempt \in Nat /\ x.started \in Nat
         /\ x.started \in 1..MaxStarts
         /\ x.cancel \in BOOLEAN /\ x.planned \in BOOLEAN
         /\ x.phase \in {"waiting", "plan", "verify", "call", "called", "over"}
         /\ x.jobs \in [1..MaxAttempts -> Jobs] /\ x.jobs[x.attempt] \in Jobs
<1>1. x # None
  BY NoneAssumption
<1>2. /\ x.rev \in Revisions /\ x.scope \in Candidates \cup {All}
      /\ x.attempt \in 1..MaxAttempts /\ x.started \in 1..MaxStarts
      /\ x.cancel \in BOOLEAN /\ x.planned \in BOOLEAN
      /\ x.phase \in {"waiting", "plan", "verify", "call", "called", "over"}
      /\ x.jobs \in [1..MaxAttempts -> Jobs]
  BY DEF Run
<1> QED BY <1>1, <1>2, Constants

LEMMA SinceSelf == \A j : Since(j, j)
BY DEF Since

LEMMA SameSelf == \A x \in Run : Same(x, x)
BY SinceSelf DEF Same

\* Reading later still: the past of the past.
LEMMA SinceOn ==
  ASSUME NEW i \in Jobs, NEW j \in Jobs, NEW k \in Jobs, Since(i, j), Since(j, k)
  PROVE  Since(i, k)
BY DEF Since, Jobs, JobState

\* What has moved does not come back.
LEMMA SinceBack ==
  ASSUME NEW i \in Jobs, NEW j \in Jobs, Since(i, j), Since(j, i)
  PROVE  i = j
<1>1. ASSUME NEW c \in Candidates PROVE i.verify[c] = j.verify[c]
  BY DEF Since, Jobs, JobState
<1>2. i.verify = j.verify
  BY <1>1 DEF Jobs
<1>3. i.summary = j.summary
  BY DEF Since, Jobs
<1> QED BY <1>2, <1>3 DEF Jobs

LEMMA NoJobsFirst == NoJobs \in Jobs /\ \A j \in Jobs : Since(NoJobs, j)
<1>1. NoJobs \in Jobs
  BY DEF NoJobs, Jobs, JobState
<1>2. ~NoJobs.summary /\ \A c \in Candidates : NoJobs.verify[c] = "absent"
  BY DEF NoJobs
<1> QED BY <1>1, <1>2 DEF Since

\* A run that has just been started, by whom and at whatever revision.
LEMMA NewFit ==
  ASSUME NEW rev \in Revisions, NEW scope \in Candidates \cup {All}, NEW t \in 1..MaxStarts
  PROVE  /\ New(rev, scope, t) \in Run /\ Fit(New(rev, scope, t))
         /\ New(rev, scope, t).started = t
<1>1. NoJobs \in Jobs /\ 1 \in 1..MaxAttempts
  BY NoJobsFirst, Constants
<1>2. New(rev, scope, t) \in Run
  BY <1>1 DEF New, Run
<1>3. /\ New(rev, scope, t).jobs = [a \in 1..MaxAttempts |-> NoJobs]
      /\ New(rev, scope, t).attempt = 1 /\ New(rev, scope, t).planned = FALSE
      /\ New(rev, scope, t).started = t /\ New(rev, scope, t).phase = "waiting"
  BY DEF New
<1> QED BY <1>1, <1>2, <1>3 DEF Fit

\* The fields of a run after an assignment to some of them.
LEMMA EndedFit ==
  ASSUME NEW x \in Run
  PROVE  Ended(x) \in Run /\ Same(x, Ended(x)) /\ Fit(Ended(x))
<1>1. Ended(x) \in Run
  BY DEF Ended, Run
<1>2. /\ Ended(x).rev = x.rev /\ Ended(x).scope = x.scope /\ Ended(x).attempt = x.attempt
      /\ Ended(x).started = x.started /\ Ended(x).phase = "over" /\ Ended(x).jobs = x.jobs
  BY DEF Ended, Run
<1> QED BY <1>1, <1>2, SinceSelf DEF Same, Fit

\* Jobs of the current attempt are replaced.
LEMMA JobsReplaced ==
  ASSUME NEW x \in Run, NEW j \in Jobs
  PROVE  LET y == [x EXCEPT !.jobs[x.attempt] = j] IN
         /\ y \in Run
         /\ y.rev = x.rev /\ y.scope = x.scope /\ y.attempt = x.attempt
         /\ y.started = x.started /\ y.phase = x.phase /\ y.planned = x.planned
         /\ y.cancel = x.cancel /\ y.jobs[x.attempt] = j
         /\ \A a \in 1..MaxAttempts : a # x.attempt => y.jobs[a] = x.jobs[a]
<1> DEFINE y == [x EXCEPT !.jobs[x.attempt] = j]
<1>1. x.attempt \in 1..MaxAttempts /\ x.jobs \in [1..MaxAttempts -> Jobs]
  BY RunParts
<1>2. y = [x EXCEPT !.jobs = [x.jobs EXCEPT ![x.attempt] = j]]
  BY DEF Run
<1>3. y.jobs = [x.jobs EXCEPT ![x.attempt] = j]
  BY <1>2 DEF Run
<1>4. [x.jobs EXCEPT ![x.attempt] = j] \in [1..MaxAttempts -> Jobs]
  BY <1>1
<1>5. y \in Run
  BY <1>2, <1>4 DEF Run
<1>6. /\ y.rev = x.rev /\ y.scope = x.scope /\ y.attempt = x.attempt
      /\ y.started = x.started /\ y.phase = x.phase /\ y.planned = x.planned
      /\ y.cancel = x.cancel
  BY <1>2 DEF Run
<1> QED BY <1>1, <1>3, <1>5, <1>6

\* A cancelled verification stops the jobs that go on.
Stopped(j) == [j EXCEPT !.verify = [c \in Candidates |->
                 IF j.verify[c] = "running" THEN "cancelled" ELSE j.verify[c]]]

LEMMA StoppedOK ==
  ASSUME NEW j \in Jobs
  PROVE  Stopped(j) \in Jobs /\ Since(j, Stopped(j)) /\ (j = NoJobs => Stopped(j) = j)
<1>1. Stopped(j) \in Jobs
  BY DEF Stopped, Jobs, JobState
<1>2. /\ Stopped(j).summary = j.summary
      /\ \A c \in Candidates : Stopped(j).verify[c] =
           IF j.verify[c] = "running" THEN "cancelled" ELSE j.verify[c]
  BY DEF Stopped, Jobs
<1>3. Since(j, Stopped(j))
  BY <1>2 DEF Since
<1>4. ASSUME j = NoJobs PROVE Stopped(j) = j
  <2>1. \A c \in Candidates : Stopped(j).verify[c] = j.verify[c]
    BY <1>2, <1>4 DEF NoJobs
  <2>2. Stopped(j).verify = j.verify
    BY <1>1, <2>1 DEF Jobs
  <2> QED BY <1>1, <1>2, <2>2 DEF Jobs
<1> QED BY <1>1, <1>3, <1>4

LEMMA InterruptedFit ==
  ASSUME NEW x \in Run, Fit(x)
  PROVE  Interrupted(x) \in Run /\ Same(x, Interrupted(x)) /\ Fit(Interrupted(x))
<1> DEFINE j == x.jobs[x.attempt]  y == [x EXCEPT !.jobs[x.attempt] = Stopped(j)]
<1>1. j \in Jobs /\ x.attempt \in 1..MaxAttempts
  BY RunParts
<1>2. Interrupted(x) = y
  BY <1>1 DEF Interrupted, Stopped, Run, Jobs
<1>3. Stopped(j) \in Jobs /\ Since(j, Stopped(j)) /\ (j = NoJobs => Stopped(j) = j)
  BY <1>1, StoppedOK
<1>4. /\ y \in Run
      /\ y.rev = x.rev /\ y.scope = x.scope /\ y.attempt = x.attempt
      /\ y.started = x.started /\ y.phase = x.phase /\ y.planned = x.planned
      /\ y.jobs[x.attempt] = Stopped(j)
      /\ \A a \in 1..MaxAttempts : a # x.attempt => y.jobs[a] = x.jobs[a]
  BY <1>1, <1>3, JobsReplaced
<1> HIDE DEF y
<1>5. Same(x, y) /\ Fit(y)
  BY <1>3, <1>4 DEF Same, Fit
<1> QED BY <1>2, <1>4, <1>5

LEMMA SameOn ==
  ASSUME NEW x \in Run, NEW y \in Run, NEW z \in Run, Same(x, y), Same(y, z)
  PROVE  Same(x, z)
<1>1. Since(x.jobs[x.attempt], z.jobs[x.attempt])
  BY RunParts, SinceOn DEF Same
<1> QED BY <1>1 DEF Same

LEMMA SupersededFit ==
  ASSUME NEW x \in Run, Fit(x)
  PROVE  Superseded(x) \in Run /\ Same(x, Superseded(x)) /\ Fit(Superseded(x))
<1>1. CASE x.phase = "waiting"
  <2>1. Superseded(x) = Ended(Interrupted(x))
    BY <1>1 DEF Superseded
  <2> QED BY <2>1, InterruptedFit, EndedFit, SameOn
<1>2. CASE x.phase # "waiting"
  <2> DEFINE y == [x EXCEPT !.cancel = TRUE]
  <2>1. Superseded(x) = y
    BY <1>2 DEF Superseded
  <2>2. y \in Run
    BY DEF Run
  <2>3. /\ y.rev = x.rev /\ y.scope = x.scope /\ y.attempt = x.attempt
        /\ y.started = x.started /\ y.phase = x.phase /\ y.planned = x.planned
        /\ y.jobs = x.jobs
    BY DEF Run
  <2> HIDE DEF y
  <2>4. Same(x, y) /\ Fit(y)
    BY <2>3, SinceSelf DEF Same, Fit
  <2> QED BY <2>1, <2>2, <2>4
<1> QED BY <1>1, <1>2

LEMMA RunHere ==
  ASSUME TypeOK, NEW r \in Runs, Exists(r)
  PROVE  run[r] \in Run /\ run[r] # None
BY DEF TypeOK, Exists

\* Runs keep going when each goes on in its attempt.
LEMMA AllSame ==
  ASSUME TypeOK, RunsOK, run' \in [Runs -> Run \cup {None}],
         \A r \in Runs : IF Exists(r) THEN /\ run'[r] \in Run /\ Same(run[r], run'[r])
                                           /\ Fit(run'[r])
                                      ELSE run'[r] = None
  PROVE  RunsGo
<1>1. \A r \in Runs : (run'[r] # None) = Exists(r)
  BY RunParts DEF Exists
<1>2. \A r \in Runs : Exists(r) => run'[r] # None /\ Same(run[r], run'[r])
  BY <1>1
<1>3. \A r \in Runs : run'[r] # None => Fit(run'[r])
  BY <1>1
<1>4. ASSUME NEW q \in Runs, NEW r \in Runs, run'[q] # None, run'[r] # None,
             run'[q].started = run'[r].started
      PROVE  q = r
  <2>1. Exists(q) /\ Exists(r)
    BY <1>1, <1>4
  <2>2. run[q].started = run[r].started
    BY <1>2, <1>4, <2>1 DEF Same
  <2> QED BY <2>1, <2>2 DEF RunsOK
<1>5. RunsOK'
  BY <1>3, <1>4 DEF RunsOK, Exists
<1> QED BY <1>2, <1>5 DEF RunsGo

LEMMA SameRuns ==
  ASSUME TypeOK, RunsOK, run' = run
  PROVE  RunsGo
<1>1. \A r \in Runs : IF Exists(r) THEN run'[r] \in Run /\ Same(run[r], run'[r]) /\ Fit(run'[r])
                                   ELSE run'[r] = None
  BY RunHere, SameSelf DEF RunsOK, Exists
<1> QED BY <1>1, AllSame DEF TypeOK

LEMMA OneChanges ==
  ASSUME TypeOK, RunsOK, NEW r \in Runs, Exists(r), NEW y \in Run, Same(run[r], y), Fit(y),
         run' = [run EXCEPT ![r] = y]
  PROVE  RunsGo
<1>1. run' \in [Runs -> Run \cup {None}]
  BY DEF TypeOK
<1>2. ASSUME NEW q \in Runs
      PROVE  IF Exists(q) THEN run'[q] \in Run /\ Same(run[q], run'[q]) /\ Fit(run'[q])
                          ELSE run'[q] = None
  <2>1. CASE q = r
    <3>1. run'[q] = y
      BY <2>1 DEF TypeOK
    <3> QED BY <2>1, <3>1
  <2>2. CASE q # r
    <3>1. run'[q] = run[q]
      BY <2>2 DEF TypeOK
    <3> QED BY <3>1, RunHere, SameSelf DEF RunsOK, Exists
  <2> QED BY <2>1, <2>2
<1> QED BY <1>1, <1>2, AllSame

\* A start: r begins or begins again, runs of its selection are superseded.
LEMMA EnterGo ==
  ASSUME TypeOK, RunsOK, NEW r \in Runs, NEW new \in Run, Fit(new), new.started = Clock + 1,
         Exists(r) => Anew(run[r], new), Enter(r, new)
  PROVE  RunsGo
<1>1. run' = [q \in Runs |-> IF q = r THEN new
                             ELSE IF Exists(q) /\ run[q].scope = new.scope /\ run[q].phase # "over"
                                  THEN Superseded(run[q]) ELSE run[q]]
  BY DEF Enter
<1>2. run'[r] = new /\ new # None
  BY <1>1, RunParts
<1>3. ASSUME NEW q \in Runs \ {r}
      PROVE  IF Exists(q) THEN run'[q] \in Run /\ Same(run[q], run'[q]) /\ Fit(run'[q])
                          ELSE run'[q] = None
  <2>1. CASE Exists(q) /\ run[q].scope = new.scope /\ run[q].phase # "over"
    <3>1. run'[q] = Superseded(run[q])
      BY <1>1, <2>1
    <3> QED BY <2>1, <3>1, RunHere, SupersededFit DEF RunsOK
  <2>2. CASE ~(Exists(q) /\ run[q].scope = new.scope /\ run[q].phase # "over")
    <3>1. run'[q] = run[q]
      BY <1>1, <2>2
    <3> QED BY <3>1, RunHere, SameSelf DEF RunsOK, Exists
  <2> QED BY <2>1, <2>2
<1>4. run' \in [Runs -> Run \cup {None}]
  <2>1. \A q \in Runs : run'[q] \in Run \cup {None}
    BY <1>2, <1>3
  <2>2. run' = [q \in Runs |-> run'[q]]
    BY <1>1
  <2> QED BY <2>1, <2>2
<1>5. ASSUME NEW q \in Runs \ {r} PROVE run'[q] # None <=> Exists(q)
  <2>1. CASE Exists(q)
    BY <1>3, <2>1, RunParts
  <2>2. CASE ~Exists(q)
    BY <1>3, <2>2
  <2> QED BY <2>1, <2>2
<1>6. StartsLast(new)
  BY ClockLast, RunHere, RunParts DEF StartsLast
<1>7. \A q \in Runs : run'[q] # None => Fit(run'[q])
  BY <1>2, <1>3, <1>5
<1>8. ASSUME NEW p \in Runs, NEW q \in Runs, run'[p] # None, run'[q] # None,
             run'[p].started = run'[q].started
      PROVE  p = q
  <2>1. \A t \in Runs \ {r} : run'[t] # None => Exists(t) /\ run'[t].started = run[t].started
    BY <1>3, <1>5 DEF Same
  <2>2. \A t \in Runs \ {r} : run'[t] # None => run'[t].started # new.started
    BY <1>6, <2>1, RunHere, RunParts DEF StartsLast
  <2>3. CASE p # r /\ q # r
    BY <1>8, <2>1, <2>3 DEF RunsOK
  <2>4. CASE p = r \/ q = r
    BY <1>2, <1>8, <2>2, <2>4
  <2> QED BY <2>3, <2>4
<1>9. RunsOK'
  BY <1>7, <1>8 DEF RunsOK, Exists
<1> QED BY <1>2, <1>3, <1>4, <1>5, <1>6, <1>9 DEF RunsGo

LEMMA OverGo ==
  ASSUME TypeOK, RunsOK, NEW x, CallerOf(x), run' = Over(x)
  PROVE  RunsGo
<1>1. CASE x = None \/ x.by = None
  BY <1>1, SameRuns DEF Over
<1>2. CASE ~(x = None \/ x.by = None)
  <2>1. run' = [run EXCEPT ![x.by] = Ended(run[x.by])] /\ x.by \in Runs /\ Exists(x.by)
    BY <1>2 DEF Over, CallerOf
  <2> QED BY <2>1, RunHere, EndedFit, OneChanges
<1> QED BY <1>1, <1>2

-----------------------------------------------------------------------------
(***************************************************************************)
(* The steps of runs and of people.                                         *)
(***************************************************************************)

LEMMA PushGo ==
  ASSUME TypeOK, RunsOK, NEW r \in Runs, Push(r)
  PROVE  RunsGo /\ tip' = tip + 1 /\ tip' \in Revisions /\ UNCHANGED <<slot, page, waiting>>
<1>1. tip + 1 \in Revisions
  BY Constants DEF Push, TypeOK, Revisions
<1>2. Clock + 1 \in 1..MaxStarts
  BY ClockLast, Constants DEF Push, Enter
<1>3. RunsGo
  BY <1>1, <1>2, NewFit, EnterGo DEF Push, Created
<1> QED BY <1>1, <1>3 DEF Push, Build

LEMMA DispatchGo ==
  ASSUME TypeOK, RunsOK, NEW r \in Runs, NEW scope \in Selected \cup {All}, Dispatch(r, scope)
  PROVE  RunsGo /\ UNCHANGED <<tip, slot, page, waiting>>
<1>1. tip \in Revisions /\ scope \in Candidates \cup {All}
  BY CatalogAssumption DEF TypeOK
<1>2. Clock + 1 \in 1..MaxStarts
  BY ClockLast, Constants DEF Dispatch, Enter
<1>3. RunsGo
  BY <1>1, <1>2, NewFit, EnterGo DEF Dispatch, Created
<1> QED BY <1>3 DEF Dispatch, Build

LEMMA AgainGo ==
  ASSUME TypeOK, RunsOK, NEW r \in Runs, NEW j \in Jobs, NEW planned \in BOOLEAN,
         planned = FALSE => j = NoJobs, Again(r, j, planned)
  PROVE  RunsGo /\ UNCHANGED <<tip, slot, page, waiting>>
<1> DEFINE x == run[r]
           new == [x EXCEPT !.attempt = x.attempt + 1, !.started = Clock + 1,
                            !.planned = planned, !.phase = "waiting", !.jobs[x.attempt + 1] = j]
<1>1. Exists(r) /\ x.phase = "over" /\ x.attempt < MaxAttempts /\ Enter(r, new)
  BY DEF Again
<1>2. x \in Run
  BY <1>1, RunHere
<1>3. Clock + 1 \in 1..MaxStarts
  BY <1>1, ClockLast, Constants DEF Enter
<1>4. x.attempt \in 1..MaxAttempts /\ x.attempt + 1 \in 1..MaxAttempts
      /\ x.jobs \in [1..MaxAttempts -> Jobs]
  BY <1>1, <1>2, RunParts, Constants
<1> DEFINE jobs == [x.jobs EXCEPT ![x.attempt + 1] = j]
<1>5. jobs \in [1..MaxAttempts -> Jobs]
  BY <1>4
<1>6. new = [x EXCEPT !.attempt = x.attempt + 1, !.started = Clock + 1,
                      !.planned = planned, !.phase = "waiting", !.jobs = jobs]
  BY <1>2 DEF Run
<1>7. jobs[x.attempt + 1] = j /\ \A a \in 1..x.attempt : jobs[a] = x.jobs[a]
  <2>1. x.attempt \in Nat /\ MaxAttempts \in Nat
    BY <1>2, RunParts, Constants
  <2>2. \A a \in 1..x.attempt : a \in 1..MaxAttempts /\ a # x.attempt + 1
    BY <1>4, <2>1
  <2> QED BY <1>4, <2>2
<1> HIDE DEF jobs
<1>8. new \in Run
  BY <1>2, <1>3, <1>4, <1>5, <1>6 DEF Run
<1>9. /\ new.rev = x.rev /\ new.scope = x.scope /\ new.attempt = x.attempt + 1
      /\ new.started = Clock + 1 /\ new.planned = planned /\ new.phase = "waiting"
      /\ new.jobs = jobs
  BY <1>2, <1>6 DEF Run
<1> HIDE DEF new, x
<1>10. Fit(new) /\ Anew(x, new)
  BY <1>7, <1>9 DEF Fit, Anew
<1>11. RunsGo
  BY <1>1, <1>8, <1>9, <1>10, EnterGo DEF x
<1> QED BY <1>11 DEF Again, Build

LEMMA RerunGo ==
  ASSUME TypeOK, RunsOK, NEW r \in Runs, RerunAll(r) \/ RerunFailed(r)
  PROVE  RunsGo /\ UNCHANGED <<tip, slot, page, waiting>>
<1>1. CASE RerunAll(r)
  BY <1>1, NoJobsFirst, AgainGo DEF RerunAll
<1>2. CASE RerunFailed(r)
  <2> DEFINE j == [verify |-> [c \in Candidates |->
                     IF Current(r).verify[c] \in {"absent", "success"} THEN Current(r).verify[c]
                     ELSE "running"], summary |-> FALSE]
  <2>1. j \in Jobs
    BY DEF Jobs, JobState
  <2>2. Again(r, j, TRUE)
    BY <1>2 DEF RerunFailed
  <2> HIDE DEF j
  <2> QED BY <2>1, <2>2, AgainGo
<1> QED BY <1>1, <1>2

LEMMA BeginGo ==
  ASSUME TypeOK, RunsOK, NEW r \in Runs, Begin(r)
  PROVE  RunsGo /\ UNCHANGED <<tip, slot, page, waiting>>
<1> DEFINE x == run[r]  y == [x EXCEPT !.phase = IF x.planned THEN "verify" ELSE "plan"]
<1>1. x \in Run /\ Exists(r) /\ x.phase = "waiting" /\ Fit(x)
  BY RunHere DEF Begin, RunsOK
<1>2. run' = [run EXCEPT ![r] = y] /\ UNCHANGED <<tip, slot, page, waiting>>
  BY DEF Begin, Build
<1>3. x.planned \in BOOLEAN
  BY <1>1, RunParts
<1>4. /\ y \in Run /\ y.rev = x.rev /\ y.scope = x.scope /\ y.attempt = x.attempt
      /\ y.started = x.started /\ y.jobs = x.jobs /\ y.planned = x.planned
      /\ y.phase = IF x.planned THEN "verify" ELSE "plan"
  BY <1>1, <1>3 DEF Run
<1> HIDE DEF y
<1>5. Same(x, y) /\ Fit(y)
  BY <1>1, <1>3, <1>4, SinceSelf DEF Same, Fit
<1> HIDE DEF x
<1> QED BY <1>1, <1>2, <1>4, <1>5, OneChanges DEF x

\* The summary concludes the attempt, whatever there was of it.
LEMMA ConcludedGo ==
  ASSUME TypeOK, RunsOK, NEW r \in Runs, Exists(r), run[r].phase \in {"plan", "verify"},
         run' = Concluded(r)
  PROVE  RunsGo
<1> DEFINE x == run[r]  j == x.jobs[x.attempt]
           done == [j EXCEPT !.summary = TRUE]
           y == [x EXCEPT !.jobs[x.attempt] = done]
<1>1. x \in Run /\ x.attempt \in 1..MaxAttempts /\ j \in Jobs
  BY RunHere, RunParts
<1>2. done \in Jobs /\ Since(j, done)
  <2>1. done \in Jobs /\ done.verify = j.verify /\ done.summary = TRUE
    BY <1>1 DEF Jobs
  <2> QED BY <2>1 DEF Since
<1>3. [x EXCEPT !.jobs[x.attempt].summary = TRUE] = y
  BY <1>1 DEF Run, Jobs
<1>4. /\ y \in Run
      /\ y.rev = x.rev /\ y.scope = x.scope /\ y.attempt = x.attempt
      /\ y.started = x.started /\ y.phase = x.phase /\ y.planned = x.planned
      /\ y.jobs[x.attempt] = done
      /\ \A a \in 1..MaxAttempts : a # x.attempt => y.jobs[a] = x.jobs[a]
  BY <1>1, <1>2, JobsReplaced
<1> DEFINE z == IF y.planned THEN [y EXCEPT !.phase = "call"] ELSE Ended(y)
<1>5. run' = [run EXCEPT ![r] = z]
  BY <1>3 DEF Concluded
<1> HIDE DEF y
<1>6. Same(x, y)
  BY <1>2, <1>4 DEF Same
<1>7. z \in Run /\ Same(x, z) /\ Fit(z)
  <2>1. CASE y.planned
    <3> DEFINE u == [y EXCEPT !.phase = "call"]
    <3>1. /\ u \in Run /\ u.rev = y.rev /\ u.scope = y.scope /\ u.attempt = y.attempt
          /\ u.started = y.started /\ u.jobs = y.jobs /\ u.phase = "call"
      BY <1>4 DEF Run
    <3>2. x.phase # "over"
      OBVIOUS
    <3> HIDE DEF u
    <3>3. Same(x, u) /\ Fit(u)
      BY <1>6, <3>1, <3>2 DEF Same, Fit
    <3> QED BY <2>1, <3>1, <3>3 DEF u
  <2>2. CASE ~y.planned
    BY <1>1, <1>4, <1>6, <2>2, EndedFit, SameOn
  <2> QED BY <2>1, <2>2
<1> HIDE DEF z, x
<1> QED BY <1>1, <1>5, <1>7, OneChanges DEF x

LEMMA PlanGo ==
  ASSUME TypeOK, RunsOK, NEW r \in Runs, Plan(r)
  PROVE  RunsGo /\ UNCHANGED <<tip, slot, page, waiting>>
<1> DEFINE x == run[r]
           work == Supported \cap (IF x.scope = All THEN Candidates ELSE {x.scope})
           table == [c \in Candidates |-> IF c \in work THEN "running" ELSE "absent"]
           plan == [run EXCEPT ![r].phase = "verify", ![r].planned = TRUE,
                      ![r].jobs[x.attempt].verify = table]
<1>1. x \in Run /\ Exists(r) /\ x.phase = "plan" /\ Fit(x) /\ UNCHANGED <<tip, slot, page, waiting>>
  BY RunHere DEF Plan, RunsOK, Build
<1>2. run' = plan \/ run' = Concluded(r)
  BY DEF Plan
<1>3. ASSUME run' = plan PROVE RunsGo
  <2> DEFINE j == [x.jobs[x.attempt] EXCEPT !.verify = table]
             y == [x EXCEPT !.jobs[x.attempt] = j]
             z == [y EXCEPT !.phase = "verify", !.planned = TRUE]
  <2>1. x.planned = FALSE /\ x.jobs[x.attempt] = NoJobs /\ x.attempt \in 1..MaxAttempts
    BY <1>1, RunParts DEF Fit
  <2>2. table \in [Candidates -> JobState]
    BY DEF JobState
  <2>3. j \in Jobs
    <3> HIDE DEF table
    <3> QED BY <2>1, <2>2, NoJobsFirst DEF Jobs
  <2>4. Since(x.jobs[x.attempt], j)
    <3> HIDE DEF j
    <3> QED BY <2>1, <2>3, NoJobsFirst
  <2>5. plan = [run EXCEPT ![r] = z]
    <3> HIDE DEF table
    <3> QED BY <1>1, <2>1 DEF TypeOK, Run, Jobs
  <2>6. /\ y \in Run
        /\ y.rev = x.rev /\ y.scope = x.scope /\ y.attempt = x.attempt
        /\ y.started = x.started /\ y.phase = x.phase
        /\ y.jobs[x.attempt] = j
        /\ \A a \in 1..MaxAttempts : a # x.attempt => y.jobs[a] = x.jobs[a]
    <3> HIDE DEF j
    <3> QED BY <1>1, <2>3, JobsReplaced
  <2> HIDE DEF y
  <2>7. /\ z \in Run /\ z.rev = y.rev /\ z.scope = y.scope /\ z.attempt = y.attempt
        /\ z.started = y.started /\ z.jobs = y.jobs /\ z.phase = "verify"
    BY <2>6 DEF Run
  <2> HIDE DEF z, j
  <2>8. Same(x, z) /\ Fit(z)
    BY <1>1, <2>4, <2>6, <2>7 DEF Same, Fit
  <2> HIDE DEF x, plan
  <2> QED BY <1>1, <1>3, <2>5, <2>7, <2>8, OneChanges DEF x
<1>4. ASSUME run' = Concluded(r) PROVE RunsGo
  BY <1>1, <1>4, ConcludedGo
<1> QED BY <1>1, <1>2, <1>3, <1>4

LEMMA JobGo ==
  ASSUME TypeOK, RunsOK, NEW r \in Runs, NEW c \in Candidates, FailJob(r, c) \/ PassJob(r, c)
  PROVE  RunsGo /\ UNCHANGED <<tip, slot, page, waiting>>
<1>1. PICK to \in {"failure", "success"} : Job(r, c, to)
  BY DEF FailJob, PassJob
<1> DEFINE x == run[r]
           i == x.jobs[x.attempt]
           j == [i EXCEPT !.verify = [i.verify EXCEPT ![c] = to]]
           y == [x EXCEPT !.jobs[x.attempt] = j]
<1>2. x \in Run /\ Exists(r) /\ x.phase = "verify" /\ i.verify[c] = "running"
      /\ UNCHANGED <<tip, slot, page, waiting>>
  BY <1>1, RunHere DEF Job, Build, Current
<1>3. run' = [run EXCEPT ![r].jobs[x.attempt].verify[c] = to]
  BY <1>1 DEF Job
<1>4. i \in Jobs /\ x.attempt \in 1..MaxAttempts
  BY <1>2, RunParts
<1>5. j \in Jobs
  BY <1>4 DEF Jobs, JobState
<1>6. Since(i, j)
  BY <1>2, <1>4 DEF Since, Jobs
<1>7. run' = [run EXCEPT ![r] = y]
  BY <1>2, <1>3, <1>4 DEF TypeOK, Run, Jobs
<1>8. /\ y \in Run
      /\ y.rev = x.rev /\ y.scope = x.scope /\ y.attempt = x.attempt
      /\ y.started = x.started /\ y.phase = x.phase
      /\ y.jobs[x.attempt] = j
      /\ \A a \in 1..MaxAttempts : a # x.attempt => y.jobs[a] = x.jobs[a]
  <2> HIDE DEF j
  <2> QED BY <1>2, <1>5, JobsReplaced
<1> HIDE DEF y, j
<1>9. Same(x, y) /\ Fit(y)
  BY <1>2, <1>6, <1>8 DEF Same, Fit
<1> HIDE DEF x
<1> QED BY <1>2, <1>7, <1>8, <1>9, OneChanges DEF x

LEMMA CancelGo ==
  ASSUME TypeOK, RunsOK, NEW r \in Runs, Cancel(r)
  PROVE  RunsGo /\ UNCHANGED <<tip, slot, page, waiting>>
<1>1. CASE run[r].phase = "plan" /\ run' = Concluded(r)
  BY <1>1, ConcludedGo DEF Cancel, Build
<1>2. CASE run' = [run EXCEPT ![r] = Interrupted(run[r])]
  BY <1>2, RunHere, InterruptedFit, OneChanges DEF Cancel, Build, RunsOK
<1> QED BY <1>1, <1>2 DEF Cancel

LEMMA SummaryGo ==
  ASSUME TypeOK, RunsOK, NEW r \in Runs, Summary(r)
  PROVE  RunsGo /\ UNCHANGED <<tip, slot, page, waiting>>
BY ConcludedGo DEF Summary, Build

LEMMA CallGo ==
  ASSUME TypeOK, RunsOK, CallerOf(waiting), NEW r \in Runs, Call(r)
  PROVE  /\ RunsGo /\ UNCHANGED <<tip, slot, page>>
         /\ waiting' \in Request /\ waiting'.by = r /\ Exists(r)
<1> DEFINE x == run[r]
<1>1. x \in Run /\ Exists(r) /\ x.phase = "call"
  BY RunHere DEF Call
<1>2. run' = [Over(waiting) EXCEPT ![r].phase = "called"]
  BY DEF Call
<1>3. waiting' \in Request /\ waiting'.by = r /\ UNCHANGED <<tip, slot, page>>
  BY <1>1, RunParts DEF Call, Build, Request
<1>4. waiting = None \/ waiting.by = None \/ (waiting.by \in Runs /\ Exists(waiting.by))
  BY DEF CallerOf
<1> DEFINE over == Over(waiting)
<1>5. /\ over \in [Runs -> Run \cup {None}]
      /\ \A q \in Runs : IF Exists(q) THEN over[q] = run[q] \/ over[q] = Ended(run[q])
                                     ELSE over[q] = None
  <2>1. CASE waiting = None \/ waiting.by = None
    <3>1. over = run
      BY <2>1 DEF Over
    <3> QED BY <3>1 DEF TypeOK, Exists
  <2>2. CASE ~(waiting = None \/ waiting.by = None)
    <3>1. over = [run EXCEPT ![waiting.by] = Ended(run[waiting.by])]
      BY <2>2 DEF Over
    <3>2. waiting.by \in Runs /\ Exists(waiting.by) /\ Ended(run[waiting.by]) \in Run
      BY <1>4, <2>2, RunHere, EndedFit
    <3> HIDE DEF over
    <3> QED BY <3>1, <3>2 DEF TypeOK, Exists
  <2> QED BY <2>1, <2>2
<1> HIDE DEF over
<1> DEFINE y == [over[r] EXCEPT !.phase = "called"]
<1>6. run' = [over EXCEPT ![r] = y]
  BY <1>2 DEF over
<1>7. y \in Run /\ Same(x, y) /\ Fit(y)
  <2>1. over[r] \in Run /\ Same(x, over[r])
    BY <1>1, <1>5, SameSelf, EndedFit
  <2> DEFINE o == over[r]
  <2>2. /\ y \in Run /\ y.rev = o.rev /\ y.scope = o.scope /\ y.attempt = o.attempt
        /\ y.started = o.started /\ y.jobs = o.jobs /\ y.phase = "called"
    BY <2>1 DEF Run
  <2> HIDE DEF y, o
  <2> QED BY <1>1, <2>1, <2>2 DEF Same, Fit, o
<1> HIDE DEF y
<1>8. run' \in [Runs -> Run \cup {None}]
  BY <1>5, <1>6, <1>7
<1>9. ASSUME NEW q \in Runs
      PROVE  IF Exists(q) THEN run'[q] \in Run /\ Same(run[q], run'[q]) /\ Fit(run'[q])
                          ELSE run'[q] = None
  <2>1. CASE q = r
    BY <1>1, <1>5, <1>6, <1>7, <2>1
  <2>2. CASE q # r
    <3>1. run'[q] = over[q]
      BY <1>5, <1>6, <2>2
    <3> QED BY <1>5, <3>1, RunHere, SameSelf, EndedFit DEF RunsOK, Exists
  <2> QED BY <2>1, <2>2
<1> HIDE DEF x
<1>10. RunsGo
  BY <1>8, <1>9, AllSame
<1> QED BY <1>1, <1>3, <1>10

-----------------------------------------------------------------------------
(***************************************************************************)
(* What a build has read, as the runs go on.                                *)
(***************************************************************************)

LEMMA BuildParts ==
  ASSUME NEW s \in Building
  PROVE  /\ s # None /\ s.rev \in Revisions /\ s.rev \in Nat
         /\ s.by \in Runs \cup {None} /\ s.step \in Steps
         /\ s.seen \in [Candidates -> Identity \cup {None}]
         /\ s.cache \in [Runs -> Jobs \cup {None}] /\ s.left \in SUBSET Candidates
         /\ \A c \in Listed(s.seen) :
              /\ c \in Candidates /\ s.seen[c] \in Identity /\ s.seen[c] # None
              /\ s.seen[c].run \in Runs /\ s.seen[c].attempt \in 1..MaxAttempts
              /\ s.seen[c].attempt \in Nat
              /\ s.seen[c].status \in {"queued", "in_progress", "completed"}
<1>1. /\ s # None /\ s.rev \in Revisions
      /\ s.by \in Runs \cup {None} /\ s.step \in Steps
      /\ s.seen \in [Candidates -> Identity \cup {None}]
      /\ s.cache \in [Runs -> Jobs \cup {None}] /\ s.left \in SUBSET Candidates
  BY NoneAssumption DEF Building
<1>2. s.rev \in Nat
  BY <1>1, Constants DEF Revisions
<1>3. ASSUME NEW c \in Listed(s.seen)
      PROVE  /\ c \in Candidates /\ s.seen[c] \in Identity /\ s.seen[c] # None
             /\ s.seen[c].run \in Runs /\ s.seen[c].attempt \in 1..MaxAttempts
             /\ s.seen[c].attempt \in Nat
             /\ s.seen[c].status \in {"queued", "in_progress", "completed"}
  <2>1. c \in Candidates /\ s.seen[c] \in Identity /\ s.seen[c] # None
    BY <1>1 DEF Listed
  <2>2. /\ s.seen[c].run \in Runs /\ s.seen[c].attempt \in 1..MaxAttempts
        /\ s.seen[c].status \in {"queued", "in_progress", "completed"}
    BY <2>1 DEF Identity
  <2> QED BY <2>1, <2>2, Constants
<1> QED BY <1>1, <1>2, <1>3

\* What a step does to one run.
LEMMA RunGoes ==
  ASSUME TypeOK, RunsGo, NEW r \in Runs, Exists(r)
  PROVE  /\ Exists(r)' /\ run[r] \in Run /\ run'[r] \in Run
         /\ run'[r].rev = run[r].rev /\ run'[r].scope = run[r].scope
         /\ run[r].attempt \in Nat /\ run'[r].attempt \in Nat
         /\ run'[r].attempt >= run[r].attempt
         /\ run'[r].attempt = run[r].attempt => Same(run[r], run'[r])
         /\ run'[r].started >= run[r].started
<1>1. run[r] \in Run /\ run'[r] \in Run /\ Exists(r)'
  BY DEF TypeOK, RunsGo, Exists
<1>2. /\ run[r].attempt \in Nat /\ run'[r].attempt \in Nat
      /\ run[r].started \in Nat /\ run'[r].started \in Nat
  BY <1>1, RunParts
<1>3. CASE Same(run[r], run'[r])
  BY <1>1, <1>2, <1>3 DEF Same
<1>4. CASE Anew(run[r], run'[r]) /\ StartsLast(run'[r])
  BY <1>1, <1>2, <1>4 DEF Anew, StartsLast
<1> QED BY <1>3, <1>4 DEF RunsGo

LEMMA CoversOn ==
  ASSUME TypeOK, RunsGo, NEW r \in Runs, NEW rev, NEW c, Covers(r, rev, c)
  PROVE  Covers(r, rev, c)'
BY RunGoes DEF Covers

\* Jobs of an attempt that has begun.
LEMMA JobsOn ==
  ASSUME TypeOK, RunsGo, NEW r \in Runs, Exists(r), NEW a \in 1..MaxAttempts,
         a <= run[r].attempt
  PROVE  run[r].jobs[a] \in Jobs /\ run'[r].jobs[a] \in Jobs
         /\ Since(run[r].jobs[a], run'[r].jobs[a])
<1>1. run[r] \in Run /\ run'[r] \in Run
  BY RunGoes
<1>2. run[r].jobs[a] \in Jobs /\ run'[r].jobs[a] \in Jobs
  BY <1>1, RunParts
<1>3. CASE Same(run[r], run'[r])
  BY <1>2, <1>3, SinceSelf DEF Same
<1>4. CASE Anew(run[r], run'[r])
  <2>1. a \in 1..run[r].attempt
    BY <1>1, RunParts, Constants
  <2> QED BY <1>2, <1>4, <2>1, SinceSelf DEF Anew
<1> QED BY <1>2, <1>3, <1>4 DEF RunsGo

LEMMA StatusOn ==
  ASSUME TypeOK, RunsGo, NEW r \in Runs, Exists(r), run'[r].attempt = run[r].attempt
  PROVE  StatusSince(Status(r), Status(r)')
<1>1. Same(run[r], run'[r])
  BY RunGoes
<1> QED BY <1>1 DEF Same, StatusSince, Status

\* The past of the past, once more.
LEMMA ListedOn ==
  ASSUME TypeOK, RunsGo, NEW s \in Building, ListedOK(s)
  PROVE  ListedOK(s)'
<1>1. ASSUME NEW c \in Listed(s.seen)
      PROVE  /\ Covers(s.seen[c].run, s.rev, c)'
             /\ s.seen[c].attempt <= run'[s.seen[c].run].attempt
             /\ s.seen[c].attempt = run'[s.seen[c].run].attempt =>
                  StatusSince(s.seen[c].status, Status(s.seen[c].run)')
  <2> DEFINE id == s.seen[c]  r == id.run
  <2>1. /\ r \in Runs /\ id.attempt \in Nat /\ Covers(r, s.rev, c) /\ Exists(r)
        /\ id.attempt <= run[r].attempt
        /\ id.attempt = run[r].attempt => StatusSince(id.status, Status(r))
    BY BuildParts DEF ListedOK, Covers
  <2>2. /\ run[r].attempt \in Nat /\ run'[r].attempt \in Nat
        /\ run'[r].attempt >= run[r].attempt
    BY <2>1, RunGoes
  <2>3. Covers(r, s.rev, c)'
    BY <2>1, CoversOn
  <2>4. ASSUME id.attempt = run'[r].attempt PROVE StatusSince(id.status, Status(r)')
    <3>1. id.attempt = run[r].attempt /\ run'[r].attempt = run[r].attempt
      BY <2>1, <2>2, <2>4
    <3> HIDE DEF id, r
    <3>2. StatusSince(Status(r), Status(r)')
      BY <2>1, <3>1, StatusOn
    <3> QED BY <2>1, <3>1, <3>2 DEF StatusSince
  <2> QED BY <2>1, <2>2, <2>3, <2>4
<1> QED BY <1>1 DEF ListedOK

LEMMA CacheOn ==
  ASSUME TypeOK, RunsGo, NEW s \in Building, ListedOK(s), CacheOK(s)
  PROVE  CacheOK(s)'
<1>1. ASSUME NEW c \in Listed(s.seen), ~(s.step = "jobs" /\ c \in s.left)
      PROVE  s.cache[s.seen[c].run] # None /\ Since(s.cache[s.seen[c].run], JobsOf(s, c)')
  <2> DEFINE id == s.seen[c]  r == id.run  j == s.cache[r]
  <2>1. /\ r \in Runs /\ id.attempt \in 1..MaxAttempts /\ Exists(r)
        /\ id.attempt <= run[r].attempt
    BY BuildParts DEF ListedOK, Covers
  <2>2. j # None /\ j \in Jobs /\ Since(j, run[r].jobs[id.attempt])
    BY <1>1, <2>1, BuildParts DEF CacheOK, JobsOf
  <2>3. /\ run[r].jobs[id.attempt] \in Jobs /\ run'[r].jobs[id.attempt] \in Jobs
        /\ Since(run[r].jobs[id.attempt], run'[r].jobs[id.attempt])
    BY <2>1, JobsOn
  <2>4. Since(j, run'[r].jobs[id.attempt])
    BY <2>2, <2>3, SinceOn
  <2> QED BY <2>2, <2>4 DEF JobsOf
<1> QED BY <1>1 DEF CacheOK

\* Jobs that have moved have moved for good.
LEMMA MovedOn ==
  ASSUME TypeOK, RunsGo, NEW s \in Building, ListedOK(s), CacheOK(s),
         NEW c \in Listed(s.seen), ~(s.step = "jobs" /\ c \in s.left), Moved(s, c)
  PROVE  Moved(s, c)'
<1> DEFINE id == s.seen[c]  r == id.run  j == s.cache[r]
<1>1. /\ r \in Runs /\ id.attempt \in 1..MaxAttempts /\ Exists(r)
      /\ id.attempt <= run[r].attempt
  BY BuildParts DEF ListedOK, Covers
<1>2. /\ j \in Jobs /\ Since(j, run[r].jobs[id.attempt]) /\ j # run[r].jobs[id.attempt]
  BY <1>1, BuildParts DEF CacheOK, JobsOf, Moved
<1>3. /\ run[r].jobs[id.attempt] \in Jobs /\ run'[r].jobs[id.attempt] \in Jobs
      /\ Since(run[r].jobs[id.attempt], run'[r].jobs[id.attempt])
  BY <1>1, JobsOn
<1>4. j # run'[r].jobs[id.attempt]
  BY <1>2, <1>3, SinceBack
<1> QED BY <1>4 DEF Moved, JobsOf

\* So is what a listing would show.
LEMMA GoneOn ==
  ASSUME TypeOK, RunsGo, NEW s \in Building, ListedOK(s), NEW c \in Candidates, Gone(s, c)
  PROVE  Gone(s, c)'
<1> DEFINE id == s.seen[c]  r == id.run
<1>1. CASE id = None
  <2>1. PICK q \in Runs : Covers(q, s.rev, c)
    BY <1>1 DEF Gone
  <2>2. Covers(q, s.rev, c)'
    BY <2>1, CoversOn
  <2> QED BY <1>1, <2>2 DEF Gone
<1>2. CASE id # None
  <2>1. c \in Listed(s.seen)
    BY <1>2 DEF Listed
  <2>2. /\ r \in Runs /\ id.attempt \in Nat /\ Exists(r)
        /\ id.attempt <= run[r].attempt
        /\ id.attempt = run[r].attempt => StatusSince(id.status, Status(r))
        /\ id.status \in {"queued", "in_progress", "completed"}
    BY <2>1, BuildParts DEF ListedOK, Covers
  <2>3. /\ run[r].attempt \in Nat /\ run'[r].attempt \in Nat
        /\ run'[r].attempt >= run[r].attempt
        /\ run'[r].attempt = run[r].attempt => Same(run[r], run'[r])
    BY <2>2, RunGoes
  <2>4. CASE run'[r].attempt # id.attempt
    BY <1>2, <2>4 DEF Gone
  <2>5. CASE run'[r].attempt = id.attempt
    <3>1. run[r].attempt = id.attempt /\ run'[r].attempt = run[r].attempt
      BY <2>2, <2>3, <2>5
    <3>2. CASE Status(r) # id.status
      <4>1. StatusSince(id.status, Status(r)) /\ StatusSince(Status(r), Status(r)')
        BY <2>2, <3>1, StatusOn
      <4>2. Status(r)' \in {"queued", "in_progress", "completed"}
            /\ Status(r) \in {"queued", "in_progress", "completed"}
        BY DEF Status
      <4>3. Status(r)' # id.status
        BY <2>2, <3>2, <4>1, <4>2 DEF StatusSince
      <4> QED BY <1>2, <4>3 DEF Gone
    <3>3. CASE \E q \in Runs : Covers(q, s.rev, c) /\ run[q].started > run[r].started
      <4>1. PICK q \in Runs : Covers(q, s.rev, c) /\ run[q].started > run[r].started
        BY <3>3
      <4>2. Covers(q, s.rev, c)' /\ run'[q].started >= run[q].started
            /\ run[q] \in Run /\ run'[q] \in Run /\ run[r] \in Run
        BY <2>2, <4>1, CoversOn, RunGoes DEF Covers
      <4>3. run'[r].started = run[r].started
        BY <2>3, <3>1 DEF Same
      <4>4. run'[q].started > run'[r].started
        BY <4>1, <4>2, <4>3, RunParts
      <4> QED BY <1>2, <4>2, <4>4 DEF Gone
    <3> QED BY <1>2, <3>1, <3>2, <3>3 DEF Gone
  <2> QED BY <2>4, <2>5
<1> QED BY <1>1, <1>2

LEMMA BehindOn ==
  ASSUME TypeOK, RunsGo, tip' \in Revisions, tip' >= tip,
         NEW s \in Building, s.rev <= tip, ListedOK(s), Behind(s)
  PROVE  Behind(s)'
<1>1. s.rev \in Nat /\ tip \in Nat /\ tip' \in Nat
  BY BuildParts, Constants DEF TypeOK, Revisions
<1>2. CASE tip # s.rev
  <2>1. tip' # s.rev
    BY <1>1, <1>2
  <2> QED BY <2>1 DEF Behind
<1>3. CASE \E c \in Candidates : Gone(s, c)
  BY <1>3, GoneOn DEF Behind
<1> QED BY <1>2, <1>3 DEF Behind

LEMMA InPastOn ==
  ASSUME TypeOK, RunsGo, tip' \in Revisions, tip' >= tip, NEW p \in Page, InPast(p)
  PROVE  InPast(p)'
<1>1. p.rev <= tip'
  <2>1. p.rev \in Nat /\ tip \in Nat /\ tip' \in Nat
    BY Constants DEF TypeOK, Page, Revisions
  <2> QED BY <2>1 DEF InPast
<1>2. ASSUME NEW c \in Candidates, p.rows[c].evidence # None
      PROVE  /\ Covers(p.rows[c].evidence.run, p.rev, c)'
             /\ p.rows[c].evidence.attempt <= run'[p.rows[c].evidence.run].attempt
  <2> DEFINE e == p.rows[c].evidence
  <2>1. e \in Attempt
    BY <1>2 DEF Page
  <2>2. e.run \in Runs /\ e.attempt \in Nat
    BY <2>1, Constants DEF Attempt
  <2>3. Covers(e.run, p.rev, c) /\ e.attempt <= run[e.run].attempt /\ Exists(e.run)
    BY <1>2 DEF InPast, Covers
  <2> HIDE DEF e
  <2>4. Covers(e.run, p.rev, c)'
    BY <2>2, <2>3, CoversOn
  <2>5. e.attempt <= run'[e.run].attempt
    BY <2>2, <2>3, RunGoes
  <2> QED BY <2>4, <2>5 DEF e
<1> QED BY <1>1, <1>2 DEF InPast

-----------------------------------------------------------------------------
(***************************************************************************)
(* What a listing says.                                                     *)
(***************************************************************************)

Leads(r, rev, c) ==
  Covers(r, rev, c) /\ \A q \in Runs : Covers(q, rev, c) => run[q].started <= run[r].started

\* A revision that has a run for the candidate has one that was started last.
LEMMA LeaderFound ==
  ASSUME TypeOK, NEW rev, NEW c, NEW p \in Runs, Covers(p, rev, c)
  PROVE  \E r \in Runs : Leads(r, rev, c)
<1> DEFINE S == {run[q].started : q \in {q \in Runs : Covers(q, rev, c)}}
<1>1. \A q \in Runs : Covers(q, rev, c) => run[q].started \in 1..MaxStarts
  BY RunHere, RunParts DEF Covers
<1>2. S \in SUBSET (0..MaxStarts) /\ MaxStarts \in Nat
  BY <1>1, Constants
<1>3. S # {}
  OBVIOUS
<1>4. PICK z \in S : \A x \in S : z >= x
  <2> HIDE DEF S
  <2> QED BY <1>2, <1>3, Greatest
<1>5. PICK r \in Runs : Covers(r, rev, c) /\ z = run[r].started
  OBVIOUS
<1>6. ASSUME NEW q \in Runs, Covers(q, rev, c) PROVE run[q].started <= run[r].started
  <2>1. run[q].started \in S
    BY <1>6
  <2> QED BY <1>4, <1>5, <2>1
<1> QED BY <1>5, <1>6 DEF Leads

\* Only one run was.
LEMMA LeaderOne ==
  ASSUME TypeOK, RunsOK, NEW rev, NEW c, NEW q \in Runs, NEW r \in Runs,
         Leads(q, rev, c), Leads(r, rev, c)
  PROVE  q = r
<1>1. run[q].started \in Nat /\ run[r].started \in Nat /\ Exists(q) /\ Exists(r)
  BY RunHere, RunParts DEF Leads, Covers
<1>2. run[q].started = run[r].started
  BY <1>1 DEF Leads
<1> QED BY <1>1, <1>2 DEF RunsOK

LEMMA ListingSays ==
  ASSUME TypeOK, RunsOK, NEW rev, NEW c \in Candidates
  PROVE  \/ Listing(rev)[c] = None /\ \A q \in Runs : ~Covers(q, rev, c)
         \/ \E r \in Runs : /\ Leads(r, rev, c) /\ Listing(rev)[c] \in Identity
                            /\ Listing(rev)[c] = [run |-> r, attempt |-> run[r].attempt,
                                                  status |-> Status(r)]
<1>1. Newest(rev, c) = {r \in Runs : Leads(r, rev, c)}
  BY DEF Newest, Leads
<1>2. CASE \A q \in Runs : ~Covers(q, rev, c)
  <2>1. Newest(rev, c) = {}
    BY <1>1, <1>2 DEF Leads
  <2> QED BY <1>2, <2>1 DEF Listing
<1>3. CASE \E q \in Runs : Covers(q, rev, c)
  <2>1. Newest(rev, c) # {}
    BY <1>1, <1>3, LeaderFound
  <2> DEFINE r == CHOOSE r \in Newest(rev, c) : TRUE
  <2>2. r \in Newest(rev, c)
    BY <2>1
  <2>3. Listing(rev)[c] = [run |-> r, attempt |-> run[r].attempt, status |-> Status(r)]
    BY <2>1 DEF Listing
  <2>4. r \in Runs /\ Leads(r, rev, c)
    BY <1>1, <2>2
  <2> HIDE DEF r
  <2>5. run[r].attempt \in 1..MaxAttempts
    BY <2>4, RunHere, RunParts DEF Leads, Covers
  <2>6. Status(r) \in {"queued", "in_progress", "completed"}
    BY DEF Status
  <2>7. Listing(rev)[c] \in Identity
    BY <2>3, <2>4, <2>5, <2>6 DEF Identity
  <2> QED BY <2>3, <2>4, <2>7
<1> QED BY <1>2, <1>3

LEMMA ListingType ==
  ASSUME TypeOK, RunsOK, NEW rev
  PROVE  Listing(rev) \in [Candidates -> Identity \cup {None}]
<1>1. \A c \in Candidates : Listing(rev)[c] \in Identity \cup {None}
  BY ListingSays
<1>2. Listing(rev) = [c \in Candidates |-> Listing(rev)[c]]
  BY DEF Listing
<1> QED BY <1>1, <1>2

\* A listing is in its own past.
LEMMA ListedFirst ==
  ASSUME TypeOK, RunsOK, NEW s \in Building, s.seen = Listing(s.rev), s.left = Listed(s.seen)
  PROVE  ListedOK(s)
<1>1. ASSUME NEW c \in Listed(s.seen)
      PROVE  \E r \in Runs : Covers(r, s.rev, c) /\ s.seen[c] = [run |-> r,
               attempt |-> run[r].attempt, status |-> Status(r)] /\ run[r].attempt \in Nat
  <2>1. c \in Candidates /\ s.seen[c] # None
    BY DEF Listed
  <2>2. PICK r \in Runs : Leads(r, s.rev, c) /\ s.seen[c] = [run |-> r,
               attempt |-> run[r].attempt, status |-> Status(r)]
    BY <2>1, ListingSays
  <2>3. run[r].attempt \in Nat
    BY <2>2, RunHere, RunParts DEF Leads, Covers
  <2> QED BY <2>2, <2>3 DEF Leads
<1>2. ASSUME NEW c \in Listed(s.seen)
      PROVE  /\ Covers(s.seen[c].run, s.rev, c)
             /\ s.seen[c].attempt <= run[s.seen[c].run].attempt
             /\ StatusSince(s.seen[c].status, Status(s.seen[c].run))
  <2>1. PICK r \in Runs : Covers(r, s.rev, c) /\ s.seen[c] = [run |-> r,
               attempt |-> run[r].attempt, status |-> Status(r)] /\ run[r].attempt \in Nat
    BY <1>1
  <2>2. s.seen[c].run = r /\ s.seen[c].attempt = run[r].attempt /\ s.seen[c].status = Status(r)
    BY <2>1
  <2> QED BY <2>1, <2>2 DEF StatusSince
<1>3. ASSUME NEW c \in Listed(s.seen), NEW d \in Listed(s.seen),
             s.seen[c].run = s.seen[d].run
      PROVE  s.seen[c] = s.seen[d]
  <2>1. PICK q \in Runs : s.seen[c] = [run |-> q, attempt |-> run[q].attempt,
                                       status |-> Status(q)]
    BY <1>1
  <2>2. PICK r \in Runs : s.seen[d] = [run |-> r, attempt |-> run[r].attempt,
                                       status |-> Status(r)]
    BY <1>1
  <2>3. s.seen[c].run = q /\ s.seen[d].run = r
    BY <2>1, <2>2
  <2>4. q = r
    BY <1>3, <2>3
  <2> QED BY <2>1, <2>2, <2>4
<1> QED BY <1>2, <1>3 DEF ListedOK

\* If the same is listed again, nothing has gone.
LEMMA NoneGone ==
  ASSUME TypeOK, RunsOK, NEW s \in Building, Listing(s.rev) = s.seen, NEW c \in Candidates
  PROVE  ~Gone(s, c)
<1>1. CASE s.seen[c] = None /\ \A q \in Runs : ~Covers(q, s.rev, c)
  BY <1>1 DEF Gone
<1>2. ASSUME NEW r \in Runs, Leads(r, s.rev, c), s.seen[c] \in Identity,
             s.seen[c] = [run |-> r, attempt |-> run[r].attempt, status |-> Status(r)]
      PROVE  ~Gone(s, c)
  <2>1. s.seen[c].run = r /\ s.seen[c].attempt = run[r].attempt /\ s.seen[c].status = Status(r)
        /\ s.seen[c] # None
    BY <1>2, NoneAssumption
  <2>2. ASSUME NEW q \in Runs, Covers(q, s.rev, c) PROVE ~(run[q].started > run[r].started)
    <3>1. run[q].started \in Nat /\ run[r].started \in Nat
      BY <1>2, <2>2, RunHere, RunParts DEF Leads, Covers
    <3> QED BY <1>2, <2>2, <3>1 DEF Leads
  <2> QED BY <2>1, <2>2 DEF Gone
<1> QED BY <1>1, <1>2, ListingSays

-----------------------------------------------------------------------------
(***************************************************************************)
(* The site.                                                                *)
(***************************************************************************)

\* All jobs have been read.
AllRead(s) == \A c \in Listed(s.seen) : s.cache[s.seen[c].run] # None

LEMMA RowType ==
  ASSUME NEW status, NEW j \in Jobs, NEW c \in Candidates
  PROVE  Row(status, j, c) \in {"running", "not_run", "verified", "failed", "cancelled"}
<1>1. j.verify[c] \in JobState
  BY DEF Jobs
<1> QED BY <1>1 DEF Row, JobState

LEMMA SiteSays ==
  ASSUME slot \in Building, AllRead(slot)
  PROVE  /\ Site \in Page /\ Site.rev = slot.rev
         /\ \A c \in Candidates :
              LET e == Site.rows[c].evidence IN
              \/ slot.seen[c] = None /\ e = None
              \/ /\ slot.seen[c] # None /\ e # None
                 /\ e.run = slot.seen[c].run /\ e.attempt = slot.seen[c].attempt
<1> DEFINE Says(c) ==
             LET id == slot.seen[c] IN
             IF id = None THEN [status |-> "not_run", evidence |-> None]
             ELSE [status |-> Row(id.status, slot.cache[id.run], c),
                   evidence |-> [run |-> id.run, attempt |-> id.attempt]]
           Rows == [status : {"running", "not_run", "verified", "failed", "cancelled"},
                    evidence : Attempt \cup {None}]
<1>1. Site = [rev |-> slot.rev, rows |-> [c \in Candidates |-> Says(c)]]
  BY DEF Site
<1>2. ASSUME NEW c \in Candidates
      PROVE  /\ Says(c) \in Rows
             /\ \/ slot.seen[c] = None /\ Says(c).evidence = None
                \/ /\ slot.seen[c] # None /\ Says(c).evidence # None
                   /\ Says(c).evidence.run = slot.seen[c].run
                   /\ Says(c).evidence.attempt = slot.seen[c].attempt
  <2>1. CASE slot.seen[c] = None
    BY <2>1
  <2>2. CASE slot.seen[c] # None
    <3> DEFINE id == slot.seen[c]  e == [run |-> id.run, attempt |-> id.attempt]
    <3>1. c \in Listed(slot.seen)
      BY <2>2 DEF Listed
    <3>2. id.run \in Runs /\ id.attempt \in 1..MaxAttempts
      BY <3>1, BuildParts
    <3>3. slot.cache[id.run] \in Jobs
      BY <3>1, <3>2, BuildParts DEF AllRead
    <3>4. e \in Attempt /\ e # None /\ e.run = id.run /\ e.attempt = id.attempt
      BY <3>2, NoneAssumption DEF Attempt
    <3>5. Row(id.status, slot.cache[id.run], c)
            \in {"running", "not_run", "verified", "failed", "cancelled"}
      BY <3>3, RowType
    <3>6. Says(c) = [status |-> Row(id.status, slot.cache[id.run], c), evidence |-> e]
      BY <2>2
    <3> HIDE DEF id, e, Says
    <3> QED BY <2>2, <3>4, <3>5, <3>6 DEF id
  <2> QED BY <2>1, <2>2
<1> HIDE DEF Says
<1>3. slot.rev \in Revisions
  BY BuildParts
<1>4. Site \in Page /\ Site.rev = slot.rev /\ Site.rows = [c \in Candidates |-> Says(c)]
  BY <1>1, <1>2, <1>3 DEF Page
<1> QED BY <1>2, <1>4

\* A site nothing contradicts is the truth.
LEMMA SiteTrue ==
  ASSUME TypeOK, RunsOK, slot # None, slot \in Building, AllRead(slot), ListedOK(slot),
         ~Behind(slot), \A c \in Listed(slot.seen) : ~Moved(slot, c)
  PROVE  Site = Truth
<1>1. tip = slot.rev
  BY DEF Behind
<1>2. ASSUME NEW c \in Candidates
      PROVE  (LET id == slot.seen[c] IN
              IF id = None THEN [status |-> "not_run", evidence |-> None]
              ELSE [status |-> Row(id.status, slot.cache[id.run], c),
                    evidence |-> [run |-> id.run, attempt |-> id.attempt]])
             = (LET latest == Latest(c) IN
                IF latest = {} THEN [status |-> "not_run", evidence |-> None]
                ELSE LET r == CHOOSE r \in latest : TRUE IN
                     [status |-> Row(Status(r), Current(r), c), evidence |-> Evidence(r)])
  <2>1. ~Gone(slot, c)
    BY DEF Behind
  <2>2. Latest(c) = {r \in Runs : Leads(r, tip, c)}
    BY DEF Latest, Leads
  <2>3. CASE slot.seen[c] = None
    <3>1. Latest(c) = {}
      BY <1>1, <2>1, <2>2, <2>3 DEF Gone, Leads
    <3> QED BY <2>3, <3>1
  <2>4. CASE slot.seen[c] # None
    <3> DEFINE id == slot.seen[c]  r == id.run
    <3>1. c \in Listed(slot.seen)
      BY <2>4 DEF Listed
    <3>2. r \in Runs /\ Covers(r, tip, c) /\ Exists(r)
      BY <1>1, <3>1, BuildParts DEF ListedOK, Covers
    <3>3. run[r].attempt = id.attempt /\ Status(r) = id.status
      BY <2>1, <2>4 DEF Gone
    <3>4. ASSUME NEW q \in Runs, Covers(q, tip, c) PROVE run[q].started <= run[r].started
      <4>1. ~(run[q].started > run[r].started)
        BY <1>1, <2>1, <2>4, <3>4 DEF Gone
      <4>2. run[q].started \in Nat /\ run[r].started \in Nat
        BY <3>2, <3>4, RunHere, RunParts DEF Covers
      <4> QED BY <4>1, <4>2
    <3>5. Latest(c) # {} /\ \A q \in Latest(c) : q = r
      BY <2>2, <3>2, <3>4, LeaderOne DEF Leads
    <3>6. (CHOOSE q \in Latest(c) : TRUE) = r
      BY <3>5
    <3>7. slot.cache[r] = Current(r)
      BY <3>1, <3>3 DEF Moved, JobsOf, Current
    <3>8. Evidence(r) = [run |-> id.run, attempt |-> id.attempt]
      BY <3>3 DEF Evidence
    <3> QED BY <2>4, <3>3, <3>5, <3>6, <3>7, <3>8
  <2> QED BY <2>3, <2>4
<1> QED BY <1>1, <1>2 DEF Site, Truth

-----------------------------------------------------------------------------
(***************************************************************************)
(* The steps of a build.                                                    *)
(***************************************************************************)

\* What a build has read is read at a moment of the past, whatever goes on.
LEMMA SlotOn ==
  ASSUME TypeOK, RunsGo, tip' \in Revisions, tip' >= tip, page' = page,
         NEW s \in Building, SlotOK(s), apt' = apt
  PROVE  SlotOK(s)'
<1> SUFFICES ASSUME s.step # "runs"
             PROVE  (s.rev <= tip /\ ListedOK(s) /\ CacheOK(s) /\ NoticeOK(s) /\ AheadOK(s))'
  BY DEF SlotOK
<1>1. s.rev <= tip /\ ListedOK(s) /\ CacheOK(s) /\ NoticeOK(s) /\ AheadOK(s)
  BY DEF SlotOK
<1>2. (s.rev <= tip)'
  BY <1>1, BuildParts, Constants DEF TypeOK, Revisions
<1>3. ListedOK(s)' /\ CacheOK(s)'
  BY <1>1, ListedOn, CacheOn
<1>4. Behind(s) => Behind(s)'
  BY <1>1, BehindOn
<1>5. s.step = "recheck" /\ (\E c \in s.left : Moved(s, c)) => \E c \in s.left : Moved(s, c)'
  BY <1>1, MovedOn DEF ListedOK
<1>6. NoticeOK(s)'
  BY <1>1, <1>4, <1>5 DEF NoticeOK
<1>7. AheadOK(s)'
  BY <1>1 DEF AheadOK
<1> QED BY <1>2, <1>3, <1>6, <1>7

LEMMA AllReadThen ==
  ASSUME NEW s \in Building, CacheOK(s), s.step # "jobs"
  PROVE  AllRead(s)
BY DEF CacheOK, AllRead

LEMMA ReadOfSlot ==
  ASSUME NEW s \in Building, SlotOK(s), s.step \in {"recheck", "again", "deploy"}
  PROVE  AllRead(s)
BY AllReadThen DEF SlotOK

\* What is noted at every step.
Noted == Observe /\ failures' \in 0..MaxFailures

\* The parts of the invariant make up the invariant.
LEMMA Together ==
  ASSUME tip' \in Revisions, run' \in [Runs -> Run \cup {None}],
         slot' \in Building \cup {None}, waiting' \in Request \cup {None},
         page' \in Page \cup {None}, failures' \in 0..MaxFailures, apt' \in BOOLEAN,
         RunsOK', CallerOf(slot)', CallerOf(waiting)', PageOK', BuildOK'
  PROVE  IInv'
<1>1. ASSUME slot' # None, slot'.step \in {"recheck", "again", "deploy"}
      PROVE  \A c \in Listed(slot'.seen) : slot'.cache[slot'.seen[c].run] # None
  <2> PICK s \in Building : s = slot'
    BY <1>1
  <2>1. SlotOK(s)'
    BY DEF BuildOK
  <2>2. s.step \in {"recheck", "again", "deploy"}
    BY <1>1
  <2>3. CacheOK(s)'
    BY <2>1, <2>2 DEF SlotOK
  <2> QED BY <2>2, <2>3 DEF CacheOK
<1>2. TypeOK'
  BY <1>1 DEF TypeOK, Listed
<1> QED BY <1>2 DEF IInv

LEMMA Apart ==
  ASSUME IInv
  PROVE  /\ TypeOK /\ RunsOK /\ PageOK /\ BuildOK /\ CallerOf(slot) /\ CallerOf(waiting)
         /\ tip \in Revisions /\ tip \in Nat /\ run \in [Runs -> Run \cup {None}]
         /\ slot \in Building \cup {None} /\ waiting \in Request \cup {None}
         /\ page \in Page \cup {None} /\ failures \in 0..MaxFailures /\ apt \in BOOLEAN
BY Constants DEF IInv, TypeOK, Revisions

\* The page that is deployed stays true of the past.
LEMMA PageOn ==
  ASSUME TypeOK, RunsGo, tip' \in Revisions, tip' >= tip, PageOK, page' = page
  PROVE  PageOK'
BY InPastOn DEF PageOK

LEMMA CallersOn ==
  ASSUME TypeOK, RunsGo
  PROVE  /\ CallerOf(slot) /\ slot' = slot => CallerOf(slot)'
         /\ CallerOf(waiting) /\ waiting' = waiting => CallerOf(waiting)'
BY RunGoes DEF CallerOf, Exists

\* A step that leaves the build in progress alone.
LEMMA KeepSlot ==
  ASSUME IInv, failures' \in 0..MaxFailures, apt' \in BOOLEAN, slot # None => apt' = apt,
         RunsGo, tip' \in Revisions, tip' >= tip, slot' = slot, page' = page,
         waiting' \in Request \cup {None}, CallerOf(waiting)'
  PROVE  IInv'
<1>1. /\ TypeOK /\ PageOK /\ BuildOK /\ CallerOf(slot) /\ slot \in Building \cup {None}
      /\ page \in Page \cup {None} /\ apt \in BOOLEAN
  BY Apart
<1>2. PageOK' /\ CallerOf(slot)'
  BY <1>1, PageOn, CallersOn
<1>4. ASSUME NEW s \in Building, s = slot' PROVE SlotOK(s)'
  <2>1. SlotOK(s) /\ s # None
    BY <1>1, <1>4, BuildParts DEF BuildOK
  <2> QED BY <1>1, <1>4, <2>1, SlotOn
<1>5. BuildOK'
  BY <1>4 DEF BuildOK
<1> QED BY <1>1, <1>2, <1>5, Together DEF RunsGo

LEMMA AptKept ==
  ASSUME IInv, Noted, slot' = slot
  PROVE  failures' \in 0..MaxFailures /\ apt' \in BOOLEAN /\ (slot # None => apt' = apt)
BY Apart DEF Noted, Observe, At

\* A step that ends the build.
LEMMA NoSlot ==
  ASSUME IInv, Noted, RunsGo, tip' \in Revisions, tip' >= tip, slot' = None,
         page' \in Page \cup {None}, PageOK', waiting' = waiting
  PROVE  IInv'
<1>1. TypeOK /\ CallerOf(waiting) /\ waiting \in Request \cup {None}
  BY Apart
<1>2. CallerOf(slot)' /\ CallerOf(waiting)'
  BY <1>1, CallersOn DEF CallerOf
<1>3. failures' \in 0..MaxFailures /\ apt' \in BOOLEAN
  BY DEF Noted, Observe
<1>4. BuildOK'
  BY BuildParts DEF BuildOK
<1> QED BY <1>1, <1>2, <1>3, <1>4, Together DEF RunsGo

\* A step of the build, to the state t.
LEMMA NextSlot ==
  ASSUME IInv, Noted, run' = run, tip' = tip, page' = page,
         waiting' \in Request \cup {None}, CallerOf(waiting)',
         NEW t \in Building, slot' = t, CallerOf(t),
         t.step # "runs" => t.rev <= tip /\ ListedOK(t) /\ CacheOK(t) /\ AheadOK(t) /\ NoticeOK(t)'
  PROVE  IInv'
<1>1. /\ TypeOK /\ RunsOK /\ PageOK /\ tip \in Revisions /\ tip \in Nat
      /\ page \in Page \cup {None} /\ apt \in BOOLEAN
  BY Apart
<1>2. RunsGo /\ tip' >= tip /\ tip' \in Revisions
  BY <1>1, SameRuns
<1>3. PageOK' /\ CallerOf(slot)'
  BY <1>1, <1>2, PageOn DEF CallerOf, Exists
<1>4. failures' \in 0..MaxFailures /\ apt' \in BOOLEAN
  <2>1. (Site = Truth) \in BOOLEAN
    OBVIOUS
  <2> QED BY <1>1, <2>1 DEF Noted, Observe
<1>5. t.step # "runs" => (t.rev <= tip)' /\ ListedOK(t)' /\ CacheOK(t)' /\ AheadOK(t)'
  BY <1>1, <1>2, ListedOn, CacheOn DEF AheadOK
<1>6. SlotOK(t)'
  BY <1>5 DEF SlotOK
<1>7. BuildOK'
  BY <1>6 DEF BuildOK
<1> QED BY <1>1, <1>2, <1>3, <1>4, <1>7, Together DEF RunsGo

\* A build that stops, or one that fails or is cancelled.
LEMMA StopOK ==
  ASSUME IInv, Noted, Stop, ReadOnly
  PROVE  IInv'
<1>1. /\ TypeOK /\ RunsOK /\ CallerOf(slot) /\ PageOK /\ tip \in Revisions /\ tip \in Nat
      /\ page \in Page \cup {None}
  BY Apart
<1>2. run' = Over(slot) /\ slot' = None /\ tip' = tip /\ waiting' = waiting /\ page' = page
  BY DEF Stop, ReadOnly
<1>3. RunsGo
  BY <1>1, <1>2, OverGo
<1>4. PageOK' /\ tip' >= tip /\ tip' \in Revisions
  BY <1>1, <1>2, <1>3, PageOn
<1> QED BY <1>1, <1>2, <1>3, <1>4, NoSlot

LEMMA AcquireOK ==
  ASSUME IInv, Noted, Acquire
  PROVE  IInv'
<1>1. waiting \in Request /\ CallerOf(waiting)
  BY Apart DEF Acquire
<1> DEFINE t == [rev |-> waiting.rev, by |-> waiting.by, step |-> "runs",
                 seen |-> [c \in Candidates |-> None], cache |-> [r \in Runs |-> None], left |-> {}]
<1>2. slot' = t /\ waiting' = None /\ run' = run /\ tip' = tip /\ page' = page
  BY DEF Acquire
<1>3. waiting.rev \in Revisions /\ waiting.by \in Runs \cup {None}
  BY <1>1 DEF Request
<1>4. t \in Building
  BY <1>3 DEF Building, Steps
<1>5. CallerOf(t) /\ t.step = "runs"
  BY <1>1, <1>3, NoneAssumption DEF CallerOf
<1>6. CallerOf(waiting)'
  BY <1>2 DEF CallerOf
<1> HIDE DEF t
<1> QED BY <1>2, <1>4, <1>5, <1>6, NextSlot

\* What is listed is no older than the page.
LEMMA ListRunsOK ==
  ASSUME IInv, Noted, ListRuns
  PROVE  IInv'
<1>1. /\ TypeOK /\ RunsOK /\ PageOK /\ CallerOf(slot) /\ CallerOf(waiting)
      /\ tip \in Nat /\ waiting \in Request \cup {None} /\ page \in Page \cup {None}
      /\ slot \in Building
  BY Apart DEF ListRuns, At
<1>2. CASE Stop
  BY <1>2, StopOK DEF ListRuns
<1>3. CASE OnDefault /\ UNCHANGED run
  <2> DEFINE listing == Listing(slot.rev)
             u == [slot EXCEPT !.step = "jobs", !.seen = listing, !.left = Listed(listing)]
  <2>1. slot' = u
    BY <1>3 DEF ListRuns, Stop
  <2>2. UNCHANGED <<tip, run, waiting, page>> /\ slot.rev = tip
    BY <1>3 DEF ListRuns, ReadOnly, OnDefault
  <2>3. listing \in [Candidates -> Identity \cup {None}]
    BY <1>1, ListingType
  <2>4. Listed(listing) \in SUBSET Candidates
    BY DEF Listed
  <2>4a. /\ u \in Building /\ u.rev = slot.rev /\ u.by = slot.by /\ u.step = "jobs"
         /\ u.seen = listing /\ u.left = Listed(listing)
    <3> HIDE DEF listing
    <3> QED BY <1>1, <2>3, <2>4 DEF Building, Steps
  <2> HIDE DEF u
  <2>5. PICK t \in Building :
          /\ slot' = t /\ t.rev = slot.rev /\ t.by = slot.by /\ t.step = "jobs"
          /\ t.seen = listing /\ t.left = Listed(listing)
    BY <2>1, <2>4a
  <2>6. ListedOK(t)
    BY <1>1, <2>5, ListedFirst
  <2>7. CacheOK(t) /\ NoticeOK(t)'
    BY <2>5 DEF CacheOK, NoticeOK
  <2>8. CallerOf(t)
    BY <1>1, <2>5, BuildParts DEF CallerOf
  <2>9. AheadOK(t)
    <3> SUFFICES ASSUME page # None
                 PROVE  /\ page.rev <= t.rev
                        /\ page.rev = t.rev =>
                             \A c \in Candidates : LET e == page.rows[c].evidence IN
                               e # None => /\ t.seen[c] # None
                                           /\ t.seen[c].run = e.run => e.attempt <= t.seen[c].attempt
      BY DEF AheadOK
    <3>1. InPast(page)
      BY <1>1 DEF PageOK
    <3>2. page.rev <= t.rev
      BY <2>2, <2>5, <3>1 DEF InPast
    <3>3. ASSUME page.rev = t.rev, NEW c \in Candidates, page.rows[c].evidence # None
          PROVE  /\ t.seen[c] # None
                 /\ t.seen[c].run = page.rows[c].evidence.run =>
                      page.rows[c].evidence.attempt <= t.seen[c].attempt
      <4> DEFINE e == page.rows[c].evidence
      <4>1. e \in Attempt
        BY <1>1, <3>3 DEF Page
      <4>2. e.run \in Runs /\ Covers(e.run, t.rev, c) /\ e.attempt <= run[e.run].attempt
        BY <3>1, <3>3, <4>1 DEF InPast, Attempt
      <4>3. PICK r \in Runs : t.seen[c] \in Identity
              /\ t.seen[c] = [run |-> r, attempt |-> run[r].attempt, status |-> Status(r)]
        BY <1>1, <2>5, <4>2, ListingSays
      <4>4. t.seen[c] # None /\ t.seen[c].run = r /\ t.seen[c].attempt = run[r].attempt
        BY <4>3, NoneAssumption
      <4> QED BY <4>2, <4>4
    <3> QED BY <3>2, <3>3
  <2>10. t.rev <= tip /\ CallerOf(waiting)'
    BY <1>1, <2>2, <2>5 DEF CallerOf, Exists
  <2> QED BY <1>1, <2>2, <2>5, <2>6, <2>7, <2>8, <2>9, <2>10, NextSlot
<1> QED BY <1>2, <1>3 DEF ListRuns

\* Candidates that the same run covers are read together.
LEMMA TurnParts ==
  ASSUME TypeOK, slot \in Building, ListedOK(slot), slot.left # {}
  PROVE  /\ Turn.run \in Runs /\ Turn.attempt \in 1..MaxAttempts /\ JobsNow \in Jobs
         /\ \A c \in Listed(slot.seen) :
              slot.seen[c].run = Turn.run => slot.seen[c] = Turn /\ JobsOf(slot, c) = JobsNow
         /\ Others \in SUBSET slot.left
         /\ \A c \in slot.left \ Others : slot.seen[c].run = Turn.run
<1>1. slot.left \in SUBSET Nat
  BY BuildParts, Constants
<1>2. Min(slot.left) \in slot.left
  BY <1>1, MinFound
<1> DEFINE m == Min(slot.left)
<1>3. m \in Listed(slot.seen) /\ Turn = slot.seen[m]
  BY <1>2 DEF ListedOK, Turn
<1> HIDE DEF m
<1>4. /\ Turn.run \in Runs /\ Turn.attempt \in 1..MaxAttempts /\ Exists(Turn.run)
  BY <1>3, BuildParts DEF ListedOK, Covers
<1>5. JobsNow \in Jobs
  BY <1>4, RunHere, RunParts DEF JobsNow
<1>6. ASSUME NEW c \in Listed(slot.seen), slot.seen[c].run = Turn.run
      PROVE  slot.seen[c] = Turn /\ JobsOf(slot, c) = JobsNow
  BY <1>3, <1>6 DEF ListedOK, JobsOf, JobsNow
<1>7. Others \in SUBSET slot.left /\ \A c \in slot.left \ Others : slot.seen[c].run = Turn.run
  BY DEF Others
<1> QED BY <1>4, <1>5, <1>6, <1>7

LEMMA ReadJobsOK ==
  ASSUME IInv, Noted, ReadJobs
  PROVE  IInv'
<1>1. /\ TypeOK /\ RunsOK /\ BuildOK /\ CallerOf(slot) /\ CallerOf(waiting)
      /\ waiting \in Request \cup {None} /\ slot \in Building /\ slot.step = "jobs" /\ slot # None
  BY Apart DEF ReadJobs, At
<1>2. slot.rev <= tip /\ ListedOK(slot) /\ CacheOK(slot) /\ AheadOK(slot)
  BY <1>1 DEF BuildOK, SlotOK
<1>3. UNCHANGED <<run, tip, waiting, page>> /\ CallerOf(waiting)'
  BY <1>1 DEF ReadJobs, ReadOnly, CallerOf, Exists
<1>4. CASE slot.left # {}
  <2> DEFINE k == Turn.run
             u == [slot EXCEPT !.cache = [slot.cache EXCEPT ![k] = JobsNow], !.left = Others]
  <2>1. /\ k \in Runs /\ JobsNow \in Jobs /\ Others \in SUBSET slot.left
        /\ \A c \in Listed(slot.seen) :
             slot.seen[c].run = k => slot.seen[c] = Turn /\ JobsOf(slot, c) = JobsNow
        /\ \A c \in slot.left \ Others : slot.seen[c].run = k
    BY <1>1, <1>2, <1>4, TurnParts
  <2>2. slot' = u
    BY <1>1, <1>4 DEF ReadJobs, Building
  <2>3. [slot.cache EXCEPT ![k] = JobsNow] \in [Runs -> Jobs \cup {None}]
    <3> HIDE DEF k
    <3> QED BY <1>1, <2>1, BuildParts
  <2>4. Others \in SUBSET Candidates
    BY <1>1, <2>1, BuildParts
  <2> DEFINE cache == [slot.cache EXCEPT ![k] = JobsNow]
  <2>4a. /\ u \in Building /\ u.rev = slot.rev /\ u.by = slot.by /\ u.step = "jobs"
         /\ u.seen = slot.seen /\ u.left = Others /\ u.cache = cache
    <3> HIDE DEF k, cache
    <3> QED BY <1>1, <2>3, <2>4 DEF Building, cache
  <2> HIDE DEF u
  <2>5. PICK t \in Building :
          /\ slot' = t /\ t.rev = slot.rev /\ t.by = slot.by /\ t.step = "jobs"
          /\ t.seen = slot.seen /\ t.left = Others /\ t.cache = cache
    BY <2>2, <2>4a
  <2>6. cache[k] = JobsNow /\ \A r \in Runs : r # k => cache[r] = slot.cache[r]
    <3> HIDE DEF k
    <3> QED BY <1>1, <2>1, BuildParts
  <2> HIDE DEF cache, k
  <2>7. ListedOK(t)
    BY <1>2, <2>1, <2>5 DEF ListedOK
  <2>8. CacheOK(t)
    <3> SUFFICES ASSUME NEW c \in Listed(slot.seen), c \notin Others
                 PROVE  cache[slot.seen[c].run] # None
                        /\ Since(cache[slot.seen[c].run], JobsOf(slot, c))
      BY <2>5 DEF CacheOK, JobsOf
    <3>1. CASE slot.seen[c].run = k
      BY <2>1, <2>6, <3>1, SinceSelf, NoneAssumption
    <3>2. CASE slot.seen[c].run # k
      <4>1. c \notin slot.left /\ slot.seen[c].run \in Runs
        BY <1>1, <2>1, <3>2, BuildParts
      <4> QED BY <1>2, <2>6, <3>2, <4>1 DEF CacheOK
    <3> QED BY <3>1, <3>2
  <2>9. AheadOK(t) /\ NoticeOK(t)' /\ t.rev <= tip
    BY <1>2, <2>5 DEF AheadOK, NoticeOK
  <2>10. CallerOf(t)
    BY <1>1, <2>5, BuildParts DEF CallerOf
  <2> QED BY <1>1, <1>3, <2>5, <2>7, <2>8, <2>9, <2>10, NextSlot
<1>5. CASE slot.left = {}
  <2> DEFINE u == [slot EXCEPT !.step = "recheck", !.left = Listed(slot.seen)]
  <2>1. slot' = u
    BY <1>5 DEF ReadJobs
  <2>2. Listed(slot.seen) \in SUBSET Candidates
    BY DEF Listed
  <2>2a. /\ u \in Building /\ u.rev = slot.rev /\ u.by = slot.by /\ u.step = "recheck"
         /\ u.seen = slot.seen /\ u.left = Listed(slot.seen) /\ u.cache = slot.cache
    BY <1>1, <2>2 DEF Building, Steps
  <2> HIDE DEF u
  <2>3. PICK t \in Building :
          /\ slot' = t /\ t.rev = slot.rev /\ t.by = slot.by /\ t.step = "recheck"
          /\ t.seen = slot.seen /\ t.left = Listed(slot.seen) /\ t.cache = slot.cache
    BY <2>1, <2>2a
  <2>4. ListedOK(t) /\ CacheOK(t) /\ AheadOK(t) /\ t.rev <= tip
    BY <1>2, <1>5, <2>3 DEF ListedOK, CacheOK, AheadOK, JobsOf
  <2>5. AllRead(slot)
    BY <1>2, <1>5 DEF CacheOK, AllRead
  <2>6. (Site = Truth) \/ Behind(t) \/ \E c \in t.left : Moved(t, c)
    <3>1. ASSUME ~Behind(t), \A c \in t.left : ~Moved(t, c) PROVE Site = Truth
      <4>1. ~Behind(slot) /\ \A c \in Listed(slot.seen) : ~Moved(slot, c)
        BY <2>3, <3>1 DEF Behind, Gone, Moved, JobsOf
      <4> QED BY <1>1, <1>2, <2>5, <4>1, SiteTrue
    <3> QED BY <3>1
  <2>7. apt' \/ Behind(t) \/ \E c \in t.left : Moved(t, c)
    <3>1. apt' = (Site = Truth)
      BY <1>1, <2>3, BuildParts DEF Noted, Observe, At
    <3> QED BY <2>6, <3>1
  <2>8. NoticeOK(t)'
    <3>1. TypeOK /\ RunsGo /\ tip' \in Revisions /\ tip' >= tip
      BY <1>1, <1>3, SameRuns, Apart
    <3>2. Behind(t) => Behind(t)'
      BY <2>3, <2>4, <3>1, BehindOn
    <3>3. ASSUME NEW c \in t.left, Moved(t, c) PROVE Moved(t, c)'
      BY <2>3, <2>4, <3>1, <3>3, MovedOn DEF ListedOK
    <3> QED BY <2>3, <2>7, <3>2, <3>3 DEF NoticeOK
  <2>9. CallerOf(t)
    BY <1>1, <2>3, BuildParts DEF CallerOf
  <2> QED BY <1>1, <1>3, <2>3, <2>4, <2>8, <2>9, NextSlot
<1> QED BY <1>4, <1>5

\* A state of the build with another step and other candidates left.
LEMMA Step ==
  ASSUME IInv, slot \in Building, NEW step \in Steps, NEW left \in SUBSET Candidates,
         slot' = [slot EXCEPT !.step = step, !.left = left]
  PROVE  \E t \in Building :
           /\ slot' = t /\ t.rev = slot.rev /\ t.by = slot.by /\ t.step = step
           /\ t.seen = slot.seen /\ t.left = left /\ t.cache = slot.cache /\ CallerOf(t)
<1> DEFINE u == [slot EXCEPT !.step = step, !.left = left]
<1>1. /\ u \in Building /\ u.rev = slot.rev /\ u.by = slot.by /\ u.step = step
      /\ u.seen = slot.seen /\ u.left = left /\ u.cache = slot.cache
  BY DEF Building
<1> HIDE DEF u
<1>2. CallerOf(u)
  BY <1>1, Apart, BuildParts DEF CallerOf
<1> QED BY <1>1, <1>2 DEF u

\* What a build in progress has noticed by now.
LEMMA InProgress ==
  ASSUME IInv, slot # None, slot.step # "runs"
  PROVE  /\ slot \in Building /\ TypeOK /\ RunsOK /\ slot.rev <= tip
         /\ ListedOK(slot) /\ CacheOK(slot) /\ NoticeOK(slot) /\ AheadOK(slot)
         /\ CallerOf(waiting) /\ waiting \in Request \cup {None}
<1>1. slot \in Building /\ BuildOK /\ TypeOK /\ RunsOK /\ CallerOf(waiting)
      /\ waiting \in Request \cup {None}
  BY Apart
<1> QED BY <1>1 DEF BuildOK, SlotOK

\* The jobs of the run read again are what they were; others may have moved.
LEMMA RecheckOK ==
  ASSUME IInv, Noted, Recheck
  PROVE  IInv'
<1>1. slot # None /\ slot.step = "recheck"
  BY DEF Recheck, At
<1>2. /\ slot \in Building /\ TypeOK /\ RunsOK /\ slot.rev <= tip
      /\ ListedOK(slot) /\ CacheOK(slot) /\ NoticeOK(slot) /\ AheadOK(slot)
      /\ CallerOf(waiting) /\ waiting \in Request \cup {None}
  BY <1>1, InProgress
<1>3. CASE Stop
  BY <1>3, StopOK DEF Recheck
<1>4. CASE slot.left # {} /\ UNCHANGED run /\ Unchanged /\ slot' = [slot EXCEPT !.left = Others]
  <2>1. UNCHANGED <<run, tip, waiting, page>> /\ CallerOf(waiting)'
    BY <1>2, <1>4 DEF Recheck, ReadOnly, CallerOf, Exists
  <2>2. /\ \A c \in Listed(slot.seen) :
             slot.seen[c].run = Turn.run => slot.seen[c] = Turn /\ JobsOf(slot, c) = JobsNow
        /\ Others \in SUBSET slot.left
        /\ \A c \in slot.left \ Others : slot.seen[c].run = Turn.run
    BY <1>2, <1>4, TurnParts
  <2>3. Others \in SUBSET Candidates /\ slot' = [slot EXCEPT !.step = "recheck", !.left = Others]
    <3>1. Others \in SUBSET Candidates
      BY <1>2, <2>2, BuildParts
    <3>2. [slot EXCEPT !.left = Others] = [slot EXCEPT !.step = "recheck", !.left = Others]
      BY <1>1, <1>2 DEF Building
    <3> QED BY <1>4, <3>1, <3>2
  <2>4. PICK t \in Building :
          /\ slot' = t /\ t.rev = slot.rev /\ t.by = slot.by /\ t.step = "recheck"
          /\ t.seen = slot.seen /\ t.left = Others /\ t.cache = slot.cache /\ CallerOf(t)
    BY <1>2, <2>3, Step DEF Steps
  <2>5. ListedOK(t) /\ CacheOK(t) /\ AheadOK(t) /\ t.rev <= tip
    BY <1>1, <1>2, <2>2, <2>4 DEF ListedOK, CacheOK, AheadOK, JobsOf
  <2>6. ASSUME NEW c \in slot.left \ Others PROVE ~Moved(slot, c)
    <3>1. c \in Listed(slot.seen) /\ slot.seen[c].run = Turn.run
      BY <1>2, <2>2 DEF ListedOK
    <3> QED BY <1>4, <2>2, <3>1 DEF Unchanged, Moved
  <2>7. apt \/ Behind(t) \/ \E c \in t.left : Moved(t, c)
    BY <1>1, <1>2, <2>4, <2>6 DEF NoticeOK, Behind, Gone, Moved, JobsOf
  <2>8. apt' = apt
    BY <1>1, <2>4, BuildParts DEF Noted, Observe, At
  <2>9. NoticeOK(t)'
    <3>1. TypeOK /\ RunsGo /\ tip' \in Revisions /\ tip' >= tip
      BY <1>2, <2>1, SameRuns, Apart
    <3>2. Behind(t) => Behind(t)'
      BY <2>5, <3>1, BehindOn
    <3>3. ASSUME NEW c \in t.left, Moved(t, c) PROVE Moved(t, c)'
      BY <2>4, <2>5, <3>1, <3>3, MovedOn DEF ListedOK
    <3> QED BY <2>4, <2>7, <2>8, <3>2, <3>3 DEF NoticeOK
  <2> QED BY <1>2, <2>1, <2>4, <2>5, <2>9, NextSlot
<1>5. CASE slot.left = {} /\ UNCHANGED run /\ Goto("again")
  <2>1. UNCHANGED <<run, tip, waiting, page>> /\ CallerOf(waiting)'
    BY <1>2, <1>5 DEF Recheck, ReadOnly, CallerOf, Exists
  <2>2. /\ slot' = [slot EXCEPT !.step = "again", !.left = slot.left]
        /\ slot.left \in SUBSET Candidates /\ "again" \in Steps
    BY <1>2, <1>5 DEF Goto, Building, Steps
  <2>3. PICK t \in Building :
          /\ slot' = t /\ t.rev = slot.rev /\ t.by = slot.by /\ t.step = "again"
          /\ t.seen = slot.seen /\ t.left = slot.left /\ t.cache = slot.cache /\ CallerOf(t)
    BY <1>2, <2>2, Step
  <2>4. ListedOK(t) /\ CacheOK(t) /\ AheadOK(t) /\ t.rev <= tip
    BY <1>1, <1>2, <2>3 DEF ListedOK, CacheOK, AheadOK, JobsOf
  <2>5. apt \/ Behind(t)
    BY <1>1, <1>2, <1>5, <2>3 DEF NoticeOK, Behind, Gone
  <2>6. apt' = apt
    BY <1>1, <2>3, BuildParts DEF Noted, Observe, At
  <2>7. NoticeOK(t)'
    <3>1. TypeOK /\ RunsGo /\ tip' \in Revisions /\ tip' >= tip
      BY <1>2, <2>1, SameRuns, Apart
    <3>2. Behind(t) => Behind(t)'
      BY <2>4, <3>1, BehindOn
    <3> QED BY <2>3, <2>5, <2>6, <3>2 DEF NoticeOK
  <2> QED BY <1>2, <2>1, <2>3, <2>4, <2>7, NextSlot
<1> QED BY <1>3, <1>4, <1>5 DEF Recheck

\* Listing the same again shows that the build is not behind.
LEMMA ListAgainOK ==
  ASSUME IInv, Noted, ListAgain
  PROVE  IInv'
<1>1. slot # None /\ slot.step = "again"
  BY DEF ListAgain, At
<1>2. /\ slot \in Building /\ TypeOK /\ RunsOK /\ slot.rev <= tip
      /\ ListedOK(slot) /\ CacheOK(slot) /\ NoticeOK(slot) /\ AheadOK(slot)
      /\ CallerOf(waiting) /\ waiting \in Request \cup {None}
  BY <1>1, InProgress
<1>3. CASE Stop
  BY <1>3, StopOK DEF ListAgain
<1>4. CASE UNCHANGED run /\ Goto("deploy") /\ OnDefault /\ Listing(slot.rev) = slot.seen
  <2>1. UNCHANGED <<run, tip, waiting, page>> /\ CallerOf(waiting)'
    BY <1>2, <1>4 DEF ListAgain, ReadOnly, CallerOf, Exists
  <2>2. /\ slot' = [slot EXCEPT !.step = "deploy", !.left = slot.left]
        /\ slot.left \in SUBSET Candidates /\ "deploy" \in Steps
    BY <1>2, <1>4 DEF Goto, Building, Steps
  <2>3. PICK t \in Building :
          /\ slot' = t /\ t.rev = slot.rev /\ t.by = slot.by /\ t.step = "deploy"
          /\ t.seen = slot.seen /\ t.left = slot.left /\ t.cache = slot.cache /\ CallerOf(t)
    BY <1>2, <2>2, Step
  <2>4. ListedOK(t) /\ CacheOK(t) /\ AheadOK(t) /\ t.rev <= tip
    BY <1>1, <1>2, <2>3 DEF ListedOK, CacheOK, AheadOK, JobsOf
  <2>5. ~Behind(slot)
    BY <1>2, <1>4, NoneGone DEF Behind, OnDefault
  <2>6. apt /\ apt' = apt
    BY <1>1, <1>2, <2>3, <2>5, BuildParts DEF Noted, Observe, At, NoticeOK
  <2>7. NoticeOK(t)'
    BY <2>3, <2>6 DEF NoticeOK
  <2> QED BY <1>2, <2>1, <2>3, <2>4, <2>7, NextSlot
<1> QED BY <1>3, <1>4 DEF ListAgain

\* What a deployment puts on the page.
LEMMA Deployed ==
  ASSUME IInv, Deploy
  PROVE  /\ Site \in Page /\ Site.rev = slot.rev /\ InPast(Site) /\ AheadOK(slot)
         /\ slot \in Building
         /\ \A c \in Candidates :
              LET e == Site.rows[c].evidence IN
              \/ slot.seen[c] = None /\ e = None
              \/ /\ slot.seen[c] # None /\ e # None
                 /\ e.run = slot.seen[c].run /\ e.attempt = slot.seen[c].attempt
<1>1. slot # None /\ slot.step = "deploy"
  BY DEF Deploy, At
<1>2. /\ slot \in Building /\ slot.rev <= tip /\ ListedOK(slot) /\ CacheOK(slot) /\ AheadOK(slot)
  BY <1>1, InProgress
<1>3. AllRead(slot)
  BY <1>1, <1>2, AllReadThen
<1>4. /\ Site \in Page /\ Site.rev = slot.rev
      /\ \A c \in Candidates :
           LET e == Site.rows[c].evidence IN
           \/ slot.seen[c] = None /\ e = None
           \/ /\ slot.seen[c] # None /\ e # None
              /\ e.run = slot.seen[c].run /\ e.attempt = slot.seen[c].attempt
  BY <1>2, <1>3, SiteSays
<1>5. InPast(Site)
  <2>1. ASSUME NEW c \in Candidates, Site.rows[c].evidence # None
        PROVE  /\ Covers(Site.rows[c].evidence.run, Site.rev, c)
               /\ Site.rows[c].evidence.attempt <= run[Site.rows[c].evidence.run].attempt
    <3>1. /\ slot.seen[c] # None /\ Site.rows[c].evidence.run = slot.seen[c].run
          /\ Site.rows[c].evidence.attempt = slot.seen[c].attempt
      BY <1>4, <2>1
    <3>2. c \in Listed(slot.seen)
      BY <3>1 DEF Listed
    <3> QED BY <1>2, <1>4, <3>1, <3>2 DEF ListedOK
  <2> QED BY <1>2, <1>4, <2>1 DEF InPast
<1> QED BY <1>2, <1>4, <1>5

LEMMA DeployOK ==
  ASSUME IInv, Noted, Deploy
  PROVE  IInv'
<1>1. TypeOK /\ RunsOK /\ CallerOf(slot) /\ tip \in Revisions /\ tip \in Nat
  BY Apart
<1>2. /\ run' = Over(slot) /\ slot' = None /\ tip' = tip /\ waiting' = waiting
      /\ page' = Site
  BY DEF Deploy, Stop
<1>3. RunsGo
  BY <1>1, <1>2, OverGo
<1>4. Site \in Page /\ InPast(Site)
  BY Deployed
<1> PICK p \in Page : p = Site
  BY <1>4
<1>5. InPast(p)'
  BY <1>1, <1>2, <1>3, <1>4, InPastOn
<1>6. PageOK'
  BY <1>2, <1>5 DEF PageOK
<1> QED BY <1>1, <1>2, <1>3, <1>4, <1>6, NoSlot

-----------------------------------------------------------------------------
(***************************************************************************)
(* The theorems.                                                            *)
(***************************************************************************)

LEMMA ScheduleOK ==
  ASSUME IInv, Noted, Schedule
  PROVE  IInv'
<1>1. TypeOK /\ RunsOK /\ CallerOf(waiting) /\ tip \in Revisions /\ tip \in Nat
  BY Apart
<1>2. run' = Over(waiting) /\ waiting' = [rev |-> tip, by |-> None]
      /\ UNCHANGED <<tip, slot, page>>
  BY DEF Schedule, Build
<1>3. RunsGo
  BY <1>1, <1>2, OverGo
<1>4. waiting' \in Request /\ CallerOf(waiting)'
  BY <1>1, <1>2 DEF Request, CallerOf
<1> QED BY <1>1, <1>2, <1>3, <1>4, KeepSlot, AptKept

LEMMA AbandonOK ==
  ASSUME IInv, Noted, Abandon
  PROVE  IInv'
<1>1. CASE Stop /\ ReadOnly
  BY <1>1, StopOK
<1>2. CASE waiting' = None /\ run' = Over(waiting) /\ UNCHANGED <<tip, Build>>
  <2>1. TypeOK /\ RunsOK /\ CallerOf(waiting) /\ tip \in Revisions /\ tip \in Nat
    BY Apart
  <2>2. RunsGo
    BY <1>2, <2>1, OverGo
  <2>3. CallerOf(waiting)'
    BY <1>2 DEF CallerOf
  <2>4. UNCHANGED <<tip, slot, page>>
    BY <1>2 DEF Build
  <2> QED BY <1>2, <2>1, <2>2, <2>3, <2>4, KeepSlot, AptKept
<1> QED BY <1>1, <1>2 DEF Abandon

LEMMA RunOK ==
  ASSUME IInv, Noted, NEW r \in Runs, People(r) \/ RunStep(r)
  PROVE  IInv'
<1>1. /\ TypeOK /\ RunsOK /\ CallerOf(waiting) /\ tip \in Revisions /\ tip \in Nat
      /\ waiting \in Request \cup {None}
  BY Apart
<1>2. CASE RunsGo /\ UNCHANGED <<slot, page, waiting>> /\ tip' \in Revisions /\ tip' >= tip
  <2>1. CallerOf(waiting)'
    BY <1>1, <1>2, CallersOn
  <2> QED BY <1>1, <1>2, <2>1, KeepSlot, AptKept
<1>3. CASE Push(r)
  <2>1. RunsGo /\ tip' = tip + 1 /\ tip' \in Revisions /\ UNCHANGED <<slot, page, waiting>>
    BY <1>1, <1>3, PushGo
  <2> QED BY <1>1, <1>2, <2>1
<1>4. CASE Call(r)
  <2>1. /\ RunsGo /\ UNCHANGED <<tip, slot, page>>
        /\ waiting' \in Request /\ waiting'.by = r /\ Exists(r)
    BY <1>1, <1>4, CallGo
  <2>2. CallerOf(waiting)'
    BY <1>1, <2>1, RunGoes DEF CallerOf
  <2> QED BY <1>1, <2>1, <2>2, KeepSlot, AptKept
<1>5. CASE RunsGo /\ UNCHANGED <<tip, slot, page, waiting>>
  BY <1>1, <1>2, <1>5
<1>6. CASE RerunAll(r) \/ RerunFailed(r)
  BY <1>1, <1>5, <1>6, RerunGo
<1>7. ASSUME NEW scope \in Selected \cup {All}, Dispatch(r, scope) PROVE IInv'
  BY <1>1, <1>5, <1>7, DispatchGo
<1>8. ASSUME NEW c \in Candidates, FailJob(r, c) \/ PassJob(r, c) PROVE IInv'
  BY <1>1, <1>5, <1>8, JobGo
<1>9. CASE Begin(r)
  BY <1>1, <1>5, <1>9, BeginGo
<1>10. CASE Plan(r)
  BY <1>1, <1>5, <1>10, PlanGo
<1>11. CASE Cancel(r)
  BY <1>1, <1>5, <1>11, CancelGo
<1>12. CASE Summary(r)
  BY <1>1, <1>5, <1>12, SummaryGo
<1> QED BY <1>3, <1>4, <1>6, <1>7, <1>8, <1>9, <1>10, <1>11, <1>12 DEF People, RunStep

LEMMA NextOK ==
  ASSUME IInv, Next
  PROVE  IInv'
<1>1. Noted
  <2>1. failures \in 0..MaxFailures /\ MaxFailures \in Nat
    BY Apart, CatalogAssumption
  <2>2. UNCHANGED failures \/ (failures < MaxFailures /\ failures' = failures + 1)
    BY DEF Next, Fail
  <2>3. failures' \in 0..MaxFailures
    BY <2>1, <2>2
  <2> QED BY <2>3 DEF Next, Noted
<1>2. ASSUME NEW r \in Runs, People(r) \/ RunStep(r) PROVE IInv'
  BY <1>1, <1>2, RunOK
<1>3. CASE Schedule
  BY <1>1, <1>3, ScheduleOK
<1>4. CASE Acquire
  BY <1>1, <1>4, AcquireOK
<1>5. CASE ListRuns
  BY <1>1, <1>5, ListRunsOK
<1>6. CASE ReadJobs
  BY <1>1, <1>6, ReadJobsOK
<1>7. CASE Recheck
  BY <1>1, <1>7, RecheckOK
<1>8. CASE ListAgain
  BY <1>1, <1>8, ListAgainOK
<1>9. CASE Deploy
  BY <1>1, <1>9, DeployOK
<1>10. CASE Abandon
  BY <1>1, <1>10, AbandonOK
<1>11. CASE Fail
  BY <1>1, <1>11, StopOK DEF Fail
<1> QED BY <1>2, <1>3, <1>4, <1>5, <1>6, <1>7, <1>8, <1>9, <1>10, <1>11 DEF Next, BuildStep

LEMMA StutterOK ==
  ASSUME IInv, UNCHANGED vars
  PROVE  IInv'
<1>1. UNCHANGED <<tip, run, slot, waiting, page, failures, apt>>
  BY DEF vars
<1>2. /\ TypeOK /\ RunsOK /\ CallerOf(waiting) /\ tip \in Revisions /\ tip \in Nat
      /\ waiting \in Request \cup {None} /\ failures \in 0..MaxFailures /\ apt \in BOOLEAN
  BY Apart
<1>3. RunsGo
  BY <1>1, <1>2, SameRuns
<1>4. CallerOf(waiting)'
  BY <1>1, <1>2, <1>3, CallersOn
<1> QED BY <1>1, <1>2, <1>3, <1>4, KeepSlot

\* At first there is one run, the first in the numbering.
LEMMA InitOK ==
  ASSUME Init
  PROVE  IInv
<1>1. PICK scope \in Selected \cup {All} :
        run = [r \in Runs |-> IF r = Min(Runs) THEN New(1, scope, 1) ELSE None]
  BY DEF Init
<1>2. /\ tip = 1 /\ slot = None /\ waiting = None /\ page = None /\ apt = FALSE
      /\ failures \in 0..MaxFailures
  BY CatalogAssumption DEF Init
<1>3. 1 \in Revisions /\ 1 \in 1..MaxStarts /\ scope \in Candidates \cup {All}
  BY CatalogAssumption, Constants DEF Revisions
<1>4. New(1, scope, 1) \in Run /\ Fit(New(1, scope, 1))
  BY <1>3, NewFit
<1>5. run \in [Runs -> Run \cup {None}]
  BY <1>1, <1>4
<1>6. RunsOK
  BY <1>1, <1>4 DEF RunsOK, Exists
<1>7. TypeOK
  BY <1>2, <1>3, <1>5 DEF TypeOK
<1>8. CallerOf(slot) /\ CallerOf(waiting)
  BY <1>2 DEF CallerOf
<1>9. PageOK
  BY <1>2, NoneAssumption DEF PageOK
<1>10. BuildOK
  BY <1>2, BuildParts DEF BuildOK
<1> QED BY <1>6, <1>7, <1>8, <1>9, <1>10 DEF IInv

\* The inductive invariant: what a build has read and what the page shows is in the
\* past of the runs, and a build whose first reading of the jobs was not true will see
\* the difference when it reads the jobs and the runs again (catalog.py:84-136).
THEOREM CatalogInvariant == Spec => []IInv
<1>1. Init => IInv
  BY InitOK
<1>2. IInv /\ [Next]_vars => IInv'
  BY NextOK, StutterOK
<1> QED BY <1>1, <1>2, PTL DEF Spec

\* The state of runs, requests, builds and the page has its type; in particular the
\* jobs of every run a build has listed are read before they are compared
\* (catalog.py:84-136).
THEOREM CatalogType == Spec => []TypeOK
<1>1. IInv => TypeOK
  BY DEF IInv
<1> QED BY <1>1, CatalogInvariant, PTL

\* A site that is uploaded was true, for all candidates together, at one moment of its
\* build: when its jobs had been read once (catalog.py:84-136).
THEOREM SiteTrueAtOnce == Spec => []TrueAtOnce
<1>1. IInv => TrueAtOnce
  BY InProgress DEF TrueAtOnce, At, NoticeOK
<1> QED BY <1>1, CatalogInvariant, PTL

\* Only a deployment changes the page.
LEMMA OnlyDeploy ==
  ASSUME IInv, [Next]_vars, page' # page
  PROVE  Deploy
<1>1. ASSUME NEW r \in Runs, People(r) \/ RunStep(r) PROVE page' = page
  BY <1>1 DEF People, RunStep, Push, RerunAll, RerunFailed, Again, Dispatch, Begin, Plan,
    Cancel, Summary, Call, FailJob, PassJob, Job, Build
<1>2. CASE Schedule \/ Abandon \/ Fail
  BY <1>2 DEF Schedule, Abandon, Fail, ReadOnly, Build
<1>3. CASE BuildStep /\ ~Deploy
  BY <1>3 DEF BuildStep, Acquire, ListRuns, ReadJobs, Recheck, ListAgain, ReadOnly
<1> QED BY <1>1, <1>2, <1>3 DEF Next, vars

\* The page never goes back to an earlier revision, and within a revision a candidate
\* that had a run keeps one and never shows an earlier attempt of it
\* (candidate-catalog.yml:9-11, catalog.py:75, 135).
THEOREM PageNeverBack == Spec => PageForward
<1>1. ASSUME IInv, [Next]_vars, page # None, page' # page
      PROVE  \/ page'.rev > page.rev
             \/ /\ page'.rev = page.rev
                /\ \A c \in Candidates :
                     LET old == page.rows[c].evidence
                         new == page'.rows[c].evidence IN
                     old # None => new # None /\ (new.run = old.run => new.attempt >= old.attempt)
  <2>1. Deploy /\ page' = Site
    BY <1>1, OnlyDeploy DEF Deploy
  <2>2. /\ Site.rev = slot.rev /\ AheadOK(slot) /\ slot \in Building
        /\ \A c \in Candidates :
             LET e == Site.rows[c].evidence IN
             \/ slot.seen[c] = None /\ e = None
             \/ /\ slot.seen[c] # None /\ e # None
                /\ e.run = slot.seen[c].run /\ e.attempt = slot.seen[c].attempt
    BY <1>1, <2>1, Deployed
  <2>3. page \in Page /\ page.rev \in Nat /\ slot.rev \in Nat
    BY <1>1, <2>2, Apart, BuildParts, Constants DEF Page, Revisions
  <2>4. page.rev <= slot.rev
    BY <1>1, <2>2 DEF AheadOK
  <2>5. CASE page.rev < slot.rev
    BY <2>1, <2>2, <2>3, <2>5
  <2>6. CASE page.rev = slot.rev
    <3>1. ASSUME NEW c \in Candidates, page.rows[c].evidence # None
          PROVE  /\ Site.rows[c].evidence # None
                 /\ Site.rows[c].evidence.run = page.rows[c].evidence.run =>
                      Site.rows[c].evidence.attempt >= page.rows[c].evidence.attempt
      <4> DEFINE old == page.rows[c].evidence  new == Site.rows[c].evidence
      <4>1. /\ slot.seen[c] # None
            /\ slot.seen[c].run = old.run => old.attempt <= slot.seen[c].attempt
        BY <1>1, <2>2, <2>6, <3>1 DEF AheadOK
      <4>2. new # None /\ new.run = slot.seen[c].run /\ new.attempt = slot.seen[c].attempt
        BY <2>2, <4>1
      <4>3. old \in Attempt /\ old.attempt \in Nat
        BY <2>3, <3>1, Constants DEF Page, Attempt
      <4>4. slot.seen[c].attempt \in Nat
        BY <2>2, <4>1, BuildParts DEF Listed
      <4> QED BY <4>1, <4>2, <4>3, <4>4
    <3> QED BY <2>1, <2>2, <2>6, <3>1
  <2> QED BY <2>3, <2>4, <2>5, <2>6
<1>2. IInv /\ [Next]_vars =>
        [page # None /\ page' # page =>
           \/ page'.rev > page.rev
           \/ /\ page'.rev = page.rev
              /\ \A c \in Candidates :
                   LET old == page.rows[c].evidence
                       new == page'.rows[c].evidence IN
                   old # None => new # None /\ (new.run = old.run => new.attempt >= old.attempt)]_vars
  BY <1>1
<1> QED BY <1>2, CatalogInvariant, PTL DEF Spec, PageForward
=============================================================================
