---------------------------- MODULE ResumeProofs ----------------------------
(***************************************************************************)
(* Proofs about Resume, for any number of pull requests, branches, runs     *)
(* and revisions.  The scheduler lists the dispatched runs once and decides *)
(* long afterwards; the invariant says why that is enough: until it is done *)
(* with an entry of its page, nobody else makes a run it would have to know *)
(* about, and the one failed run it may repeat stays as it was.             *)
(***************************************************************************)
EXTENDS Resume, TLAPS, FiniteSetTheorems, SequenceTheorems

-----------------------------------------------------------------------------
(***************************************************************************)
(* The inductive invariant.                                                 *)
(***************************************************************************)

\* Steps after the runs of the entry were read, and after its retry was allowed.
Decided == {"plan", "current", "tip", "dispatch"}
Deciding == Decided \cup {"jobs"}

\* r is a run the scheduler of b dispatched at rev.
Dispatched(r, b, rev) ==
  Exists(r) /\ run[r].by = "scheduler" /\ run[r].branch = b /\ run[r].base = rev

\* The run has not been started again since it was seen inactive.
Gone(x, was) ==
  /\ x.by = was.by /\ Identity(x) = Identity(was) /\ x.attempt >= was.attempt
  /\ ~was.active /\ x.active => x.attempt > was.attempt

\* What a scan of b remembers is still so, and enough.
ListedOK(s) == \A x \in s.listed : Exists(x.id) /\ Gone(run[x.id], x.was)

\* The page holds a pull request once, and there is only one page.
PageOK(s) ==
  /\ ~s.full
  /\ s.step \in {"branch", "runs", "pulls"} => s.page = 0
  /\ \A i, j \in 1..Len(s.queue) : s.queue[i].number = s.queue[j].number => i = j

\* Every run dispatched at the scan's revision for a pull request still to be
\* looked at was there when the runs were listed.
KnownOK(b, s) ==
  \A r \in Runs :
    /\ Dispatched(r, b, s.base)
    /\ \/ s.step = "pulls"
       \/ /\ s.step \in Working \cup {"next"}
          /\ \E i \in 1..Len(s.queue) : s.queue[i].number = run[r].pr
    => \E x \in s.listed : x.id = r

\* The only run dispatched for the identity being decided about is the failed one
\* to repeat, which will not execute a proof in its first attempt any more.
OldOK(b, s) ==
  /\ s.step \notin Deciding => s.old = None
  /\ s.step \in Deciding =>
       \A r \in Runs :
         Dispatched(r, b, s.base) /\ run[r].pr = Head(s.queue).number
           /\ run[r].head = Head(s.queue).head => r = s.old
  /\ s.old # None =>
       /\ Exists(s.old)
       /\ run[s.old].active => run[s.old].attempt > 1
       /\ s.step \in Decided => ~run[s.old].executed

\* A branch that moved on just before the dispatch is where nothing was dispatched.
FreshOK(b, s) ==
  s.step = "dispatch" /\ tip[b] # s.base => \A r \in Runs : ~Dispatched(r, b, tip[b])

BeenOK(b, s) == s.step # "idle" => s.base \in been[b]

ScanOK(b, s) ==
  BeenOK(b, s) /\ ListedOK(s) /\ PageOK(s) /\ KnownOK(b, s) /\ OldOK(b, s) /\ FreshOK(b, s)

\* Revisions of the branch are revisions it has been at.
HistoryOK ==
  /\ \A b \in Branches : tip[b] \in been[b]
  /\ \A r \in Runs : Exists(r) => run[r].base \in been[run[r].branch]

IInv == TypeOK /\ HistoryOK /\ \A b \in Branches : ScanOK(b, scan[b])

-----------------------------------------------------------------------------
(***************************************************************************)
(* Workflow runs: whatever happens to them, they keep their identity and    *)
(* never become a first attempt again.                                      *)
(***************************************************************************)

\* A run goes on from was to x: only an active first attempt comes to execute a proof.
Onward(x, was) ==
  /\ x # None /\ Gone(x, was)
  /\ x.executed => was.executed \/ (was.active /\ was.attempt = 1)

Later == \A r \in Runs : Exists(r) => Onward(run'[r], run[r])

RunType == run' \in [Runs -> Run \cup {None}]

\* The constants a run is made of.
LEMMA Constants == None \notin Run /\ None \notin Runs /\ MaxAttempts \in Nat \ {0}
BY ResumeAssumption

\* The parts of a run its progress is told by.
LEMMA RunParts ==
  ASSUME NEW x \in Run
  PROVE  /\ x.attempt \in Nat /\ x.attempt >= 1
         /\ x.active \in BOOLEAN /\ x.executed \in BOOLEAN
BY Constants DEF Run

\* What is gone on is gone on since everything before, too, and every run since itself.
LEMMA GoneOn ==
  ASSUME NEW x \in Run, NEW y \in Run, NEW z \in Run, Gone(x, y), Gone(y, z)
  PROVE  Gone(x, z)
BY RunParts DEF Gone

LEMMA Unmoved == \A x \in Run : Onward(x, x)
BY RunParts, Constants DEF Gone, Onward

\* A cancelled run is inactive and otherwise the same.
LEMMA CancelGone ==
  ASSUME NEW x \in Run
  PROVE  Cancel(x) \in Run /\ Onward(Cancel(x), x)
<1>1. Cancel(x) \in Run
  BY DEF Run, Cancel
<1>2. /\ Cancel(x).by = x.by /\ Cancel(x).pr = x.pr /\ Cancel(x).head = x.head
      /\ Cancel(x).base = x.base /\ Cancel(x).branch = x.branch
      /\ Cancel(x).attempt = x.attempt /\ Cancel(x).active = FALSE
      /\ Cancel(x).executed = x.executed
  BY DEF Run, Cancel
<1> QED BY <1>1, <1>2, RunParts, Constants DEF Onward, Gone, Identity

\* A new run has the identity it was made for; the others go on.
LEMMA NewRunOK ==
  ASSUME TypeOK, NEW by \in {"event", "manual", "scheduler"}, NEW p \in PRs,
         NEW head \in Heads \cup {None}, NEW base \in Revs, NEW branch \in Branches,
         NewRun(by, p, head, base, branch)
  PROVE  /\ RunType /\ Later
         /\ \A r \in Runs : ~Exists(r) /\ run'[r] # None =>
              /\ run'[r].by = by /\ run'[r].base = base /\ run'[r].branch = branch
              /\ run'[r].pr = p /\ run'[r].head = head
         /\ \A r, s \in Runs : ~Exists(r) /\ run'[r] # None /\ ~Exists(s) /\ run'[s] # None => r = s
<1> DEFINE new == [by |-> by, pr |-> p, head |-> head, base |-> base, branch |-> branch,
                   active |-> TRUE, attempt |-> 1, conclusion |-> "none", executed |-> FALSE]
<1>1. PICK r \in Runs :
        /\ ~Exists(r)
        /\ run' = [s \in Runs |->
             IF s = r THEN new
             ELSE IF Exists(s) /\ run[s].pr = p /\ run[s].active THEN Cancel(run[s])
             ELSE run[s]]
  BY DEF NewRun
<1>2. new \in Run
  BY Constants DEF Run
<1>3. new.by = by /\ new.base = base /\ new.branch = branch /\ new.pr = p /\ new.head = head
  OBVIOUS
<1> HIDE DEF new
<1>4. \A s \in Runs : Exists(s) => run[s] \in Run /\ run[s] # None
  BY DEF Exists, TypeOK
<1>5. RunType
  <2> SUFFICES ASSUME NEW s \in Runs
               PROVE  (IF s = r THEN new
                       ELSE IF Exists(s) /\ run[s].pr = p /\ run[s].active THEN Cancel(run[s])
                       ELSE run[s]) \in Run \cup {None}
    BY <1>1 DEF RunType
  <2> QED BY <1>2, <1>4, CancelGone DEF TypeOK
<1>6. Later
  <2> SUFFICES ASSUME NEW s \in Runs, Exists(s)
               PROVE  Onward(run'[s], run[s])
    BY DEF Later
  <2>1. s # r
    BY <1>1
  <2>2. CASE run[s].pr = p /\ run[s].active
    <3>1. run'[s] = Cancel(run[s])
      BY <1>1, <2>1, <2>2
    <3> QED BY <3>1, <1>4, CancelGone
  <2>3. CASE ~(run[s].pr = p /\ run[s].active)
    <3>1. run'[s] = run[s]
      BY <1>1, <2>1, <2>3
    <3> QED BY <3>1, <1>4, Unmoved
  <2> QED BY <2>2, <2>3
<1>7. \A s \in Runs : ~Exists(s) /\ run'[s] # None => s = r
  BY <1>1 DEF Exists
<1>8. run'[r] = new
  BY <1>1
<1> QED BY <1>3, <1>5, <1>6, <1>7, <1>8

\* The steps of one run make no other.
LEMMA RunMoveOK ==
  ASSUME TypeOK, NEW r \in Runs, RunMove(r)
  PROVE  /\ RunType /\ Later /\ UNCHANGED <<github, scan>>
         /\ \A s \in Runs : run'[s] # None => Exists(s)
<1>0. \A s \in Runs : Exists(s) => run[s] \in Run /\ run[s] # None
  BY DEF Exists, TypeOK
<1>1. Exists(r) /\ run[r] \in Run
  BY <1>0 DEF RunMove, Execute, Complete, Rerun
<1>2. \A s \in Runs : Exists(s) => Onward(run[s], run[s])
  BY <1>0, Unmoved
<1>3. CASE Execute(r)
  <2> DEFINE new == [run[r] EXCEPT !.executed = TRUE]
  <2>1. new \in Run
    BY <1>1 DEF Run
  <2>2. Onward(new, run[r])
    <3>1. /\ new.by = run[r].by /\ new.pr = run[r].pr /\ new.head = run[r].head
          /\ new.base = run[r].base /\ new.branch = run[r].branch
          /\ new.attempt = run[r].attempt /\ new.active = run[r].active
      BY <1>1 DEF Run
    <3>2. run[r].active /\ run[r].attempt = 1
      BY <1>3 DEF Execute
    <3> HIDE DEF new
    <3> QED BY <2>1, <3>1, <3>2, <1>1, RunParts, Constants DEF Onward, Gone, Identity
  <2>3. run' = [run EXCEPT ![r] = new] /\ UNCHANGED <<github, scan>>
    BY <1>3 DEF Execute
  <2> HIDE DEF new
  <2>4. run'[r] = new /\ \A s \in Runs \ {r} : run'[s] = run[s]
    BY <2>3 DEF TypeOK
  <2> QED BY <1>0, <1>1, <1>2, <2>1, <2>2, <2>3, <2>4 DEF RunType, Later, TypeOK, Exists
<1>4. CASE Complete(r)
  <2>1. PICK c \in {"success", "failure"} :
          run' = [run EXCEPT ![r].active = FALSE, ![r].conclusion = c]
    BY <1>4 DEF Complete
  <2> DEFINE new == [run[r] EXCEPT !.active = FALSE, !.conclusion = c]
  <2>2. new \in Run
    BY <1>1 DEF Run
  <2>3. Onward(new, run[r])
    <3>1. /\ new.by = run[r].by /\ new.pr = run[r].pr /\ new.head = run[r].head
          /\ new.base = run[r].base /\ new.branch = run[r].branch
          /\ new.attempt = run[r].attempt /\ new.active = FALSE /\ new.executed = run[r].executed
      BY <1>1 DEF Run
    <3> HIDE DEF new
    <3> QED BY <2>2, <3>1, <1>1, RunParts, Constants DEF Onward, Gone, Identity
  <2>4. run' = [run EXCEPT ![r] = new] /\ UNCHANGED <<github, scan>>
    BY <2>1, <1>4 DEF Complete, TypeOK
  <2> HIDE DEF new
  <2>5. run'[r] = new /\ \A s \in Runs \ {r} : run'[s] = run[s]
    BY <2>4 DEF TypeOK
  <2> QED BY <1>0, <1>1, <1>2, <2>2, <2>3, <2>4, <2>5 DEF RunType, Later, TypeOK, Exists
<1>5. CASE Rerun(r)
  <2> DEFINE new == [run[r] EXCEPT !.active = TRUE, !.attempt = @ + 1, !.conclusion = "none"]
  <2>1. new \in Run
    <3>1. run[r].attempt + 1 \in 1..MaxAttempts
      BY <1>1, <1>5, Constants, RunParts DEF Rerun
    <3> QED BY <1>1, <3>1 DEF Run
  <2>2. Onward(new, run[r])
    <3>1. /\ new.by = run[r].by /\ new.pr = run[r].pr /\ new.head = run[r].head
          /\ new.base = run[r].base /\ new.branch = run[r].branch
          /\ new.attempt = run[r].attempt + 1 /\ new.executed = run[r].executed
      BY <1>1 DEF Run
    <3> HIDE DEF new
    <3> QED BY <2>1, <3>1, <1>1, RunParts, Constants DEF Onward, Gone, Identity
  <2>3. /\ run' = [s \in Runs |->
             IF s = r THEN new
             ELSE IF Exists(s) /\ run[s].pr = run[r].pr /\ run[s].active THEN Cancel(run[s])
             ELSE run[s]]
        /\ UNCHANGED <<github, scan>>
    BY <1>5 DEF Rerun
  <2> HIDE DEF new
  <2>4. run'[r] = new
    BY <2>3
  <2>5. \A s \in Runs \ {r} : run'[s] = run[s] \/ (Exists(s) /\ run'[s] = Cancel(run[s]))
    BY <2>3
  <2>6. \A s \in Runs : run'[s] \in Run \cup {None}
    BY <1>0, <2>1, <2>4, <2>5, CancelGone DEF TypeOK
  <2>7. \A s \in Runs : Exists(s) => Onward(run'[s], run[s])
    BY <1>0, <1>2, <2>2, <2>4, <2>5, CancelGone
  <2>8. \A s \in Runs : run'[s] # None => Exists(s)
    BY <1>1, <2>5 DEF Exists
  <2> QED BY <2>3, <2>6, <2>7, <2>8 DEF RunType, Later
<1> QED BY <1>3, <1>4, <1>5 DEF RunMove

-----------------------------------------------------------------------------
(***************************************************************************)
(* The page: pull requests of the branch, none of them twice.               *)
(***************************************************************************)

LEMMA PageFacts ==
  ASSUME NEW S \in SUBSET PRs, NEW all \in NewestFirst(S), NEW k \in Nat \ {0}
  PROVE  /\ Page(all, k) \in Seq(S)
         /\ \A i, j \in 1..Len(Page(all, k)) : Page(all, k)[i] = Page(all, k)[j] => i = j
         /\ k = 1 /\ Cardinality(S) < PageSize => Len(Page(all, k)) # PageSize
<1> DEFINE from == (k - 1) * PageSize + 1
           end == IF k * PageSize < Len(all) THEN k * PageSize ELSE Len(all)
<1>1. Cardinality(S) \in Nat /\ PageSize \in Nat \ {0}
  BY ResumeAssumption, FS_Subset, FS_CardinalityType
<1>2. /\ all \in Seq(S) /\ Len(all) = Cardinality(S)
      /\ \A i, j \in 1..Len(all) : all[i] = all[j] => i = j
  BY <1>1 DEF NewestFirst, SetToSeqs
<1>3. k * PageSize \in Nat /\ (k - 1) * PageSize \in Nat
  BY <1>1
<1>4. from \in Nat \ {0} /\ end \in Nat /\ end <= Len(all)
  BY <1>1, <1>2, <1>3
<1>5. Page(all, k) = SubSeq(all, from, end)
  BY DEF Page
<1>6. k = 1 => from = 1
  BY <1>1
<1>7. k = 1 /\ Cardinality(S) < PageSize => end = Cardinality(S)
  BY <1>1, <1>2
<1> HIDE DEF from, end
<1>8. \A i \in from..end : all[i] \in S
  BY <1>2, <1>4
<1>9. /\ Page(all, k) \in Seq(S)
      /\ Len(Page(all, k)) = IF from <= end THEN end - from + 1 ELSE 0
      /\ \A i \in 1..(end - from + 1) : Page(all, k)[i] = all[from + i - 1]
  BY <1>4, <1>5, <1>8, SubSeqProperties
<1>10. \A i, j \in 1..Len(Page(all, k)) : Page(all, k)[i] = Page(all, k)[j] => i = j
  <2> SUFFICES ASSUME NEW i \in 1..Len(Page(all, k)), NEW j \in 1..Len(Page(all, k)),
                      Page(all, k)[i] = Page(all, k)[j]
               PROVE  i = j
    OBVIOUS
  <2>1. i \in 1..(end - from + 1) /\ j \in 1..(end - from + 1)
    BY <1>4, <1>9
  <2>2. all[from + i - 1] = all[from + j - 1]
    BY <1>9, <2>1
  <2>3. from + i - 1 \in 1..Len(all) /\ from + j - 1 \in 1..Len(all)
    BY <1>2, <1>4, <2>1
  <2> QED BY <1>2, <1>4, <2>1, <2>2, <2>3
<1> QED BY <1>1, <1>2, <1>4, <1>6, <1>7, <1>9, <1>10

-----------------------------------------------------------------------------
(***************************************************************************)
(* Types.                                                                   *)
(***************************************************************************)

\* The parts of a scan that has something to look at.
LEMMA QueueParts ==
  ASSUME NEW s \in Scan, s.queue # <<>>
  PROVE  /\ s.queue \in Seq(Entry) /\ Head(s.queue) \in Entry /\ Len(s.queue) \in Nat \ {0}
         /\ Head(s.queue) = s.queue[1]
         /\ Tail(s.queue) \in Seq(Entry) /\ Len(Tail(s.queue)) = Len(s.queue) - 1
         /\ \A i \in 1..Len(Tail(s.queue)) : Tail(s.queue)[i] = s.queue[i + 1]
<1>1. s.queue \in Seq(Entry)
  BY DEF Scan
<1> QED BY <1>1, HeadTailProperties

\* Going on to the next entry.
LEMMA NextPullType ==
  ASSUME NEW s \in Scan, s.queue # <<>>
  PROVE  /\ NextPull(s) \in Scan
         /\ NextPull(s).step = "next" /\ NextPull(s).base = s.base
         /\ NextPull(s).listed = s.listed /\ NextPull(s).page = s.page
         /\ NextPull(s).full = s.full /\ NextPull(s).queue = Tail(s.queue)
         /\ NextPull(s).old = None
<1>1. Tail(s.queue) \in Seq(Entry)
  BY QueueParts
<1> QED BY <1>1 DEF Scan, NextPull, Steps

\* What the invocation of b comes to remember.
ScanType(s) == /\ s \in Scan
               /\ s.step \in Working => s.queue # <<>>
               /\ s.step = "jobs" => s.old \in Runs

LEMMA IdleType == Idle \in Scan /\ ScanType(Idle)
<1>1. <<>> \in Seq(Entry)
  OBVIOUS
<1> QED BY <1>1 DEF Idle, Scan, ScanType, Steps, Working

\* Every step of an invocation but the dispatch changes its own memory only.
LEMMA ScanStep ==
  ASSUME TypeOK, NEW b \in Branches, NEW new, ScanType(new), Set(b, new)
  PROVE  /\ TypeOK' /\ UNCHANGED <<github, run>>
         /\ scan'[b] = new /\ \A c \in Branches \ {b} : scan'[c] = scan[c]
BY DEF TypeOK, ScanType, Set, At, github

-----------------------------------------------------------------------------
(***************************************************************************)
(* The steps of an invocation that dispatch nothing.                        *)
(***************************************************************************)

\* The open pull requests of every branch fit on one page.
OnePage == \A b \in Branches : Cardinality(Pulls(b)) < PageSize

Sound(b, new) ==
  /\ ScanType(new)
  /\ OnePage /\ HistoryOK /\ ScanOK(b, scan[b]) => ScanOK(b, new)

LEMMA ScanHere ==
  ASSUME TypeOK, NEW b \in Branches
  PROVE  /\ scan[b] \in Scan
         /\ scan[b].step \in Working => scan[b].queue # <<>>
         /\ scan[b].step = "jobs" => scan[b].old \in Runs
BY DEF TypeOK, At

LEMMA StopSound ==
  ASSUME TypeOK, NEW b \in Branches
  PROVE  Sound(b, Idle)
<1>1. /\ Idle.step = "idle" /\ Idle.listed = {} /\ Idle.page = 0 /\ Idle.full = FALSE
      /\ Len(Idle.queue) = 0 /\ Idle.old = None
  BY DEF Idle
<1>2. ScanOK(b, Idle)
  BY <1>1 DEF ScanOK, BeenOK, ListedOK, PageOK, KnownOK, OldOK, FreshOK, Working, Deciding, Decided
<1> QED BY <1>2, IdleType DEF Sound

LEMMA WakeSound ==
  ASSUME TypeOK, NEW b \in Branches
  PROVE  Sound(b, [Idle EXCEPT !.step = "branch", !.base = tip[b]])
<1> DEFINE new == [Idle EXCEPT !.step = "branch", !.base = tip[b]]
<1>1. /\ new.step = "branch" /\ new.base = tip[b] /\ new.listed = {} /\ new.page = 0
      /\ new.full = FALSE /\ Len(new.queue) = 0 /\ new.old = None
  BY DEF Idle
<1>2. new \in Scan
  BY IdleType DEF TypeOK, Scan, Steps
<1> HIDE DEF new
<1>3. ScanType(new)
  BY <1>1, <1>2 DEF ScanType, Working
<1>4. HistoryOK => ScanOK(b, new)
  BY <1>1 DEF ScanOK, BeenOK, ListedOK, PageOK, KnownOK, OldOK, FreshOK, Working, Deciding, Decided,
              HistoryOK
<1> QED BY <1>3, <1>4 DEF Sound, new

\* Whatever was remembered about the other entries stays true.
LEMMA NextPullSound ==
  ASSUME TypeOK, NEW b \in Branches, scan[b].queue # <<>>, scan[b].step \in Working \cup {"next"}
  PROVE  Sound(b, NextPull(scan[b]))
<1> DEFINE s == scan[b]  new == NextPull(s)
<1>1. s \in Scan
  BY ScanHere
<1>2. /\ new \in Scan /\ new.step = "next" /\ new.base = s.base /\ new.listed = s.listed
      /\ new.page = s.page /\ new.full = s.full /\ new.queue = Tail(s.queue)
      /\ new.old = None
  BY <1>1, NextPullType
<1>3. /\ Len(s.queue) \in Nat \ {0} /\ Len(new.queue) = Len(s.queue) - 1
      /\ \A i \in 1..Len(new.queue) : new.queue[i] = s.queue[i + 1]
  BY <1>1, <1>2, QueueParts
<1> HIDE DEF new, s
<1>4. ScanType(new)
  BY <1>2 DEF ScanType, Working
<1>5. ASSUME ScanOK(b, s) PROVE ScanOK(b, new)
  <2>1. BeenOK(b, new)
    BY <1>2, <1>5 DEF ScanOK, BeenOK, s, Working
  <2>2. ListedOK(new)
    BY <1>2, <1>5 DEF ScanOK, ListedOK
  <2>3. PageOK(new)
    <3>1. ASSUME NEW i \in 1..Len(new.queue), NEW j \in 1..Len(new.queue),
                 new.queue[i].number = new.queue[j].number
          PROVE  i = j
      <4>1. i + 1 \in 1..Len(s.queue) /\ j + 1 \in 1..Len(s.queue)
        BY <1>3
      <4>2. s.queue[i + 1].number = s.queue[j + 1].number
        BY <1>3, <3>1
      <4>3. i + 1 = j + 1
        BY <1>5, <4>1, <4>2 DEF ScanOK, PageOK
      <4> QED BY <4>3
    <3> QED BY <1>2, <1>5, <3>1 DEF ScanOK, PageOK
  <2>4. KnownOK(b, new)
    <3> SUFFICES ASSUME NEW r \in Runs, Dispatched(r, b, new.base), NEW i \in 1..Len(new.queue),
                        new.queue[i].number = run[r].pr
                 PROVE  \E x \in new.listed : x.id = r
      BY <1>2 DEF KnownOK
    <3>1. i + 1 \in 1..Len(s.queue) /\ s.queue[i + 1].number = run[r].pr
      BY <1>3
    <3> QED BY <1>2, <1>5, <3>1 DEF ScanOK, KnownOK, s
  <2>5. OldOK(b, new) /\ FreshOK(b, new)
    BY <1>2 DEF OldOK, FreshOK, Deciding, Decided
  <2> QED BY <2>1, <2>2, <2>3, <2>4, <2>5 DEF ScanOK
<1> QED BY <1>4, <1>5 DEF Sound, new, s

\* Going on with the same entry.
LEMMA GotoParts ==
  ASSUME NEW s \in Scan, NEW to \in Steps
  PROVE  LET new == [s EXCEPT !.step = to] IN
         /\ new \in Scan /\ new.step = to
         /\ new.base = s.base /\ new.listed = s.listed /\ new.page = s.page
         /\ new.full = s.full /\ new.queue = s.queue /\ new.old = s.old
BY DEF Scan

\* What is known of the runs and of the page does not depend on the step.
LEMMA SameEntry ==
  ASSUME TypeOK, NEW b \in Branches, NEW new, ScanOK(b, scan[b]),
         new.base = scan[b].base, new.listed = scan[b].listed, new.page = scan[b].page,
         new.full = scan[b].full, new.queue = scan[b].queue,
         \/ scan[b].step = "branch" /\ new.step = "runs"
         \/ scan[b].step \in Working \cup {"next"} /\ new.step \in Working
  PROVE  BeenOK(b, new) /\ ListedOK(new) /\ PageOK(new) /\ KnownOK(b, new)
BY DEF ScanOK, BeenOK, ListedOK, PageOK, KnownOK, Working

LEMMA ReadBranchSound ==
  ASSUME TypeOK, NEW b \in Branches, ReadBranch(b)
  PROVE  \E new : Set(b, new) /\ Sound(b, new)
<1>1. CASE Stop(b)
  BY <1>1, StopSound DEF Stop
<1>2. CASE Goto(b, "runs")
  <2> DEFINE new == [scan[b] EXCEPT !.step = "runs"]
  <2>1. Set(b, new)
    BY <1>2 DEF Goto
  <2>2. scan[b] \in Scan /\ scan[b].step = "branch"
    BY ScanHere DEF ReadBranch, At
  <2>3. /\ new \in Scan /\ new.step = "runs"
        /\ new.base = scan[b].base /\ new.listed = scan[b].listed /\ new.page = scan[b].page
        /\ new.full = scan[b].full /\ new.queue = scan[b].queue /\ new.old = scan[b].old
    BY <2>2, GotoParts DEF Steps
  <2> HIDE DEF new
  <2>4. ScanType(new)
    BY <2>3 DEF ScanType, Working
  <2>5. ScanOK(b, scan[b]) => ScanOK(b, new)
    BY <2>2, <2>3, SameEntry DEF ScanOK, OldOK, FreshOK, Deciding, Decided
  <2> QED BY <2>1, <2>4, <2>5 DEF Sound
<1> QED BY <1>1, <1>2 DEF ReadBranch

\* The listing of the runs has every dispatch made at the scan's revision so far.
LEMMA ListRunsSound ==
  ASSUME TypeOK, NEW b \in Branches, ListRuns(b)
  PROVE  \E new : Set(b, new) /\ Sound(b, new)
<1> DEFINE found == {r \in Runs : Exists(r) /\ run[r].by # "event" /\ run[r].base = scan[b].base}
           new == [scan[b] EXCEPT !.step = "pulls", !.listed = Snapshot(found)]
<1>1. Set(b, new)
  BY DEF ListRuns
<1>2. scan[b] \in Scan /\ scan[b].step = "runs"
  BY ScanHere DEF ListRuns, At
<1>3. \A r \in Runs : Exists(r) => run[r] \in Run
  BY DEF TypeOK, Exists
<1>4. Snapshot(found) \in SUBSET [id : Runs, was : Run]
  BY <1>3 DEF Snapshot
<1>5. /\ new \in Scan /\ new.step = "pulls" /\ new.listed = Snapshot(found)
      /\ new.base = scan[b].base /\ new.page = scan[b].page /\ new.full = scan[b].full
      /\ new.queue = scan[b].queue /\ new.old = scan[b].old
  BY <1>2, <1>4 DEF Scan, Steps
<1> HIDE DEF new
<1>6. ScanType(new)
  BY <1>5 DEF ScanType, Working
<1>7. ASSUME ScanOK(b, scan[b]) PROVE ScanOK(b, new)
  <2>1. BeenOK(b, new) /\ PageOK(new)
    BY <1>2, <1>5, <1>7 DEF ScanOK, BeenOK, PageOK
  <2>2. ListedOK(new)
    <3> SUFFICES ASSUME NEW x \in Snapshot(found)
                 PROVE  Exists(x.id) /\ Gone(run[x.id], x.was)
      BY <1>5 DEF ListedOK
    <3>1. PICK r \in found : x = [id |-> r, was |-> run[r]]
      BY DEF Snapshot
    <3> QED BY <3>1, <1>3, Unmoved DEF Onward
  <2>3. KnownOK(b, new)
    <3> SUFFICES ASSUME NEW r \in Runs, Dispatched(r, b, new.base)
                 PROVE  \E x \in new.listed : x.id = r
      BY DEF KnownOK
    <3>1. r \in found
      BY <1>5 DEF Dispatched
    <3>2. [id |-> r, was |-> run[r]] \in new.listed
      BY <3>1, <1>5 DEF Snapshot
    <3> QED BY <3>2
  <2>4. OldOK(b, new) /\ FreshOK(b, new)
    BY <1>2, <1>5, <1>7 DEF ScanOK, OldOK, FreshOK, Deciding, Decided
  <2> QED BY <2>1, <2>2, <2>3, <2>4 DEF ScanOK
<1> QED BY <1>1, <1>6, <1>7 DEF Sound

\* One page: the first is the last, and every entry another pull request.
LEMMA ListPullsSound ==
  ASSUME TypeOK, NEW b \in Branches, ListPulls(b)
  PROVE  \E new : Set(b, new) /\ Sound(b, new)
<1> DEFINE k == scan[b].page + 1
<1>1. PICK all \in NewestFirst(Pulls(b)) :
        Set(b, [scan[b] EXCEPT !.step = "next", !.page = k,
                !.full = Len(Page(all, k)) = PageSize,
                !.queue = [i \in 1..Len(Page(all, k)) |-> EntryOf(Page(all, k)[i])]])
  BY DEF ListPulls
<1> DEFINE found == Page(all, k)
           queue == [i \in 1..Len(found) |-> EntryOf(found[i])]
           new == [scan[b] EXCEPT !.step = "next", !.page = k, !.full = Len(found) = PageSize,
                                  !.queue = queue]
<1>2. scan[b] \in Scan /\ scan[b].step = "pulls"
  BY ScanHere DEF ListPulls, At
<1>3. Pulls(b) \in SUBSET PRs /\ k \in Nat \ {0}
  BY <1>2 DEF Pulls, Scan
<1>4. /\ found \in Seq(Pulls(b))
      /\ \A i, j \in 1..Len(found) : found[i] = found[j] => i = j
      /\ k = 1 /\ Cardinality(Pulls(b)) < PageSize => Len(found) # PageSize
  BY <1>3, PageFacts
<1> HIDE DEF found, k
<1>5. \A i \in 1..Len(found) : EntryOf(found[i]) \in Entry /\ EntryOf(found[i]).number = found[i]
  BY <1>3, <1>4 DEF EntryOf, Entry, TypeOK, PullRequest
<1>6. Len(found) \in Nat
  BY <1>4
<1>7. /\ queue \in Seq(Entry) /\ Len(queue) = Len(found)
      /\ \A i \in 1..Len(queue) : queue[i].number = found[i]
  BY <1>5, <1>6
<1> HIDE DEF queue
<1>8. /\ new \in Scan /\ new.step = "next" /\ new.queue = queue /\ new.page = k
      /\ new.full = (Len(found) = PageSize)
      /\ new.base = scan[b].base /\ new.listed = scan[b].listed /\ new.old = scan[b].old
  BY <1>2, <1>3, <1>7 DEF Scan, Steps
<1>9. Set(b, new)
  BY <1>1 DEF found, queue
<1> HIDE DEF new
<1>10. ScanType(new)
  BY <1>8 DEF ScanType, Working
<1>11. ASSUME OnePage, ScanOK(b, scan[b]) PROVE ScanOK(b, new)
  <2>1. BeenOK(b, new) /\ ListedOK(new)
    BY <1>2, <1>8, <1>11 DEF ScanOK, BeenOK, ListedOK
  <2>2. PageOK(new)
    <3>1. k = 1
      BY <1>2, <1>11 DEF k, ScanOK, PageOK
    <3>2. Len(found) # PageSize
      BY <3>1, <1>4, <1>11 DEF OnePage
    <3>3. \A i, j \in 1..Len(new.queue) : new.queue[i].number = new.queue[j].number => i = j
      BY <1>4, <1>7, <1>8
    <3> QED BY <3>2, <3>3, <1>8 DEF PageOK
  <2>3. KnownOK(b, new)
    BY <1>2, <1>8, <1>11 DEF ScanOK, KnownOK
  <2>4. OldOK(b, new) /\ FreshOK(b, new)
    BY <1>2, <1>8, <1>11 DEF ScanOK, OldOK, FreshOK, Deciding, Decided
  <2> QED BY <2>1, <2>2, <2>3, <2>4 DEF ScanOK
<1> QED BY <1>9, <1>10, <1>11 DEF Sound

\* The next step at the same entry keeps the invariant if what it has to know
\* about earlier runs of the identity is known.
LEMMA GotoSound ==
  ASSUME TypeOK, NEW b \in Branches, NEW to \in Working \ {"jobs"}, Goto(b, to),
         scan[b].step \in Working \cup {"next"}, scan[b].queue # <<>>,
         ScanOK(b, scan[b]) => OldOK(b, [scan[b] EXCEPT !.step = to]),
         to = "dispatch" => tip[b] = scan[b].base
  PROVE  \E new : Set(b, new) /\ Sound(b, new)
<1> DEFINE new == [scan[b] EXCEPT !.step = to]
<1>1. Set(b, new)
  BY DEF Goto
<1>2. scan[b] \in Scan /\ to \in Steps
  BY ScanHere DEF Working, Steps
<1>3. /\ new \in Scan /\ new.step = to
      /\ new.base = scan[b].base /\ new.listed = scan[b].listed /\ new.page = scan[b].page
      /\ new.full = scan[b].full /\ new.queue = scan[b].queue
  BY <1>2, GotoParts
<1>4. ScanOK(b, scan[b]) => OldOK(b, new)
  OBVIOUS
<1> HIDE DEF new
<1>5. ScanType(new)
  BY <1>3 DEF ScanType
<1>6. FreshOK(b, new)
  BY <1>3 DEF FreshOK
<1>7. ScanOK(b, scan[b]) => BeenOK(b, new) /\ ListedOK(new) /\ PageOK(new) /\ KnownOK(b, new)
  BY <1>3, SameEntry
<1>8. ScanOK(b, scan[b]) => ScanOK(b, new)
  BY <1>4, <1>6, <1>7 DEF ScanOK
<1> QED BY <1>1, <1>5, <1>8 DEF Sound

LEMMA SkipSound ==
  ASSUME TypeOK, NEW b \in Branches, SkipPull(b),
         scan[b].step \in Working \cup {"next"}, scan[b].queue # <<>>
  PROVE  \E new : Set(b, new) /\ Sound(b, new)
BY NextPullSound DEF SkipPull

LEMMA NextEntrySound ==
  ASSUME TypeOK, NEW b \in Branches, NextEntry(b)
  PROVE  \E new : Set(b, new) /\ Sound(b, new)
<1>1. scan[b].step = "next" /\ scan[b] \in Scan
  BY ScanHere DEF NextEntry, At
<1>2. CASE scan[b].full /\ Goto(b, "pulls")
  <2> DEFINE new == [scan[b] EXCEPT !.step = "pulls"]
  <2>1. Set(b, new)
    BY <1>2 DEF Goto
  <2>2. new \in Scan /\ new.step = "pulls"
    BY <1>1, GotoParts DEF Steps
  <2> HIDE DEF new
  <2>3. ScanType(new)
    BY <2>2 DEF ScanType, Working
  <2>4. ~ScanOK(b, scan[b])
    BY <1>2 DEF ScanOK, PageOK
  <2> QED BY <2>1, <2>3, <2>4 DEF Sound
<1>3. CASE Stop(b)
  BY <1>3, StopSound DEF Stop
<1>4. CASE scan[b].queue # <<>> /\ SkipPull(b)
  BY <1>1, <1>4, SkipSound
<1>5. CASE scan[b].queue # <<>> /\ Goto(b, "files")
  <2>1. ScanOK(b, scan[b]) => OldOK(b, [scan[b] EXCEPT !.step = "files"])
    BY <1>1, GotoParts DEF ScanOK, OldOK, Deciding, Decided, Steps
  <2> QED BY <1>1, <1>5, <2>1, GotoSound DEF Working
<1> QED BY <1>2, <1>3, <1>4, <1>5 DEF NextEntry

LEMMA ReadFilesSound ==
  ASSUME TypeOK, NEW b \in Branches, ReadFiles(b)
  PROVE  \E new : Set(b, new) /\ Sound(b, new)
<1>1. scan[b].step = "files" /\ scan[b] \in Scan /\ scan[b].queue # <<>>
  BY ScanHere DEF ReadFiles, At, Working
<1>2. CASE SkipPull(b)
  BY <1>1, <1>2, SkipSound DEF Working
<1>3. CASE Goto(b, "initial")
  <2>1. ScanOK(b, scan[b]) => OldOK(b, [scan[b] EXCEPT !.step = "initial"])
    BY <1>1, GotoParts DEF ScanOK, OldOK, Deciding, Decided, Steps
  <2> QED BY <1>1, <1>3, <2>1, GotoSound DEF Working
<1> QED BY <1>2, <1>3 DEF ReadFiles

\* Every run dispatched for this identity is among the previous runs read.
LEMMA PreviousComplete ==
  ASSUME TypeOK, NEW b \in Branches, ScanOK(b, scan[b]), scan[b].step = "initial",
         NEW r \in Runs, Dispatched(r, b, scan[b].base), run[r].pr = Cur(b).number,
         run[r].head = Cur(b).head
  PROVE  \E x \in Previous(b) : x.id = r
<1>1. scan[b] \in Scan /\ scan[b].queue # <<>>
  BY ScanHere DEF Working
<1>2. 1 \in 1..Len(scan[b].queue) /\ scan[b].queue[1] = Cur(b)
  BY <1>1, QueueParts DEF Cur
<1>3. PICK x \in scan[b].listed : x.id = r
  BY <1>2 DEF ScanOK, KnownOK, Working
<1>4. Identity(run[r]) = <<Cur(b).number, Cur(b).head, scan[b].base, b>>
  BY DEF Identity, Dispatched
<1>5. Identity(x.was) = Identity(run[r])
  BY <1>3 DEF ScanOK, ListedOK, Gone
<1> QED BY <1>3, <1>4, <1>5 DEF Previous

\* The one failed run found has not been started again as a first attempt.
LEMMA PreviousGone ==
  ASSUME TypeOK, NEW b \in Branches, ScanOK(b, scan[b]), NEW x \in Previous(b)
  PROVE  x.id \in Runs /\ Exists(x.id) /\ Gone(run[x.id], x.was)
<1>1. CASE x \in scan[b].listed
  <2>1. scan[b].listed \in SUBSET [id : Runs, was : Run]
    BY ScanHere DEF Scan
  <2> QED BY <1>1, <2>1 DEF ScanOK, ListedOK
<1>2. CASE x \notin scan[b].listed
  <2>1. PICK r \in Runs : Exists(r) /\ x = [id |-> r, was |-> run[r]]
    BY <1>2 DEF Previous, Snapshot
  <2>2. run[r] \in Run
    BY <2>1 DEF TypeOK, Exists
  <2> QED BY <2>1, <2>2, Unmoved DEF Onward
<1> QED BY <1>1, <1>2

\* No run of the identity, or the one that may be repeated.
LEMMA ReadRunsSound ==
  ASSUME TypeOK, NEW b \in Branches, ReadRuns(b)
  PROVE  \E new : Set(b, new) /\ Sound(b, new)
<1>1. scan[b].step = "initial" /\ scan[b] \in Scan /\ scan[b].queue # <<>>
  BY ScanHere DEF ReadRuns, At, Working
<1>2. CASE SkipPull(b)
  BY <1>1, <1>2, SkipSound DEF Working
<1>3. CASE Previous(b) = {} /\ Goto(b, "plan")
  <2>1. ASSUME ScanOK(b, scan[b]) PROVE OldOK(b, [scan[b] EXCEPT !.step = "plan"])
    <3> DEFINE new == [scan[b] EXCEPT !.step = "plan"]
    <3>1. /\ new.base = scan[b].base /\ new.queue = scan[b].queue /\ new.old = scan[b].old
          /\ new.step = "plan"
      BY <1>1, GotoParts DEF Steps
    <3> HIDE DEF new
    <3>2. new.old = None
      BY <1>1, <2>1, <3>1 DEF ScanOK, OldOK, Deciding, Decided
    <3>3. \A r \in Runs : ~(Dispatched(r, b, scan[b].base) /\ run[r].pr = Cur(b).number
                              /\ run[r].head = Cur(b).head)
      BY <1>1, <1>3, <2>1, PreviousComplete
    <3>4. OldOK(b, new)
      BY <3>1, <3>2, <3>3 DEF OldOK, Cur, Deciding, Decided
    <3> QED BY <3>4 DEF new
  <2> QED BY <1>1, <1>3, <2>1, GotoSound DEF Working
<1>4. ASSUME NEW x \in Previous(b), Previous(b) = {x}, Retriable(x),
             Set(b, [scan[b] EXCEPT !.step = "jobs", !.old = x.id])
      PROVE  \E new : Set(b, new) /\ Sound(b, new)
  <2> DEFINE new == [scan[b] EXCEPT !.step = "jobs", !.old = x.id]
  <2>1. x.id \in Runs
    <3>1. scan[b].listed \in SUBSET [id : Runs, was : Run]
      BY <1>1 DEF Scan
    <3> QED BY <3>1 DEF Previous, Snapshot
  <2>2. /\ new \in Scan /\ new.step = "jobs" /\ new.old = x.id
        /\ new.base = scan[b].base /\ new.listed = scan[b].listed /\ new.page = scan[b].page
        /\ new.full = scan[b].full /\ new.queue = scan[b].queue
    BY <1>1, <2>1 DEF Scan, Steps
  <2>3. Set(b, new)
    BY <1>4
  <2> HIDE DEF new
  <2>4. ScanType(new)
    BY <1>1, <2>1, <2>2 DEF ScanType
  <2>5. ASSUME ScanOK(b, scan[b]) PROVE ScanOK(b, new)
    <3>1. BeenOK(b, new) /\ ListedOK(new) /\ PageOK(new) /\ KnownOK(b, new)
      BY <1>1, <2>2, <2>5, SameEntry DEF Working
    <3>2. Exists(x.id) /\ Gone(run[x.id], x.was)
      BY <2>5, PreviousGone
    <3>3. run[x.id].active => run[x.id].attempt > 1
      BY <1>4, <3>2 DEF Retriable, Gone
    <3>4. \A r \in Runs : Dispatched(r, b, scan[b].base) /\ run[r].pr = Cur(b).number
                            /\ run[r].head = Cur(b).head => r = x.id
      BY <1>1, <1>4, <2>5, PreviousComplete
    <3>5. OldOK(b, new)
      BY <2>2, <3>2, <3>3, <3>4 DEF OldOK, Cur, Deciding, Decided
    <3>6. FreshOK(b, new)
      BY <2>2 DEF FreshOK
    <3> QED BY <3>1, <3>5, <3>6 DEF ScanOK
  <2> QED BY <2>3, <2>4, <2>5 DEF Sound
<1> QED BY <1>2, <1>3, <1>4 DEF ReadRuns

\* From here on that run has executed no proof.
LEMMA ReadJobsSound ==
  ASSUME TypeOK, NEW b \in Branches, ReadJobs(b)
  PROVE  \E new : Set(b, new) /\ Sound(b, new)
<1>1. scan[b].step = "jobs" /\ scan[b] \in Scan /\ scan[b].queue # <<>>
  BY ScanHere DEF ReadJobs, At, Working
<1>2. CASE SkipPull(b)
  BY <1>1, <1>2, SkipSound DEF Working
<1>3. CASE ~run[scan[b].old].executed /\ Goto(b, "plan")
  <2>1. ScanOK(b, scan[b]) => OldOK(b, [scan[b] EXCEPT !.step = "plan"])
    <3> DEFINE new == [scan[b] EXCEPT !.step = "plan"]
    <3>1. /\ new.base = scan[b].base /\ new.queue = scan[b].queue /\ new.old = scan[b].old
          /\ new.step = "plan"
      BY <1>1, GotoParts DEF Steps
    <3> HIDE DEF new
    <3>2. ScanOK(b, scan[b]) => OldOK(b, new)
      BY <1>1, <1>3, <3>1 DEF ScanOK, OldOK, Deciding, Decided
    <3> QED BY <3>2 DEF new
  <2> QED BY <1>1, <1>3, <2>1, GotoSound DEF Working
<1> QED BY <1>2, <1>3 DEF ReadJobs

\* The steps after it change nothing of that.
LEMMA StillOld ==
  ASSUME NEW b \in Branches, NEW new, OldOK(b, scan[b]), scan[b].step \in Decided,
         new.step \in Decided, new.base = scan[b].base, new.queue = scan[b].queue,
         new.old = scan[b].old
  PROVE  OldOK(b, new)
BY DEF OldOK, Deciding, Decided

LEMMA StillOldGoto ==
  ASSUME NEW b \in Branches, NEW to \in Decided, scan[b] \in Scan, OldOK(b, scan[b]),
         scan[b].step \in Decided
  PROVE  OldOK(b, [scan[b] EXCEPT !.step = to])
<1> DEFINE new == [scan[b] EXCEPT !.step = to]
<1>1. /\ new.base = scan[b].base /\ new.queue = scan[b].queue /\ new.old = scan[b].old
      /\ new.step = to
  BY GotoParts DEF Steps, Decided
<1> HIDE DEF new
<1>2. OldOK(b, new)
  BY <1>1, StillOld
<1> QED BY <1>2 DEF new

LEMMA PlanSound ==
  ASSUME TypeOK, NEW b \in Branches, Plan(b)
  PROVE  \E new : Set(b, new) /\ Sound(b, new)
<1>1. scan[b].step = "plan" /\ scan[b] \in Scan /\ scan[b].queue # <<>>
  BY ScanHere DEF Plan, At, Working
<1>2. Cur(b).head \in Heads
  BY <1>1, QueueParts DEF Cur, Entry
<1>3. PICK answer \in {IF Plannable(b) THEN PlanOf[<<Cur(b).head, scan[b].base>>] ELSE "blocked"}
                        \cup (IF Outages THEN {"blocked"} ELSE {}) :
        Set(b, [scan[b] EXCEPT !.step = "current", !.plan = answer])
  BY DEF Plan
<1> DEFINE new == [scan[b] EXCEPT !.step = "current", !.plan = answer]
<1>4. answer \in {"ready", "not_applicable", "blocked", "failed"}
  <2>1. CASE answer = "blocked"
    BY <2>1
  <2>2. CASE answer # "blocked"
    <3>1. Plannable(b) /\ answer = PlanOf[<<Cur(b).head, scan[b].base>>]
      BY <1>3, <2>2
    <3>2. scan[b].base \in Revs
      <4>1. PICK c : tip[c] = scan[b].base /\ c \in Branches
        <5>1. Cur(b).number \in PRs
          BY <1>1, QueueParts DEF Cur, Entry
        <5> QED BY <3>1, <5>1 DEF Plannable, TypeOK, PullRequest
      <4> QED BY <4>1 DEF TypeOK
    <3> QED BY <1>2, <3>1, <3>2, ResumeAssumption
  <2> QED BY <2>1, <2>2
<1>5. /\ new \in Scan /\ new.step = "current" /\ new.old = scan[b].old
      /\ new.base = scan[b].base /\ new.listed = scan[b].listed /\ new.page = scan[b].page
      /\ new.full = scan[b].full /\ new.queue = scan[b].queue
  BY <1>1, <1>4 DEF Scan, Steps
<1> HIDE DEF new
<1>6. ScanType(new)
  BY <1>1, <1>5 DEF ScanType
<1>7. ASSUME ScanOK(b, scan[b]) PROVE ScanOK(b, new)
  <2>1. BeenOK(b, new) /\ ListedOK(new) /\ PageOK(new) /\ KnownOK(b, new)
    BY <1>1, <1>5, <1>7, SameEntry DEF Working
  <2>2. OldOK(b, new)
    BY <1>1, <1>5, <1>7, StillOld DEF ScanOK, Decided
  <2>3. FreshOK(b, new)
    BY <1>5 DEF FreshOK
  <2> QED BY <2>1, <2>2, <2>3 DEF ScanOK
<1> QED BY <1>3, <1>6, <1>7 DEF Sound, new

LEMMA ReadCurrentSound ==
  ASSUME TypeOK, NEW b \in Branches, ReadCurrent(b)
  PROVE  \E new : Set(b, new) /\ Sound(b, new)
<1>1. scan[b].step = "current" /\ scan[b] \in Scan /\ scan[b].queue # <<>>
  BY ScanHere DEF ReadCurrent, At, Working
<1>2. CASE SkipPull(b)
  BY <1>1, <1>2, SkipSound DEF Working
<1>3. CASE Goto(b, "tip")
  <2>1. ScanOK(b, scan[b]) => OldOK(b, [scan[b] EXCEPT !.step = "tip"])
    BY <1>1, StillOldGoto DEF ScanOK, Decided
  <2> QED BY <1>1, <1>3, <2>1, GotoSound DEF Working
<1> QED BY <1>2, <1>3 DEF ReadCurrent

LEMMA ReadTipSound ==
  ASSUME TypeOK, NEW b \in Branches, ReadTip(b)
  PROVE  \E new : Set(b, new) /\ Sound(b, new)
<1>1. scan[b].step = "tip" /\ scan[b] \in Scan /\ scan[b].queue # <<>>
  BY ScanHere DEF ReadTip, At, Working
<1>2. CASE SkipPull(b)
  BY <1>1, <1>2, SkipSound DEF Working
<1>3. CASE Stop(b)
  BY <1>3, StopSound DEF Stop
<1>4. CASE OnTip(b) /\ Goto(b, "dispatch")
  <2>1. ScanOK(b, scan[b]) => OldOK(b, [scan[b] EXCEPT !.step = "dispatch"])
    BY <1>1, StillOldGoto DEF ScanOK, Decided
  <2> QED BY <1>1, <1>4, <2>1, GotoSound DEF Working, OnTip
<1> QED BY <1>2, <1>3, <1>4 DEF ReadTip

LEMMA QuietSound ==
  ASSUME TypeOK, NEW b \in Branches, Wake(b) \/ Invocation(b) \/ Abort(b), ~Dispatch(b)
  PROVE  \E new : Set(b, new) /\ Sound(b, new)
<1>1. CASE Wake(b)
  BY <1>1, WakeSound DEF Wake
<1>2. CASE Abort(b)
  BY <1>2, StopSound DEF Abort, Stop
<1>3. CASE Invocation(b)
  BY <1>3, ReadBranchSound, ListRunsSound, ListPullsSound, NextEntrySound, ReadFilesSound,
     ReadRunsSound, ReadJobsSound, PlanSound, ReadCurrentSound, ReadTipSound DEF Invocation
<1> QED BY <1>1, <1>2, <1>3

-----------------------------------------------------------------------------
(***************************************************************************)
(* What the rest of the world does to what an invocation remembers.         *)
(***************************************************************************)

\* A new run of the scheduler of b is of no entry a scan still has to look at.
Settled(r, b, s) ==
  \/ run'[r].by # "scheduler" \/ run'[r].branch # b
  \/ s.step = "next" /\ \A i \in 1..Len(s.queue) : s.queue[i].number # run'[r].pr

LEMMA ScanKept ==
  ASSUME TypeOK, HistoryOK, RunType, Later, NEW b \in Branches, NEW s \in Scan, ScanOK(b, s),
         \A r \in Runs : ~Exists(r) /\ run'[r] # None => Settled(r, b, s),
         been[b] \subseteq been'[b], tip'[b] = tip[b] \/ tip'[b] \notin been[b]
  PROVE  ScanOK(b, s)'
<1>1. ASSUME NEW r \in Runs, Exists(r)
      PROVE  /\ run[r] \in Run /\ run'[r] \in Run /\ Exists(r)' /\ Onward(run'[r], run[r])
             /\ run'[r].by = run[r].by /\ run'[r].pr = run[r].pr /\ run'[r].head = run[r].head
             /\ run'[r].base = run[r].base /\ run'[r].branch = run[r].branch
  <2>1. run[r] \in Run /\ Onward(run'[r], run[r])
    BY <1>1 DEF TypeOK, Exists, Later
  <2>2. run'[r] \in Run /\ Exists(r)'
    BY <2>1 DEF Onward, Exists, RunType
  <2> QED BY <2>1, <2>2 DEF Onward, Gone, Identity
<1>2. BeenOK(b, s)'
  BY DEF ScanOK, BeenOK
<1>3. ListedOK(s)'
  <2> SUFFICES ASSUME NEW x \in s.listed
               PROVE  Exists(x.id)' /\ Gone(run'[x.id], x.was)
    BY DEF ListedOK
  <2>1. x.id \in Runs /\ x.was \in Run
    BY DEF Scan
  <2>2. Exists(x.id) /\ Gone(run[x.id], x.was)
    BY DEF ScanOK, ListedOK
  <2> QED BY <1>1, <2>1, <2>2, GoneOn DEF Onward
<1>4. PageOK(s)'
  BY DEF ScanOK, PageOK
<1>5. ASSUME NEW r \in Runs, NEW rev, Dispatched(r, b, rev)', s.step # "next"
      PROVE  Dispatched(r, b, rev) /\ run'[r].pr = run[r].pr /\ run'[r].head = run[r].head
  <2>1. Exists(r)
    BY <1>5 DEF Dispatched, Settled, Exists
  <2> QED BY <1>1, <1>5, <2>1 DEF Dispatched
<1>6. KnownOK(b, s)'
  <2>1. CASE s.step # "next"
    <3> SUFFICES ASSUME NEW r \in Runs, Dispatched(r, b, s.base)',
                        \/ s.step = "pulls"
                        \/ /\ s.step \in Working
                           /\ \E i \in 1..Len(s.queue) : s.queue[i].number = run'[r].pr
                 PROVE  \E x \in s.listed : x.id = r
      BY <2>1 DEF KnownOK
    <3> QED BY <1>5, <2>1 DEF ScanOK, KnownOK
  <2>2. CASE s.step = "next"
    <3> SUFFICES ASSUME NEW r \in Runs, Dispatched(r, b, s.base)',
                        NEW i \in 1..Len(s.queue), s.queue[i].number = run'[r].pr
                 PROVE  \E x \in s.listed : x.id = r
      BY <2>2 DEF KnownOK, Working
    <3>1. Exists(r)
      BY DEF Dispatched, Settled, Exists
    <3>2. Dispatched(r, b, s.base) /\ run'[r].pr = run[r].pr
      BY <1>1, <3>1 DEF Dispatched
    <3> QED BY <2>2, <3>2 DEF ScanOK, KnownOK
  <2> QED BY <2>1, <2>2
<1>7. OldOK(b, s)'
  <2>1. s.step \notin Deciding => s.old = None
    BY DEF ScanOK, OldOK
  <2>2. ASSUME s.step \in Deciding, NEW r \in Runs, Dispatched(r, b, s.base)',
               run'[r].pr = Head(s.queue).number, run'[r].head = Head(s.queue).head
        PROVE  r = s.old
    <3>1. s.step # "next"
      BY <2>2 DEF Deciding, Decided
    <3> QED BY <1>5, <2>2, <3>1 DEF ScanOK, OldOK
  <2>3. ASSUME s.old # None
        PROVE  /\ Exists(s.old)'
               /\ run'[s.old].active => run'[s.old].attempt > 1
               /\ s.step \in Decided => ~run'[s.old].executed
    <3>1. s.old \in Runs
      BY <2>3 DEF Scan
    <3>2. /\ Exists(s.old)
          /\ run[s.old].active => run[s.old].attempt > 1
          /\ s.step \in Decided => ~run[s.old].executed
      BY <2>3 DEF ScanOK, OldOK
    <3>3. /\ run[s.old] \in Run /\ run'[s.old] \in Run /\ Exists(s.old)'
          /\ Onward(run'[s.old], run[s.old])
      BY <1>1, <3>1, <3>2
    <3>4. run'[s.old].active => run'[s.old].attempt > 1
      <4>1. CASE run[s.old].active
        BY <3>2, <3>3, <4>1, RunParts DEF Onward, Gone
      <4>2. CASE ~run[s.old].active
        BY <3>3, <4>2, RunParts DEF Onward, Gone
      <4> QED BY <4>1, <4>2
    <3>5. s.step \in Decided => ~run'[s.old].executed
      BY <3>2, <3>3, RunParts DEF Onward
    <3> QED BY <3>3, <3>4, <3>5
  <2> QED BY <2>1, <2>2, <2>3 DEF OldOK
<1>8. FreshOK(b, s)'
  <2> SUFFICES ASSUME s.step = "dispatch", tip'[b] # s.base, NEW r \in Runs,
                      Dispatched(r, b, tip[b])'
               PROVE  FALSE
    BY DEF FreshOK
  <2>0. PICK rev : rev = tip'[b]
    OBVIOUS
  <2>1. Dispatched(r, b, rev)
    <3>1. Dispatched(r, b, rev)'
      BY <2>0 DEF Dispatched
    <3> QED BY <1>5, <3>1
  <2>2. CASE tip'[b] = tip[b]
    BY <2>0, <2>1, <2>2 DEF ScanOK, FreshOK
  <2>3. CASE tip'[b] \notin been[b]
    BY <2>0, <2>1, <2>3 DEF HistoryOK, Dispatched
  <2> QED BY <2>2, <2>3
<1> QED BY <1>2, <1>3, <1>4, <1>6, <1>7, <1>8 DEF ScanOK

\* Whoever makes a run makes it at a revision of its branch.
LEMMA HistoryKept ==
  ASSUME TypeOK, HistoryOK, RunType, Later,
         \A b \in Branches : been[b] \subseteq been'[b] /\ tip'[b] \in been'[b],
         \A r \in Runs : ~Exists(r) /\ run'[r] # None => run'[r].base \in been'[run'[r].branch]
  PROVE  HistoryOK'
<1> SUFFICES ASSUME NEW r \in Runs, run'[r] # None
             PROVE  run'[r].base \in been'[run'[r].branch]
  BY DEF HistoryOK, Exists
<1>1. CASE Exists(r)
  <2>1. run[r] \in Run
    BY <1>1 DEF TypeOK, Exists
  <2>2. run'[r].base = run[r].base /\ run'[r].branch = run[r].branch
    BY <1>1 DEF Later, Onward, Gone, Identity
  <2> QED BY <1>1, <2>1, <2>2 DEF HistoryOK, Run
<1> QED BY <1>1

-----------------------------------------------------------------------------
(***************************************************************************)
(* Every step.                                                              *)
(***************************************************************************)

\* What holds of a step apart from the memory of the invocations.
WorldOK ==
  /\ TypeOK' /\ RunType /\ Later
  /\ \A b \in Branches :
       /\ been[b] \subseteq been'[b] /\ (tip'[b] = tip[b] \/ tip'[b] \notin been[b])
       /\ tip[b] \in been[b] => tip'[b] \in been'[b]
  /\ HistoryOK =>
       \A r \in Runs : ~Exists(r) /\ run'[r] # None => run'[r].base \in been'[run'[r].branch]

LEMMA SameRuns ==
  ASSUME TypeOK, run' = run
  PROVE  RunType /\ Later /\ \A r \in Runs : run'[r] # None => Exists(r)
<1>1. \A r \in Runs : Exists(r) => run[r] \in Run
  BY DEF TypeOK, Exists
<1> QED BY <1>1, Unmoved DEF RunType, Later, TypeOK, Exists

\* People start runs and move pull requests; none of these runs is the scheduler's.
LEMMA PullMoveOK ==
  ASSUME TypeOK, NEW p \in PRs, PullMove(p)
  PROVE  /\ WorldOK /\ scan' = scan
         /\ \A r \in Runs : ~Exists(r) /\ run'[r] # None => run'[r].by # "scheduler"
<1>0. /\ pr[p] \in PullRequest
      /\ \A b \in Branches : been[b] \subseteq Revs /\ tip[b] \in Revs
  BY DEF TypeOK
<1>1. ASSUME NEW new \in PullRequest, Event(p, new)
      PROVE  /\ WorldOK /\ scan' = scan
             /\ \A r \in Runs : ~Exists(r) /\ run'[r] # None => run'[r].by # "scheduler"
  <2>1. PICK rev \in been[new.base] : NewRun("event", p, new.head, rev, new.base)
    BY <1>1 DEF Event
  <2>2. new.base \in Branches /\ new.head \in Heads \cup {None} /\ rev \in Revs
    BY <1>0, <1>1, <2>1 DEF PullRequest
  <2>3. /\ RunType /\ Later
        /\ \A r \in Runs : ~Exists(r) /\ run'[r] # None =>
             run'[r].by = "event" /\ run'[r].base = rev /\ run'[r].branch = new.base
    BY <2>1, <2>2, NewRunOK
  <2>4. pr' \in [PRs -> PullRequest] /\ UNCHANGED <<tip, been, guarded, scan>>
    BY <1>1 DEF Event, TypeOK
  <2>5. TypeOK'
    BY <2>3, <2>4 DEF TypeOK, RunType, At
  <2> QED BY <2>1, <2>3, <2>4, <2>5 DEF WorldOK
<1>2. ASSUME NEW new \in PullRequest, Quiet(p, new)
      PROVE  /\ WorldOK /\ scan' = scan
             /\ \A r \in Runs : ~Exists(r) /\ run'[r] # None => run'[r].by # "scheduler"
  <2>1. pr' \in [PRs -> PullRequest] /\ UNCHANGED <<tip, been, guarded, run, scan>>
    BY <1>2 DEF Quiet, TypeOK
  <2>2. TypeOK'
    BY <2>1 DEF TypeOK, At
  <2> QED BY <2>1, <2>2, SameRuns DEF WorldOK
<1>3. CASE \E b \in Branches : Manual(p, b)
  <2>1. PICK b \in Branches : Manual(p, b)
    BY <1>3
  <2>2. /\ RunType /\ Later
        /\ \A r \in Runs : ~Exists(r) /\ run'[r] # None =>
             run'[r].by = "manual" /\ run'[r].base = tip[b] /\ run'[r].branch = b
    BY <1>0, <2>1, NewRunOK DEF Manual
  <2>3. UNCHANGED <<pr, tip, been, guarded, scan>>
    BY <2>1 DEF Manual, github
  <2>4. TypeOK'
    BY <2>2, <2>3 DEF TypeOK, RunType, At
  <2> QED BY <2>2, <2>3, <2>4 DEF WorldOK, HistoryOK
<1>4. CASE Open(p)
  BY <1>0, <1>1, <1>4 DEF Open, PullRequest
<1>5. CASE \E h \in Heads : Push(p, h)
  <2>1. PICK h \in Heads : Push(p, h)
    BY <1>5
  <2> QED BY <1>0, <1>1, <2>1 DEF Push, PullRequest
<1>6. CASE \E b \in Branches : Retarget(p, b)
  <2>1. PICK b \in Branches : Retarget(p, b)
    BY <1>6
  <2> QED BY <1>0, <1>1, <2>1 DEF Retarget, PullRequest
<1>7. CASE Ready(p)
  BY <1>0, <1>1, <1>7 DEF Ready, PullRequest
<1>8. CASE Draft(p)
  BY <1>0, <1>2, <1>8 DEF Draft, PullRequest
<1>9. CASE Close(p)
  BY <1>0, <1>2, <1>9 DEF Close, PullRequest
<1>10. CASE Delete(p)
  BY <1>0, <1>2, <1>10 DEF Delete, PullRequest
<1> QED BY <1>3, <1>4, <1>5, <1>6, <1>7, <1>8, <1>9, <1>10 DEF PullMove

LEMMA BranchMoveOK ==
  ASSUME TypeOK, NEW b \in Branches, BranchMove(b)
  PROVE  WorldOK /\ UNCHANGED <<run, scan>>
<1>1. CASE \E rev \in Revs : Advance(b, rev)
  <2>1. PICK rev \in Revs : Advance(b, rev)
    BY <1>1
  <2>2. /\ rev \notin been[b] /\ UNCHANGED <<pr, guarded, run, scan>>
        /\ tip' = [tip EXCEPT ![b] = rev] /\ been' = [been EXCEPT ![b] = been[b] \cup {rev}]
    BY <2>1 DEF Advance
  <2>3. \A c \in Branches : /\ been[c] \subseteq been'[c]
                            /\ tip'[c] = tip[c] \/ tip'[c] \notin been[c]
                            /\ tip[c] \in been[c] => tip'[c] \in been'[c]
    BY <2>2 DEF TypeOK
  <2>4. TypeOK'
    BY <2>2 DEF TypeOK, At
  <2> QED BY <2>2, <2>3, <2>4, SameRuns DEF WorldOK
<1>2. CASE Protect(b)
  <2>1. TypeOK' /\ UNCHANGED <<tip, been, run, scan>>
    BY <1>2 DEF Protect, TypeOK, At
  <2> QED BY <2>1, SameRuns DEF WorldOK
<1> QED BY <1>1, <1>2 DEF BranchMove

\* A dispatch makes one run, of the scheduler, for the entry it is done with.
LEMMA DispatchOK ==
  ASSUME TypeOK, NEW b \in Branches, Dispatch(b)
  PROVE  /\ WorldOK /\ scan' = [scan EXCEPT ![b] = NextPull(scan[b])]
         /\ scan[b].step = "dispatch" /\ scan[b] \in Scan /\ scan[b].queue # <<>>
         /\ \A r \in Runs : ~Exists(r) /\ run'[r] # None =>
              /\ run'[r].by = "scheduler" /\ run'[r].base = tip[b] /\ run'[r].branch = b
              /\ run'[r].pr = Cur(b).number /\ run'[r].head = Cur(b).head
<1>1. scan[b].step = "dispatch" /\ scan[b] \in Scan /\ scan[b].queue # <<>>
  BY ScanHere DEF Dispatch, At, Working
<1>2. Cur(b).number \in PRs /\ Cur(b).head \in Heads \cup {None} /\ tip[b] \in Revs
  BY <1>1, QueueParts DEF Cur, Entry, TypeOK
<1>3. NewRun("scheduler", Cur(b).number, Cur(b).head, tip[b], b)
  BY DEF Dispatch
<1>4. /\ RunType /\ Later
      /\ \A r \in Runs : ~Exists(r) /\ run'[r] # None =>
           /\ run'[r].by = "scheduler" /\ run'[r].base = tip[b] /\ run'[r].branch = b
           /\ run'[r].pr = Cur(b).number /\ run'[r].head = Cur(b).head
  BY <1>2, <1>3, NewRunOK
<1>5. scan' = [scan EXCEPT ![b] = NextPull(scan[b])] /\ UNCHANGED <<pr, tip, been, guarded>>
  BY DEF Dispatch, github
<1>6. NextPull(scan[b]) \in Scan /\ ScanType(NextPull(scan[b]))
  BY <1>1, NextPullType DEF ScanType, Working
<1>7. TypeOK'
  BY <1>4, <1>5, <1>6 DEF TypeOK, RunType, ScanType, At
<1> QED BY <1>1, <1>4, <1>5, <1>7 DEF WorldOK, HistoryOK

LEMMA TypeInit == Init => TypeOK
<1> SUFFICES ASSUME Init PROVE TypeOK
  OBVIOUS
<1> QED BY IdleType DEF Init, TypeOK, At, ScanType

LEMMA TypeNext == TypeOK /\ [Next]_vars => TypeOK'
<1> SUFFICES ASSUME TypeOK, [Next]_vars PROVE TypeOK'
  OBVIOUS
<1>1. CASE UNCHANGED vars
  BY <1>1 DEF vars, TypeOK, At
<1>2. ASSUME NEW p \in PRs, PullMove(p) PROVE TypeOK'
  BY <1>2, PullMoveOK DEF WorldOK
<1>3. ASSUME NEW r \in Runs, RunMove(r) PROVE TypeOK'
  BY <1>3, RunMoveOK DEF TypeOK, RunType, github, At
<1>4. ASSUME NEW b \in Branches, BranchMove(b) PROVE TypeOK'
  BY <1>4, BranchMoveOK DEF WorldOK
<1>5. ASSUME NEW b \in Branches, Dispatch(b) PROVE TypeOK'
  BY <1>5, DispatchOK DEF WorldOK
<1>6. ASSUME NEW b \in Branches, Wake(b) \/ Invocation(b) \/ Abort(b), ~Dispatch(b) PROVE TypeOK'
  BY <1>6, QuietSound, ScanStep DEF Sound
<1> QED BY <1>1, <1>2, <1>3, <1>4, <1>5, <1>6 DEF Next

\* What an invocation remembers always fits together: a step at an entry has the
\* entry, and the look at the jobs has the run to look at (resume.py:35-70).
THEOREM ResumeType == Spec => []TypeOK
BY TypeInit, TypeNext, PTL DEF Spec

-----------------------------------------------------------------------------
(***************************************************************************)
(* Once per identity.                                                       *)
(***************************************************************************)

LEMMA IInvInit == Init => IInv
<1> SUFFICES ASSUME Init PROVE IInv
  OBVIOUS
<1>1. TypeOK
  BY TypeInit
<1>2. HistoryOK
  BY DEF Init, HistoryOK, Exists
<1>3. ASSUME NEW b \in Branches PROVE ScanOK(b, scan[b])
  <2>1. scan[b] = Idle
    BY DEF Init
  <2>2. /\ Idle.step = "idle" /\ Idle.listed = {} /\ Idle.full = FALSE
        /\ Len(Idle.queue) = 0 /\ Idle.old = None
    BY DEF Idle
  <2> QED BY <2>1, <2>2 DEF ScanOK, BeenOK, ListedOK, PageOK, KnownOK, OldOK, FreshOK, Working,
                            Deciding, Decided
<1> QED BY <1>1, <1>2, <1>3 DEF IInv

\* The world's steps keep what every invocation remembers.
LEMMA WorldKeeps ==
  ASSUME IInv, WorldOK, scan' = scan,
         \A r \in Runs : ~Exists(r) /\ run'[r] # None => run'[r].by # "scheduler"
  PROVE  IInv'
<1>1. HistoryOK'
  BY HistoryKept DEF IInv, WorldOK, HistoryOK
<1>2. ASSUME NEW b \in Branches PROVE ScanOK(b, scan[b])'
  <2>1. PICK s \in Scan : s = scan[b] /\ ScanOK(b, s)
    BY ScanHere DEF IInv
  <2>2. \A r \in Runs : ~Exists(r) /\ run'[r] # None => Settled(r, b, s)
    BY DEF Settled
  <2>3. ScanOK(b, s)'
    BY <2>1, <2>2, ScanKept DEF IInv, WorldOK
  <2> QED BY <2>1, <2>3
<1> QED BY <1>1, <1>2 DEF IInv, WorldOK

LEMMA IInvNext == IInv /\ OnePage /\ [Next]_vars => IInv'
<1> SUFFICES ASSUME IInv, OnePage, [Next]_vars PROVE IInv'
  OBVIOUS
<1>0. TypeOK /\ HistoryOK /\ \A b \in Branches : ScanOK(b, scan[b])
  BY DEF IInv
<1>1. CASE UNCHANGED vars
  <2>1. WorldOK
    BY <1>0, <1>1, TypeNext, SameRuns DEF WorldOK, vars
  <2> QED BY <1>1, <2>1, WorldKeeps DEF vars, Exists
<1>2. ASSUME NEW p \in PRs, PullMove(p) PROVE IInv'
  BY <1>0, <1>2, PullMoveOK, WorldKeeps
<1>3. ASSUME NEW r \in Runs, RunMove(r) PROVE IInv'
  <2>1. /\ RunType /\ Later /\ UNCHANGED <<github, scan>>
        /\ \A s \in Runs : run'[s] # None => Exists(s)
    BY <1>0, <1>3, RunMoveOK
  <2>2. TypeOK'
    BY <1>0, <2>1 DEF TypeOK, RunType, github, At
  <2>3. WorldOK
    BY <1>0, <2>1, <2>2 DEF WorldOK, github
  <2> QED BY <2>1, <2>3, WorldKeeps
<1>4. ASSUME NEW b \in Branches, BranchMove(b) PROVE IInv'
  BY <1>0, <1>4, BranchMoveOK, WorldKeeps DEF Exists
<1>5. ASSUME NEW b \in Branches, Dispatch(b) PROVE IInv'
  <2> DEFINE s == scan[b]  new == NextPull(s)
  <2>1. /\ WorldOK /\ scan' = [scan EXCEPT ![b] = new]
        /\ s.step = "dispatch" /\ s \in Scan /\ s.queue # <<>>
        /\ \A r \in Runs : ~Exists(r) /\ run'[r] # None =>
              /\ run'[r].by = "scheduler" /\ run'[r].branch = b /\ run'[r].pr = Cur(b).number
    BY <1>0, <1>5, DispatchOK
  <2>2. /\ new \in Scan /\ new.step = "next" /\ new.queue = Tail(s.queue)
    BY <2>1, NextPullType
  <2>3. ScanOK(b, new)
    BY <1>0, <2>1, NextPullSound DEF Sound, Working
  <2>4. ASSUME NEW i \in 1..Len(new.queue) PROVE new.queue[i].number # Cur(b).number
    <3>1. /\ Cur(b) = s.queue[1] /\ Len(s.queue) \in Nat \ {0}
          /\ Len(new.queue) = Len(s.queue) - 1 /\ new.queue[i] = s.queue[i + 1]
      BY <2>1, <2>2, QueueParts DEF Cur
    <3>2. 1 \in 1..Len(s.queue) /\ i + 1 \in 1..Len(s.queue) /\ i + 1 # 1
      BY <3>1
    <3> QED BY <1>0, <3>1, <3>2 DEF ScanOK, PageOK
  <2>5. \A r \in Runs : ~Exists(r) /\ run'[r] # None => Settled(r, b, new)
    BY <2>1, <2>2, <2>4 DEF Settled
  <2>6. PICK t \in Scan : t = new
    BY <2>2
  <2>7. ScanOK(b, t)'
    BY <1>0, <2>1, <2>3, <2>5, <2>6, ScanKept DEF WorldOK
  <2>8. ScanOK(b, scan[b])'
    BY <1>0, <2>1, <2>6, <2>7 DEF TypeOK
  <2>9. ASSUME NEW c \in Branches \ {b} PROVE ScanOK(c, scan[c])'
    <3>1. PICK u \in Scan : u = scan[c] /\ ScanOK(c, u)
      BY <1>0, ScanHere
    <3>2. \A r \in Runs : ~Exists(r) /\ run'[r] # None => Settled(r, c, u)
      BY <2>1 DEF Settled
    <3>3. ScanOK(c, u)'
      BY <1>0, <2>1, <3>1, <3>2, ScanKept DEF WorldOK
    <3> QED BY <1>0, <2>1, <3>1, <3>3 DEF TypeOK
  <2>10. HistoryOK'
    BY <1>0, <2>1, HistoryKept DEF WorldOK, HistoryOK
  <2> QED BY <2>1, <2>8, <2>9, <2>10 DEF IInv, WorldOK
<1>6. ASSUME NEW b \in Branches, Wake(b) \/ Invocation(b) \/ Abort(b), ~Dispatch(b) PROVE IInv'
  <2>1. PICK new : Set(b, new) /\ Sound(b, new)
    BY <1>0, <1>6, QuietSound
  <2>2. /\ TypeOK' /\ UNCHANGED <<github, run>> /\ scan'[b] = new
        /\ \A c \in Branches \ {b} : scan'[c] = scan[c]
    BY <1>0, <2>1, ScanStep DEF Sound
  <2>3. ScanOK(b, new)
    BY <1>0, <2>1 DEF Sound
  <2>4. HistoryOK'
    BY <1>0, <2>2 DEF HistoryOK, Exists, github
  <2>5. ASSUME NEW c \in Branches PROVE ScanOK(c, scan[c])'
    <3>1. PICK t : t = scan'[c]
      OBVIOUS
    <3>2. ScanOK(c, t)
      BY <1>0, <2>2, <2>3, <3>1
    <3>3. ScanOK(c, t)'
      BY <2>2, <3>2 DEF ScanOK, BeenOK, ListedOK, PageOK, KnownOK, OldOK, FreshOK, Dispatched,
                        Exists, github
    <3> QED BY <3>1, <3>3
  <2> QED BY <2>2, <2>4, <2>5 DEF IInv
<1> QED BY <1>1, <1>2, <1>3, <1>4, <1>5, <1>6 DEF Next

\* What an invocation remembers of the runs is enough, as long as the open pull
\* requests of each branch fit on one page of the listing.
THEOREM ResumeInvariant == Spec /\ []OnePage => []IInv
BY IInvInit, IInvNext, PTL DEF Spec

\* A step that makes a run of the scheduler makes it for an identity without one, or
\* with one that failed before a proof.
LEMMA MadeOnce ==
  ASSUME IInv, Next, NEW r \in Runs, Made(r)
  PROVE  /\ Cardinality(Earlier(r)) <= 1
         /\ \A s \in Earlier(r) : ~run[s].executed /\ (run[s].active => run[s].attempt > 1)
<1>0. TypeOK /\ HistoryOK /\ \A b \in Branches : ScanOK(b, scan[b])
  BY DEF IInv
<1>1. ~Exists(r) /\ run'[r] # None /\ run'[r].by = "scheduler"
  BY DEF Made
<1>2. PICK b \in Branches : Dispatch(b)
  <2>1. ~ \E p \in PRs : PullMove(p)
    BY <1>0, <1>1, PullMoveOK
  <2>2. ~ \E s \in Runs : RunMove(s)
    BY <1>0, <1>1, RunMoveOK
  <2>3. ~ \E b \in Branches : BranchMove(b)
    BY <1>0, <1>1, BranchMoveOK DEF Exists
  <2>4. ASSUME NEW b \in Branches, Wake(b) \/ Invocation(b) \/ Abort(b), ~Dispatch(b) PROVE FALSE
    <3>1. run' = run
      BY <1>0, <2>4, QuietSound, ScanStep DEF Sound
    <3> QED BY <1>1, <3>1 DEF Exists
  <2> QED BY <2>1, <2>2, <2>3, <2>4 DEF Next
<1>3. /\ scan[b].step = "dispatch" /\ scan[b] \in Scan
      /\ run'[r].base = tip[b] /\ run'[r].branch = b
      /\ run'[r].pr = Cur(b).number /\ run'[r].head = Cur(b).head
  BY <1>0, <1>1, <1>2, DispatchOK
<1>4. ASSUME NEW s \in Earlier(r)
      PROVE  /\ s \in Runs /\ Dispatched(s, b, tip[b])
             /\ run[s].pr = Cur(b).number /\ run[s].head = Cur(b).head
  BY <1>3 DEF Earlier, Dispatched, Identity
<1>5. ASSUME NEW s \in Earlier(r)
      PROVE  s = scan[b].old /\ ~run[s].executed /\ (run[s].active => run[s].attempt > 1)
  <2>1. tip[b] = scan[b].base
    BY <1>0, <1>3, <1>4, <1>5 DEF ScanOK, FreshOK
  <2>2. s = scan[b].old
    BY <1>0, <1>3, <1>4, <1>5, <2>1 DEF ScanOK, OldOK, Cur, Deciding, Decided
  <2>3. scan[b].old # None
    BY <1>4, <1>5, <2>2, Constants
  <2> QED BY <1>0, <1>3, <2>2, <2>3 DEF ScanOK, OldOK, Decided
<1>6. Cardinality(Earlier(r)) <= 1
  <2>1. CASE Earlier(r) = {}
    BY <2>1, FS_EmptySet
  <2>2. CASE Earlier(r) # {}
    <3>1. Earlier(r) = {scan[b].old}
      BY <1>5, <2>2
    <3>2. Cardinality({scan[b].old}) = 1
      BY FS_Singleton
    <3> QED BY <3>1, <3>2
  <2> QED BY <2>1, <2>2
<1> QED BY <1>5, <1>6

\* The scheduler dispatches an identity (pull request, head, base revision, branch)
\* once, and once more only after that run failed without executing a proof, with
\* any number of pull requests, branches and maintainers at work meanwhile
\* (resume.py:59-74, docs/simplified-intake.md:60-65).
THEOREM OncePerIdentity == Spec /\ []OnePage => DispatchedOnce
<1>1. IInv /\ [Next]_vars =>
        [\A r \in Runs : Made(r) =>
           /\ Cardinality(Earlier(r)) <= 1
           /\ \A s \in Earlier(r) : ~run[s].executed /\ (run[s].active => run[s].attempt > 1)]_vars
  BY MadeOnce
<1> QED BY <1>1, ResumeInvariant, PTL DEF Spec, DispatchedOnce
=============================================================================
