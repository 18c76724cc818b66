---------------------------- MODULE Publication ----------------------------
(***************************************************************************)
(* The operator commands "candidate submit" and "candidate publish"          *)
(* (verifier/candidate.py) against the protected default branch.  Submit     *)
(* proposes a candidate; publish merges the candidate's pull request,        *)
(* generates the registration table and the acceptance index from the        *)
(* branch, proposes both in a pull request of its own, waits for checks and   *)
(* reviews and merges that.  Several operators run commands at the same time, *)
(* others push to, approve, merge and close pull requests, any call may fail, *)
(* and running a command again is the only recovery.                         *)
(*                                                                          *)
(* What accept or import_release decide is Acceptance's business: Sealed     *)
(* holds the candidates whose operator passes an approval or a release tag.   *)
(***************************************************************************)
EXTENDS Naturals, Sequences

CONSTANTS
  Candidates,   \* candidate IDs
  Sealed,       \* those with an acceptance to be indexed
  Operators,    \* commands that may run at the same time
  Numbers,      \* pull request numbers, later ones larger
  None,         \* absent value
  MaxRevisions, \* commits on the default branch (bound)
  MaxFailures,  \* failing calls and interrupted commands (bound)
  Moves         \* what other people do in the instance

VARIABLES
  branch,       \* the revisions of the default branch, the last one its tip
  refs,         \* branches created for changes
  pull,         \* the pull requests, None while they do not exist
  command,      \* what each operator's command is doing
  failures      \* failed calls so far

vars == <<branch, refs, pull, command, failures>>

\* README.md between its markers: the registered candidates and those it shows
\* as accepted.
Table == [rows : SUBSET Candidates, accepted : SUBSET Candidates]
Revision == [registered : SUBSET Candidates, index : SUBSET Candidates, table : Table]

\* The files a change sets: candidates/<id>.json with its bridge, the index, the
\* README, and whether it touches anything else.
Files == [registers : SUBSET Candidates, index : (SUBSET Candidates) \cup {None},
          table : Table \cup {None}, other : BOOLEAN]
NoFiles == [registers |-> {}, index |-> None, table |-> None, other |-> FALSE]
Registers(c) == [NoFiles EXCEPT !.registers = {c}]

\* A head commit: its files on top of the base-th revision.  A ref is named by
\* kind, candidate, base and a hash of the files.
Commit == [base : 1..MaxRevisions, files : Files]
Ref == [kind : {"candidate", "publication"}, candidate : Candidates, head : Commit]
Pull == [ref : Ref, head : Commit, state : {"open", "merged", "closed"}, passed : BOOLEAN]

ASSUME PublicationAssumption ==
  /\ Sealed \subseteq Candidates /\ Numbers \subseteq Nat
  /\ MaxRevisions \in Nat \ {0} /\ MaxFailures \in Nat
  /\ Moves \subseteq {"update", "tamper", "close", "merge", "leave"}
  /\ None \notin Candidates \cup Numbers \cup Table \cup Commit \cup Pull
  /\ \A S \in SUBSET Candidates : S # None

Tip == Len(branch)
Last == branch[Tip]
Exists(n) == pull[n] # None

Apply(rev, files) ==
  [registered |-> rev.registered \cup files.registers,
   index |-> IF files.index = None THEN rev.index ELSE files.index,
   table |-> IF files.table = None THEN rev.table ELSE files.table]

\* mergeable_state is clean: open, required checks and reviews done, and, under
\* strict protection, up to date with the branch.
Clean(n) == pull[n].state = "open" /\ pull[n].passed /\ pull[n].head.base = Tip

Steps == {"idle", "files", "pull", "put", "begin", "snapshot", "list", "ref",
          "recheck", "create", "wait"}
Command == [step : Steps, kind : {"candidate", "publication"},
            candidate : Candidates \cup {None}, base : (1..MaxRevisions) \cup {None},
            files : Files, number : Numbers \cup {None}, head : Commit \cup {None},
            read : Commit \cup {None}]
Idle == [step |-> "idle", kind |-> "publication", candidate |-> None, base |-> None,
         files |-> NoFiles, number |-> None, head |-> None, read |-> None]

At(o, step) == command[o].step = step
Set(o, new) == command' = [command EXCEPT ![o] = new]
Goto(o, step) == Set(o, [command[o] EXCEPT !.step = step])
Stop(o) == Set(o, Idle)
ReadOnly == UNCHANGED <<branch, refs, pull, failures>>
OnTip(o) == command[o].base = Tip
Generated(o) == [base |-> command[o].base, files |-> command[o].files]
RefOf(o) == [kind |-> command[o].kind, candidate |-> command[o].candidate,
             head |-> Generated(o)]

(***************************************************************************)
(* The commands.                                                            *)
(***************************************************************************)
Submit(o, c) ==
  /\ At(o, "idle")
  /\ Set(o, [Idle EXCEPT !.step = "snapshot", !.kind = "candidate", !.candidate = c,
                         !.base = Tip])
  /\ ReadOnly

Publish(o, c) ==
  /\ At(o, "idle")
  /\ Set(o, [Idle EXCEPT !.step = "snapshot", !.candidate = c, !.base = Tip])
  /\ ReadOnly

\* With --pr the candidate's pull request is merged first.
PublishPull(o, c, n) ==
  /\ At(o, "idle") /\ Exists(n)
  /\ Set(o, [Idle EXCEPT !.step = "files", !.candidate = c, !.number = n])
  /\ ReadOnly

\* The pull request must contain this candidate's files and no others.
CheckFiles(o) ==
  /\ At(o, "files")
  /\ \/ /\ pull[command[o].number].head.files = Registers(command[o].candidate)
        /\ Goto(o, "pull")
     \/ /\ pull[command[o].number].head.files # Registers(command[o].candidate)
        /\ Stop(o)
  /\ ReadOnly

(***************************************************************************)
(* merge.  command.head is expected_head, None for the candidate's own       *)
(* pull request.                                                            *)
(***************************************************************************)
\* After the merge, publish goes on from the new tip; a publication is done.
Merged(o) == IF command[o].head = None
             THEN [Idle EXCEPT !.step = "begin", !.candidate = command[o].candidate]
             ELSE Idle

\* Mutated form: the head read is not compared with the expected one.
ExpectedAny(o) == command[o].number # None
Expected(o) == command[o].head \in {None, pull[command[o].number].head}

\* The pull request is read, then the branch.
ReadPull(o) ==
  LET n == command[o].number IN
  /\ At(o, "pull")
  /\ \/ Expected(o) /\ pull[n].state = "merged" /\ Set(o, Merged(o))
     \/ /\ Expected(o) /\ Clean(n)
        /\ Set(o, [command[o] EXCEPT !.step = "recheck", !.base = Tip, !.read = pull[n].head])
     \/ /\ ~Expected(o) \/ (pull[n].state # "merged" /\ ~Clean(n))
        /\ Stop(o)
  /\ ReadOnly

\* GitHub merges exactly the named head, and only while it is clean.
Land(n) ==
  /\ Clean(n) /\ Tip < MaxRevisions
  /\ branch' = Append(branch, Apply(Last, pull[n].head.files))
  /\ pull' = [pull EXCEPT ![n].state = "merged"]

Put(o) ==
  LET n == command[o].number IN
  /\ At(o, "put")
  /\ \/ pull[n].head = command[o].read /\ Land(n) /\ Set(o, Merged(o))
     \/ /\ pull[n].head # command[o].read \/ ~Clean(n)
        /\ Stop(o)
        /\ UNCHANGED <<branch, pull>>
  /\ UNCHANGED <<refs, failures>>

(***************************************************************************)
(* The change a command proposes, from the revision it took as its base.    *)
(***************************************************************************)
Begin(o) ==
  /\ At(o, "begin")
  /\ Set(o, [command[o] EXCEPT !.step = "snapshot", !.base = Tip])
  /\ ReadOnly

Render(rev) == [rows |-> rev.registered, accepted |-> rev.index \cap rev.registered]

\* Mutated forms: the index is started anew; the table is not part of the change.
IndexedOnly(rev, c) == {c} \cap (rev.index \cup Sealed)
PublicationIndexOnly(rev, c) ==
  LET index == rev.index \cup ({c} \cap Sealed) IN
  [NoFiles EXCEPT !.index = IF index = rev.index THEN None ELSE index]

\* The index with this candidate's acceptance, if there is one.
Indexed(rev, c) == rev.index \cup ({c} \cap Sealed)

\* Only files that differ from the revision are part of the change.
PublicationFiles(rev, c) ==
  LET index == Indexed(rev, c)
      table == Render([rev EXCEPT !.index = index]) IN
  [NoFiles EXCEPT !.index = IF index = rev.index THEN None ELSE index,
                  !.table = IF table = rev.table THEN None ELSE table]

\* The revision is read and, since the branch only moves forward, was the tip all
\* along if it still is afterwards.
Snapshot(o) ==
  LET x == command[o]  rev == branch[x.base]
      files == IF x.kind = "candidate" THEN Registers(x.candidate)
                                       ELSE PublicationFiles(rev, x.candidate)
      wanted == (x.candidate \in rev.registered) = (x.kind = "publication") IN
  /\ At(o, "snapshot")
  /\ \/ OnTip(o) /\ wanted /\ files # NoFiles
        /\ Set(o, [x EXCEPT !.step = "list", !.files = files])
     \/ OnTip(o) /\ wanted /\ files = NoFiles /\ Stop(o)  \* synchronized
     \/ ~(OnTip(o) /\ wanted) /\ Stop(o)
  /\ ReadOnly

(***************************************************************************)
(* open_change.                                                             *)
(***************************************************************************)
\* Submit ends with a proposal, publish waits for it to be merged.
\* Mutated form: the number of the pull request is not part of the result.
ProposedUnnumbered(o, n, head) ==
  IF command[o].kind = "candidate" THEN Idle
  ELSE [command[o] EXCEPT !.step = "wait", !.head = head]
Proposed(o, n, head) ==
  IF command[o].kind = "candidate" THEN Idle
  ELSE [command[o] EXCEPT !.step = "wait", !.number = n, !.head = head]

\* An open pull request is taken up if its files are exactly those of the change.
ListPulls(o) ==
  LET found == {n \in Numbers : Exists(n) /\ pull[n].state = "open"
                                  /\ pull[n].ref = RefOf(o)} IN
  /\ At(o, "list")
  /\ \/ found = {} /\ Goto(o, "ref")
     \/ \E n \in found :
          Set(o, IF pull[n].head.files = command[o].files
                 THEN Proposed(o, n, pull[n].head) ELSE Idle)
  /\ ReadOnly

\* GitHub refuses to create a ref that exists.
CreateRef(o) ==
  /\ At(o, "ref")
  /\ \/ /\ RefOf(o) \notin refs
        /\ refs' = refs \cup {RefOf(o)}
        /\ Goto(o, "recheck")
     \/ /\ RefOf(o) \in refs
        /\ Stop(o)
        /\ UNCHANGED refs
  /\ UNCHANGED <<branch, pull, failures>>

\* The branch is read once more before the call that counts, here and in merge.
Recheck(o) ==
  /\ At(o, "recheck")
  /\ \/ OnTip(o) /\ Goto(o, IF command[o].read = None THEN "create" ELSE "put")
     \/ ~OnTip(o) /\ Stop(o)
  /\ ReadOnly

CreatePull(o) ==
  /\ At(o, "create")
  /\ \E n \in Numbers :
       /\ ~Exists(n) /\ \A m \in Numbers : m < n => Exists(m)
       /\ pull' = [pull EXCEPT ![n] = [ref |-> RefOf(o), head |-> Generated(o),
                                       state |-> "open", passed |-> FALSE]]
       /\ Set(o, Proposed(o, n, Generated(o)))
  /\ UNCHANGED <<branch, refs, failures>>

(***************************************************************************)
(* complete_publication: poll until merged, mergeable or out of time.       *)
(***************************************************************************)
Wait(o) ==
  LET x == command[o]  p == pull[x.number] IN
  /\ At(o, "wait")
  /\ \/ "leave" \in Moves /\ Stop(o)  \* --wait-seconds 0
     \/ p.head = x.head /\ Clean(x.number) /\ Goto(o, "pull")
     \/ ~(p.head = x.head /\ Clean(x.number)) /\ Stop(o)
  /\ ReadOnly

Fail(o) ==
  /\ ~At(o, "idle") /\ failures < MaxFailures
  /\ failures' = failures + 1
  /\ Stop(o)
  /\ UNCHANGED <<branch, refs, pull>>

(***************************************************************************)
(* Other people.                                                            *)
(***************************************************************************)
\* Pushes to the branch of a pull request dismiss what it has passed.
Push(n, head) ==
  /\ pull[n].state = "open" /\ head # pull[n].head
  /\ pull' = [pull EXCEPT ![n].head = head, ![n].passed = FALSE]
  /\ UNCHANGED <<branch, refs, command, failures>>

\* The tip is merged into the pull request: impossible where both sides changed a
\* file differently, and a file that is the same on both is no longer a change.
Mergeable(old, tip, new) == new \in {None, tip} \/ tip = old
Update(n) ==
  /\ "update" \in Moves /\ Exists(n)
  /\ LET files == pull[n].head.files  old == branch[pull[n].head.base] IN
     /\ Mergeable(old.index, Last.index, files.index)
     /\ Mergeable(old.table, Last.table, files.table)
     /\ Push(n, [base |-> Tip,
                 files |-> [files EXCEPT !.index = IF @ = Last.index THEN None ELSE @,
                                         !.table = IF @ = Last.table THEN None ELSE @]])

Tamper(n) ==
  /\ "tamper" \in Moves /\ Exists(n)
  /\ Push(n, [pull[n].head EXCEPT !.files.other = TRUE])

\* Checks and required reviews of the head are done.
Pass(n) ==
  /\ Exists(n) /\ pull[n].state = "open" /\ ~pull[n].passed
  /\ pull' = [pull EXCEPT ![n].passed = TRUE]
  /\ UNCHANGED <<branch, refs, command, failures>>

Close(n) ==
  /\ "close" \in Moves /\ Exists(n) /\ pull[n].state = "open"
  /\ pull' = [pull EXCEPT ![n].state = "closed"]
  /\ UNCHANGED <<branch, refs, command, failures>>

MergeElsewhere(n) ==
  /\ "merge" \in Moves /\ Exists(n) /\ Land(n)
  /\ UNCHANGED <<refs, command, failures>>

-----------------------------------------------------------------------------
\* Some candidates may be registered but not yet published.
Init ==
  /\ \E some \in SUBSET Candidates :
       branch = <<[registered |-> some, index |-> {}, table |-> [rows |-> {}, accepted |-> {}]]>>
  /\ refs = {}
  /\ pull = [n \in Numbers |-> None]
  /\ command = [o \in Operators |-> Idle]
  /\ failures = 0

Run(o) ==
  \/ CheckFiles(o) \/ ReadPull(o) \/ Put(o)
  \/ Begin(o) \/ Snapshot(o) \/ ListPulls(o)
  \/ CreateRef(o) \/ Recheck(o) \/ CreatePull(o) \/ Wait(o)

Others(n) == Update(n) \/ Tamper(n) \/ Pass(n) \/ Close(n) \/ MergeElsewhere(n)

Next ==
  \/ \E o \in Operators :
       \/ Run(o) \/ Fail(o)
       \/ \E c \in Candidates : \/ Submit(o, c) \/ Publish(o, c)
                               \/ \E n \in Numbers : PublishPull(o, c, n)
  \/ \E n \in Numbers : Others(n)

Spec == Init /\ [][Next]_vars

\* A command runs to its end, an operator keeps publishing each candidate, and
\* what a pull request waits for is eventually done.
FairSpec ==
  /\ Spec
  /\ \A o \in Operators : WF_vars(Run(o)) /\ \A c \in Candidates : SF_vars(Publish(o, c))
  /\ \A n \in Numbers : WF_vars(Pass(n))
-----------------------------------------------------------------------------
TypeOK ==
  /\ branch \in Seq(Revision) /\ Tip \in 1..MaxRevisions
  /\ refs \subseteq Ref
  /\ pull \in [Numbers -> Pull \cup {None}]
  /\ command \in [Operators -> Command]
  /\ failures \in 0..MaxFailures
  /\ \A o \in Operators : LET x == command[o] IN
       /\ x.step \in {"files", "pull", "put", "wait"} => x.number # None /\ Exists(x.number)
       /\ x.step = "put" => x.read # None
       /\ x.step \in {"snapshot", "list", "ref", "recheck", "create", "put"} =>
            x.base \in 1..Tip

\* README's table shows an acceptance exactly if the index of the same revision has
\* it, and no candidate that is not registered there (candidate.py:281-297), whatever
\* was proposed, pushed and merged meanwhile.
TableAgrees ==
  \A i \in 1..Tip : LET rev == branch[i] IN
    /\ rev.table.accepted = rev.index
    /\ rev.table.rows \subseteq rev.registered /\ rev.index \subseteq rev.registered

\* Nothing registered, indexed or shown is lost again, although publications of
\* several candidates are generated on different revisions, each with a whole index
\* and a whole table of its own (candidate.py:146-171, merge-gate-review.md:5).
NothingLost ==
  \A i \in 1..(Tip - 1) : LET old == branch[i]  new == branch[i + 1] IN
    /\ old.registered \subseteq new.registered /\ old.index \subseteq new.index
    /\ old.table.rows \subseteq new.table.rows

\* A command merges a publication only with the very files it generated or found
\* equal to them (candidate.py:253, 232, 241), also when others push to its branch.
MergesGenerated ==
  [][\A o \in Operators :
       At(o, "put") /\ command[o].head # None /\ command'[o] # command[o] /\ branch' # branch
         => pull[command[o].number].head.files = command[o].files]_vars

Synchronized(c) == c \in Last.table.rows /\ (c \in Sealed => c \in Last.index)

\* "Rerunning reuses the open publication PR or confirms synchronization"
\* (docs/candidate-lifecycle.md:84-85): a registered candidate is published in the
\* end, unless the instance has no revision or pull request left.
RerunSynchronizes ==
  \A c \in Candidates :
    [](c \in Last.registered =>
         <>(Synchronized(c) \/ Tip = MaxRevisions \/ \A n \in Numbers : Exists(n)))
=============================================================================
