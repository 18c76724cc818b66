------------------------- MODULE PublicationProofs -------------------------
(***************************************************************************)
(* Proofs about Publication: its type invariant, that the registration table *)
(* and the index of every revision agree, that nothing published is lost     *)
(* again, and that a command merges only what it generated, for any sets of  *)
(* candidates, operators and pull requests.                                 *)
(***************************************************************************)
EXTENDS Publication, TLAPS

\* A revision whose table shows exactly its index, all of it registered.
Sound(rev) ==
  /\ rev.table.accepted = rev.index
  /\ rev.table.rows \subseteq rev.registered /\ rev.index \subseteq rev.registered

Keeps(old, new) ==
  /\ old.registered \subseteq new.registered /\ old.index \subseteq new.index
  /\ old.table.rows \subseteq new.table.rows

\* A head that, merged on the revision it was made on, gives a sound revision that keeps
\* everything; its index and its table are there only if they differ from that revision's.
HeadOK(h) ==
  /\ h.base \in 1..Tip
  /\ Sound(Apply(branch[h.base], h.files)) /\ Keeps(branch[h.base], Apply(branch[h.base], h.files))
  /\ h.files.index # branch[h.base].index /\ h.files.table # branch[h.base].table

\* A command that has generated its change and not yet made a pull request of it.
Proposing(x) == x.step \in {"list", "ref", "create"} \/ (x.step = "recheck" /\ x.read = None)

\* What a command has established at each step.
CommandOK(x) ==
  /\ x.step # "idle" => x.candidate \in Candidates
  /\ x.step \in {"files", "pull", "put", "wait"} \/ (x.step = "recheck" /\ x.read # None) =>
       x.number \in Numbers /\ Exists(x.number)
  /\ x.step = "put" => x.read # None
  /\ x.step \in {"snapshot", "list", "ref", "recheck", "create", "put"} => x.base \in 1..Tip
  /\ x.step \notin {"recheck", "put"} => x.read = None
  /\ x.step \in {"files", "begin", "snapshot"} => x.head = None
  /\ Proposing(x) => HeadOK([base |-> x.base, files |-> x.files])
  /\ x.head # None => x.head.files = x.files /\ x.read \in {None, x.head}

HistoryOK ==
  /\ \A i \in 1..Tip : Sound(branch[i])
  /\ \A i, j \in 1..Tip : i <= j => Keeps(branch[i], branch[j])

IInv ==
  /\ TypeOK
  /\ HistoryOK
  /\ \A n \in Numbers : Exists(n) => HeadOK(pull[n].head)
  /\ \A o \in Operators : CommandOK(command[o])
-----------------------------------------------------------------------------
USE DEF Tip, Exists

\* What every step leaves to the commands that do not take it: revisions stay as they
\* are and pull requests stay.
Stays ==
  /\ Tip <= Tip' /\ Tip' \in Nat
  /\ \A i \in 1..Tip : branch'[i] = branch[i]
  /\ \A n \in Numbers : Exists(n) => Exists(n)'

LEMMA HeadStays ==
  ASSUME TypeOK, Stays, NEW h, HeadOK(h)
  PROVE  HeadOK(h)'
<1>1. h.base \in 1..Tip /\ h.base \in 1..Tip' /\ branch'[h.base] = branch[h.base]
  BY DEF HeadOK, Stays, TypeOK
<1> QED BY <1>1 DEF HeadOK

LEMMA CommandStays ==
  ASSUME TypeOK, Stays, NEW x \in Command, CommandOK(x)
  PROVE  CommandOK(x)'
<1>1. Proposing(x) => HeadOK([base |-> x.base, files |-> x.files])'
  BY HeadStays DEF CommandOK
<1>2. x.base \in 1..Tip => x.base \in 1..Tip'
  BY DEF Stays, TypeOK
<1>3. \A n \in Numbers : Exists(n) => Exists(n)'
  BY DEF Stays
<1> QED BY <1>1, <1>2, <1>3 DEF CommandOK, Proposing

LEMMA ReadOnlyStays ==
  ASSUME TypeOK, UNCHANGED branch, \A n \in Numbers : Exists(n) => Exists(n)'
  PROVE  Stays
BY DEF TypeOK, Stays

\* A step of one command keeps the invariant if the command itself is left well and
\* everything else stays.
LEMMA CommandStep ==
  ASSUME IInv, NEW o \in Operators, NEW new \in Command, Set(o, new), Stays, CommandOK(new)',
         branch' \in Seq(Revision), Tip' \in 1..MaxRevisions, HistoryOK',
         refs' \subseteq Ref, pull' \in [Numbers -> Pull \cup {None}],
         \A n \in Numbers : Exists(n)' => HeadOK(pull[n].head)',
         failures' \in 0..MaxFailures
  PROVE  IInv'
<1>1. command' \in [Operators -> Command] /\ command'[o] = new
      /\ \A p \in Operators \ {o} : command'[p] = command[p]
  BY DEF Set, IInv, TypeOK
<1>2. \A p \in Operators : CommandOK(command[p])'
  <2> TAKE p \in Operators
  <2>1. CASE p = o
    BY <1>1, <2>1 DEF CommandOK, Proposing, HeadOK
  <2>2. CASE p # o
    <3>1. command[p] \in Command /\ CommandOK(command[p]) /\ command'[p] = command[p]
      BY <1>1, <2>2 DEF IInv, TypeOK
    <3> QED BY <3>1, CommandStays DEF IInv, CommandOK, Proposing, HeadOK
  <2> QED BY <2>1, <2>2
<1>3. TypeOK'
  <2>1. (\A p \in Operators : LET x == command[p] IN
          /\ x.step \in {"files", "pull", "put", "wait"} => x.number # None /\ Exists(x.number)
          /\ x.step = "put" => x.read # None
          /\ x.step \in {"snapshot", "list", "ref", "recheck", "create", "put"} => x.base \in 1..Tip)'
    BY <1>2, PublicationAssumption DEF CommandOK
  <2> QED BY <1>1, <2>1 DEF TypeOK
<1> QED BY <1>2, <1>3 DEF IInv

\* The same for a step that only reads.
LEMMA ReadStep ==
  ASSUME IInv, NEW o \in Operators, NEW new \in Command, Set(o, new), ReadOnly, CommandOK(new)
  PROVE  IInv'
<1>1. Stays
  BY ReadOnlyStays DEF ReadOnly, IInv, Exists
<1>2. CommandOK(new)'
  BY <1>1, CommandStays DEF IInv
<1>3. \A n \in Numbers : Exists(n)' => HeadOK(pull[n].head)'
  BY DEF ReadOnly, IInv, Exists, HeadOK
<1>4. HistoryOK' /\ Tip' = Tip
  BY DEF ReadOnly, IInv, HistoryOK
<1> QED BY <1>1, <1>2, <1>3, <1>4, CommandStep DEF IInv, TypeOK, ReadOnly

LEMMA NoFilesType == NoFiles \in Files
BY DEF NoFiles, Files

LEMMA IdleOK == Idle \in Command /\ CommandOK(Idle)
BY NoFilesType DEF Idle, Command, Steps, CommandOK, Proposing

LEMMA StopStep ==
  ASSUME IInv, NEW o \in Operators, Stop(o), ReadOnly
  PROVE  IInv'
BY IdleOK, ReadStep DEF Stop

LEMMA MergedOK ==
  ASSUME NEW o \in Operators, command[o] \in Command, CommandOK(command[o]), command[o].step # "idle"
  PROVE  Merged(o) \in Command /\ CommandOK(Merged(o))
<1>1. PICK new \in Command : new = [Idle EXCEPT !.step = "begin", !.candidate = command[o].candidate]
  BY IdleOK DEF Command, Steps
<1>2. new.step = "begin" /\ new.candidate = command[o].candidate /\ new.head = None /\ new.read = None
  BY <1>1 DEF Idle
<1>3. CommandOK(new)
  BY <1>2 DEF CommandOK, Proposing
<1> QED BY <1>1, <1>3, IdleOK DEF Merged

\* Going on to another step with the same data.
Like(new, x) ==
  /\ new.candidate = x.candidate /\ new.base = x.base /\ new.files = x.files
  /\ new.number = x.number /\ new.head = x.head /\ new.read = x.read

LEMMA GotoStep ==
  ASSUME IInv, NEW o \in Operators, NEW step \in Steps, Goto(o, step), ReadOnly,
         \A new \in Command : new.step = step /\ Like(new, command[o]) => CommandOK(new)
  PROVE  IInv'
<1>1. PICK new \in Command : new = [command[o] EXCEPT !.step = step]
  BY DEF IInv, TypeOK, Command
<1>2. new.step = step /\ Like(new, command[o])
  BY <1>1 DEF IInv, TypeOK, Command, Like
<1> QED BY <1>1, <1>2, ReadStep DEF Goto

-----------------------------------------------------------------------------
LEMMA TakeUpOK ==
  ASSUME IInv, NEW o \in Operators, NEW c \in Candidates,
         \/ Submit(o, c) \/ Publish(o, c) \/ \E n \in Numbers : PublishPull(o, c, n)
  PROVE  IInv'
<1>1. Tip \in 1..MaxRevisions
  BY DEF IInv, TypeOK
<1>2. ASSUME NEW new \in Command, new.step = "snapshot", new.candidate = c, new.base = Tip,
             new.head = None, new.read = None
      PROVE  CommandOK(new)
  BY <1>1, <1>2 DEF CommandOK, Proposing
<1>3. CASE Submit(o, c)
  <2>1. PICK new \in Command : new = [Idle EXCEPT !.step = "snapshot", !.kind = "candidate",
                                                  !.candidate = c, !.base = Tip]
    BY <1>1, IdleOK DEF Command, Steps
  <2>2. CommandOK(new)
    BY <1>2, <2>1 DEF Idle
  <2> QED BY <1>3, <2>1, <2>2, ReadStep DEF Submit
<1>4. CASE Publish(o, c)
  <2>1. PICK new \in Command : new = [Idle EXCEPT !.step = "snapshot", !.candidate = c, !.base = Tip]
    BY <1>1, IdleOK DEF Command, Steps
  <2>2. CommandOK(new)
    BY <1>2, <2>1 DEF Idle
  <2> QED BY <1>4, <2>1, <2>2, ReadStep DEF Publish
<1>5. ASSUME NEW n \in Numbers, PublishPull(o, c, n) PROVE IInv'
  <2>1. PICK new \in Command : new = [Idle EXCEPT !.step = "files", !.candidate = c, !.number = n]
    BY IdleOK DEF Command, Steps
  <2>2. new.step = "files" /\ new.candidate = c /\ new.number = n /\ new.head = None /\ new.read = None
    BY <2>1 DEF Idle
  <2>3. CommandOK(new)
    BY <1>5, <2>2 DEF PublishPull, CommandOK, Proposing
  <2> QED BY <1>5, <2>1, <2>3, ReadStep DEF PublishPull
<1> QED BY <1>3, <1>4, <1>5

LEMMA CheckFilesOK ==
  ASSUME IInv, NEW o \in Operators, CheckFiles(o)
  PROVE  IInv'
<1>1. CommandOK(command[o]) /\ command[o].step = "files"
  BY DEF CheckFiles, At, IInv
<1>2. \A new \in Command : new.step = "pull" /\ Like(new, command[o]) => CommandOK(new)
  BY <1>1 DEF CommandOK, Proposing, Like
<1>3. Goto(o, "pull") \/ Stop(o)
  BY DEF CheckFiles
<1> QED BY <1>2, <1>3, GotoStep, StopStep DEF CheckFiles, Steps

LEMMA ReadPullOK ==
  ASSUME IInv, NEW o \in Operators, ReadPull(o)
  PROVE  IInv'
<1> DEFINE new == [command[o] EXCEPT !.step = "recheck", !.base = Tip, !.read = pull[command[o].number].head]
<1>1. command[o] \in Command /\ CommandOK(command[o]) /\ command[o].step = "pull"
  BY DEF ReadPull, At, IInv, TypeOK
<1>2. CASE Expected(o) /\ Set(o, new)
  <2>1. pull[command[o].number] \in Pull /\ Tip \in 1..MaxRevisions
    BY <1>1 DEF IInv, TypeOK, CommandOK, Exists
  <2>2. pull[command[o].number].head \in Commit /\ pull[command[o].number].head # None
    BY <2>1, PublicationAssumption DEF Pull
  <2>3. new \in Command
    BY <1>1, <2>1, <2>2 DEF Command, Steps
  <2>4. CommandOK(new)
    BY <1>1, <1>2, <2>1, <2>2 DEF Expected, Command, CommandOK, Proposing
  <2> QED BY <1>2, <2>3, <2>4, ReadStep DEF ReadPull
<1>3. CASE Set(o, Merged(o))
  BY <1>1, <1>3, MergedOK, ReadStep DEF ReadPull
<1>4. CASE Stop(o)
  BY <1>4, StopStep DEF ReadPull
<1> QED BY <1>2, <1>3, <1>4 DEF ReadPull

LEMMA BeginOK ==
  ASSUME IInv, NEW o \in Operators, Begin(o)
  PROVE  IInv'
<1>1. /\ command[o] \in Command /\ CommandOK(command[o]) /\ command[o].step = "begin"
      /\ Tip \in 1..MaxRevisions
  BY DEF Begin, At, IInv, TypeOK
<1>2. PICK new \in Command : new = [command[o] EXCEPT !.step = "snapshot", !.base = Tip]
  BY <1>1 DEF Command, Steps
<1>3. new.step = "snapshot" /\ new.base = Tip /\ new.candidate = command[o].candidate
      /\ new.head = command[o].head /\ new.read = command[o].read
  BY <1>1, <1>2 DEF Command
<1>4. CommandOK(new)
  BY <1>1, <1>3 DEF CommandOK, Proposing
<1> QED BY <1>2, <1>4, ReadStep DEF Begin

LEMMA RecheckOK ==
  ASSUME IInv, NEW o \in Operators, Recheck(o)
  PROVE  IInv'
<1>1. CommandOK(command[o]) /\ command[o].step = "recheck"
  BY DEF Recheck, At, IInv
<1>2. CASE command[o].read = None /\ Goto(o, "create")
  <2>1. \A new \in Command : new.step = "create" /\ Like(new, command[o]) => CommandOK(new)
    BY <1>1, <1>2 DEF CommandOK, Proposing, Like
  <2> QED BY <1>2, <2>1, GotoStep DEF Recheck, Steps
<1>3. CASE command[o].read # None /\ Goto(o, "put")
  <2>1. \A new \in Command : new.step = "put" /\ Like(new, command[o]) => CommandOK(new)
    BY <1>1, <1>3 DEF CommandOK, Proposing, Like
  <2> QED BY <1>3, <2>1, GotoStep DEF Recheck, Steps
<1>4. CASE Stop(o)
  BY <1>4, StopStep DEF Recheck
<1> QED BY <1>2, <1>3, <1>4 DEF Recheck

LEMMA WaitOK ==
  ASSUME IInv, NEW o \in Operators, Wait(o)
  PROVE  IInv'
<1>1. CommandOK(command[o]) /\ command[o].step = "wait"
  BY DEF Wait, At, IInv
<1>2. \A new \in Command : new.step = "pull" /\ Like(new, command[o]) => CommandOK(new)
  BY <1>1 DEF CommandOK, Proposing, Like
<1>3. Goto(o, "pull") \/ Stop(o)
  BY DEF Wait
<1> QED BY <1>2, <1>3, GotoStep, StopStep DEF Wait, Steps

\* The command goes on with the head that has its files.
LEMMA ProposedOK ==
  ASSUME NEW o \in Operators, command[o] \in Command, CommandOK(command[o]),
         command[o].step # "idle", command[o].read = None,
         NEW n \in Numbers, NEW head \in Commit, head.files = command[o].files
  PROVE  /\ Proposed(o, n, head) \in Command
         /\ Exists(n) => CommandOK(Proposed(o, n, head))
<1>1. PICK new \in Command : new = [command[o] EXCEPT !.step = "wait", !.number = n, !.head = head]
  BY DEF Command, Steps
<1>2. new.step = "wait" /\ new.candidate = command[o].candidate /\ new.number = n
      /\ new.head = head /\ new.files = command[o].files /\ new.read = None
  BY <1>1 DEF Command
<1>3. command[o].candidate \in Candidates
  BY DEF CommandOK
<1>4. Exists(n) => CommandOK(new)
  BY <1>2, <1>3 DEF CommandOK, Proposing
<1> QED BY <1>1, <1>4, IdleOK DEF Proposed

LEMMA ListPullsOK ==
  ASSUME IInv, NEW o \in Operators, ListPulls(o)
  PROVE  IInv'
<1>1. command[o] \in Command /\ CommandOK(command[o]) /\ command[o].step = "list"
      /\ command[o].read = None
  BY DEF ListPulls, At, IInv, TypeOK, CommandOK
<1>2. CASE Goto(o, "ref")
  <2>1. \A new \in Command : new.step = "ref" /\ Like(new, command[o]) => CommandOK(new)
    BY <1>1 DEF CommandOK, Proposing, Like
  <2> QED BY <1>2, <2>1, GotoStep DEF ListPulls, Steps
<1>3. ASSUME NEW n \in Numbers, Exists(n), pull[n].head.files = command[o].files,
             Set(o, Proposed(o, n, pull[n].head))
      PROVE  IInv'
  <2>1. pull[n].head \in Commit
    BY <1>3 DEF IInv, TypeOK, Pull
  <2> QED BY <1>1, <1>3, <2>1, ProposedOK, ReadStep DEF ListPulls
<1>4. CASE Set(o, Idle)
  BY <1>4, StopStep DEF ListPulls, Stop
<1> QED BY <1>2, <1>3, <1>4 DEF ListPulls

LEMMA RevisionType ==
  ASSUME TypeOK, NEW i \in 1..Tip
  PROVE  branch[i] \in Revision
BY DEF TypeOK

\* What submit proposes for a candidate that is not registered.
LEMMA SubmissionOK ==
  ASSUME IInv, NEW b \in 1..Tip, NEW c \in Candidates
  PROVE  Registers(c) \in Files /\ HeadOK([base |-> b, files |-> Registers(c)])
<1>1. Registers(c) \in Files /\ Registers(c).registers = {c}
      /\ Registers(c).index = None /\ Registers(c).table = None
  BY NoFilesType DEF Registers, NoFiles, Files
<1>2. branch[b] \in Revision /\ Sound(branch[b])
  BY RevisionType DEF IInv, HistoryOK
<1>3. branch[b].index # None /\ branch[b].table # None
  BY <1>2, PublicationAssumption DEF Revision
<1>4. PICK h : h = [base |-> b, files |-> Registers(c)]
  OBVIOUS
<1>5. PICK new : new = Apply(branch[b], Registers(c))
  OBVIOUS
<1>6. /\ new.registered = branch[b].registered \cup {c}
      /\ new.index = branch[b].index /\ new.table = branch[b].table
  BY <1>1, <1>5 DEF Apply
<1>7. Sound(new) /\ Keeps(branch[b], new)
  BY <1>2, <1>6 DEF Sound, Keeps
<1> QED BY <1>1, <1>3, <1>5, <1>7 DEF HeadOK

\* What publish generates for a registered candidate.
LEMMA PublicationFilesOK ==
  ASSUME IInv, NEW b \in 1..Tip, NEW c \in branch[b].registered
  PROVE  /\ PublicationFiles(branch[b], c) \in Files
         /\ HeadOK([base |-> b, files |-> PublicationFiles(branch[b], c)])
<1>1. PICK rev \in Revision : rev = branch[b] /\ Sound(rev)
  BY RevisionType DEF IInv, HistoryOK
<1>2. PICK index : index = Indexed(rev, c)
  OBVIOUS
<1>3. PICK table : table = Render([rev EXCEPT !.index = index])
  OBVIOUS
<1>4. index \subseteq rev.registered /\ rev.index \subseteq index /\ index \in SUBSET Candidates
  BY <1>1, <1>2 DEF Indexed, Sound, Revision
<1>5. table = [rows |-> rev.registered, accepted |-> index]
  BY <1>1, <1>3, <1>4 DEF Render, Revision
<1>6. table \in Table
  BY <1>1, <1>4, <1>5 DEF Table, Revision
<1>7. index # None /\ table # None /\ rev.index # None /\ rev.table # None
  BY <1>1, <1>4, <1>6, PublicationAssumption DEF Revision
<1>8. PICK files : files = PublicationFiles(rev, c)
  OBVIOUS
<1>9. /\ files \in Files /\ files.registers = {}
      /\ files.index = IF index = rev.index THEN None ELSE index
      /\ files.table = IF table = rev.table THEN None ELSE table
  BY <1>1, <1>2, <1>3, <1>4, <1>6, <1>8 DEF PublicationFiles, NoFiles, Files
<1>10. PICK new : new = Apply(rev, files)
  OBVIOUS
<1>11. new.registered = rev.registered /\ new.index = index /\ new.table = table
  BY <1>7, <1>9, <1>10, <1>1 DEF Apply, Revision
<1>12. Sound(new) /\ Keeps(rev, new)
  BY <1>1, <1>4, <1>5, <1>11 DEF Sound, Keeps
<1>13. files.index # rev.index /\ files.table # rev.table
  BY <1>7, <1>9
<1> QED BY <1>1, <1>8, <1>9, <1>10, <1>12, <1>13 DEF HeadOK

LEMMA SnapshotOK ==
  ASSUME IInv, NEW o \in Operators, Snapshot(o)
  PROVE  IInv'
<1>1. /\ command[o] \in Command /\ CommandOK(command[o]) /\ command[o].step = "snapshot"
      /\ command[o].base \in 1..Tip /\ command[o].candidate \in Candidates
      /\ command[o].read = None /\ command[o].head = None
  BY DEF Snapshot, At, IInv, TypeOK, CommandOK
<1>2. PICK files : files = IF command[o].kind = "candidate" THEN Registers(command[o].candidate)
                           ELSE PublicationFiles(branch[command[o].base], command[o].candidate)
  OBVIOUS
<1>3. CASE /\ (command[o].candidate \in branch[command[o].base].registered) = (command[o].kind = "publication")
           /\ Set(o, [command[o] EXCEPT !.step = "list", !.files = files])
  <2>1. files \in Files /\ HeadOK([base |-> command[o].base, files |-> files])
    <3>1. CASE command[o].kind = "candidate"
      BY <1>1, <1>2, <3>1, SubmissionOK
    <3>2. CASE command[o].kind = "publication"
      BY <1>1, <1>2, <1>3, <3>2, PublicationFilesOK
    <3> QED BY <1>1, <3>1, <3>2 DEF Command
  <2>2. PICK new \in Command : new = [command[o] EXCEPT !.step = "list", !.files = files]
    BY <1>1, <2>1 DEF Command, Steps
  <2>3. new.step = "list" /\ new.candidate = command[o].candidate /\ new.base = command[o].base
        /\ new.files = files /\ new.head = None /\ new.read = None
    BY <1>1, <2>2 DEF Command
  <2>4. CommandOK(new)
    BY <1>1, <2>1, <2>3 DEF CommandOK, Proposing
  <2> QED BY <1>3, <2>2, <2>4, ReadStep DEF Snapshot
<1>4. CASE Stop(o)
  BY <1>4, StopStep DEF Snapshot
<1> QED BY <1>2, <1>3, <1>4 DEF Snapshot

LEMMA GeneratedType ==
  ASSUME TypeOK, NEW o \in Operators, CommandOK(command[o]),
         command[o].step \in {"ref", "create"}
  PROVE  /\ Generated(o) \in Commit /\ Generated(o).files = command[o].files
         /\ RefOf(o) \in Ref
<1>1. command[o] \in Command /\ command[o].base \in 1..Tip /\ command[o].candidate \in Candidates
  BY DEF TypeOK, CommandOK
<1>2. command[o].base \in 1..MaxRevisions
  BY <1>1, PublicationAssumption DEF TypeOK
<1>3. Generated(o) \in Commit /\ Generated(o).files = command[o].files
  BY <1>1, <1>2 DEF Generated, Commit, Command
<1>4. RefOf(o) \in Ref
  BY <1>1, <1>3 DEF RefOf, Ref, Command
<1> QED BY <1>3, <1>4

LEMMA CreateRefOK ==
  ASSUME IInv, NEW o \in Operators, CreateRef(o)
  PROVE  IInv'
<1>1. command[o] \in Command /\ CommandOK(command[o]) /\ command[o].step = "ref"
  BY DEF CreateRef, At, IInv, TypeOK
<1>2. CASE Stop(o) /\ UNCHANGED refs
  BY <1>2, StopStep DEF CreateRef, ReadOnly
<1>3. CASE refs' = refs \cup {RefOf(o)} /\ Goto(o, "recheck")
  <2>1. PICK new \in Command : new = [command[o] EXCEPT !.step = "recheck"]
    BY <1>1 DEF Command, Steps
  <2>2. new.step = "recheck" /\ Like(new, command[o])
    BY <1>1, <2>1 DEF Command, Like
  <2>3. CommandOK(new)
    BY <1>1, <2>2 DEF CommandOK, Proposing, Like
  <2>4. RefOf(o) \in Ref
    BY <1>1, GeneratedType DEF IInv
  <2>5. Stays
    BY ReadOnlyStays DEF CreateRef, IInv
  <2>6. CommandOK(new)'
    BY <2>3, <2>5, CommandStays DEF IInv
  <2>7. /\ \A n \in Numbers : Exists(n)' => HeadOK(pull[n].head)'
        /\ HistoryOK' /\ Tip' = Tip
    BY DEF CreateRef, IInv, HeadOK, HistoryOK
  <2>8. refs' \subseteq Ref /\ Set(o, new)
    BY <1>3, <2>1, <2>4 DEF IInv, TypeOK, Goto
  <2> QED BY <2>5, <2>6, <2>7, <2>8, CommandStep DEF CreateRef, IInv, TypeOK
<1> QED BY <1>2, <1>3 DEF CreateRef

LEMMA CreatePullOK ==
  ASSUME IInv, NEW o \in Operators, CreatePull(o)
  PROVE  IInv'
<1>1. command[o] \in Command /\ CommandOK(command[o]) /\ command[o].step = "create"
      /\ command[o].read = None /\ HeadOK(Generated(o))
  BY DEF CreatePull, At, IInv, TypeOK, CommandOK, Proposing, Generated
<1>2. PICK n \in Numbers :
        /\ pull' = [pull EXCEPT ![n] = [ref |-> RefOf(o), head |-> Generated(o),
                                        state |-> "open", passed |-> FALSE]]
        /\ Set(o, Proposed(o, n, Generated(o)))
  BY DEF CreatePull
<1>3. PICK head \in Commit : head = Generated(o) /\ head.files = command[o].files
  BY <1>1, GeneratedType DEF IInv
<1>4. RefOf(o) \in Ref
  BY <1>1, GeneratedType DEF IInv
<1>5. PICK p \in Pull : p = [ref |-> RefOf(o), head |-> head, state |-> "open", passed |-> FALSE]
  BY <1>3, <1>4 DEF Pull
<1>6. pull' = [pull EXCEPT ![n] = p] /\ p # None /\ p.head = head
  BY <1>2, <1>3, <1>5, PublicationAssumption
<1>7. /\ pull' \in [Numbers -> Pull \cup {None}] /\ pull'[n] = p
      /\ \A m \in Numbers \ {n} : pull'[m] = pull[m]
  BY <1>6 DEF IInv, TypeOK
<1>8. Stays
  BY <1>6, <1>7, ReadOnlyStays DEF CreatePull, IInv
<1>9. \A m \in Numbers : Exists(m)' => HeadOK(pull[m].head)'
  <2> TAKE m \in Numbers
  <2>1. CASE m = n
    BY <1>1, <1>3, <1>6, <1>7, <2>1 DEF CreatePull, HeadOK
  <2>2. CASE m # n
    BY <1>7, <2>2 DEF CreatePull, IInv, HeadOK
  <2> QED BY <2>1, <2>2
<1>10. PICK new \in Command : new = Proposed(o, n, head)
  BY <1>1, <1>3, ProposedOK
<1>11. CommandOK(new)'
  <2>1. CASE new = Idle
    BY <2>1 DEF Idle, CommandOK, Proposing
  <2>2. CASE new = [command[o] EXCEPT !.step = "wait", !.number = n, !.head = head]
    <3>1. new.step = "wait" /\ new.candidate = command[o].candidate /\ new.number = n
          /\ new.head = head /\ new.files = command[o].files /\ new.read = None
      BY <1>1, <2>2 DEF Command
    <3>2. command[o].candidate \in Candidates /\ Exists(n)'
      BY <1>1, <1>6, <1>7 DEF CommandOK
    <3> QED BY <1>3, <3>1, <3>2 DEF CommandOK, Proposing
  <2> QED BY <1>10, <2>1, <2>2 DEF Proposed
<1>12. HistoryOK'
  BY DEF CreatePull, IInv, HistoryOK
<1> QED BY <1>2, <1>3, <1>7, <1>8, <1>9, <1>10, <1>11, <1>12, CommandStep DEF CreatePull, IInv, TypeOK

\* GitHub merges a clean head: the revision it gives is the one the head was made for.
LEMMA LandOK ==
  ASSUME IInv, NEW n \in Numbers, Exists(n), Land(n)
  PROVE  /\ Stays /\ HistoryOK'
         /\ branch' \in Seq(Revision) /\ Tip' \in 1..MaxRevisions
         /\ pull' \in [Numbers -> Pull \cup {None}]
         /\ \A m \in Numbers : Exists(m)' => HeadOK(pull[m].head)'
<1>1. pull[n] \in Pull /\ HeadOK(pull[n].head) /\ pull[n].head.base = Tip /\ Tip \in Nat
      /\ Tip \in 1..Tip /\ Tip + 1 <= MaxRevisions
  BY PublicationAssumption DEF IInv, TypeOK, Land, Clean
<1>2. PICK new : new = Apply(Last, pull[n].head.files)
  OBVIOUS
<1>3. Sound(new) /\ Keeps(Last, new)
  BY <1>1, <1>2 DEF HeadOK, Last
<1>4. new \in Revision
  BY <1>1, <1>2, RevisionType DEF IInv, Last, Apply, Revision, Pull, Commit, Files
<1>5. branch' = Append(branch, new) /\ branch \in Seq(Revision)
  BY <1>2 DEF Land, IInv, TypeOK
<1>6. /\ branch' \in Seq(Revision) /\ Tip' = Tip + 1 /\ branch'[Tip + 1] = new
      /\ \A i \in 1..Tip : branch'[i] = branch[i]
  BY <1>4, <1>5
<1>7. pull' \in [Numbers -> Pull \cup {None}]
      /\ \A m \in Numbers : Exists(m)' => Exists(m) /\ pull'[m].head = pull[m].head
  <2>1. PICK p \in Pull : p = [pull[n] EXCEPT !.state = "merged"]
    BY <1>1 DEF Pull
  <2>2. p.head = pull[n].head /\ pull' = [pull EXCEPT ![n] = p]
    BY <1>1, <2>1 DEF Pull, Land
  <2> QED BY <1>1, <2>2 DEF IInv, TypeOK
<1>8. Exists(n)'
  <2>1. PICK p \in Pull : p = [pull[n] EXCEPT !.state = "merged"]
    BY <1>1 DEF Pull
  <2>2. pull' = [pull EXCEPT ![n] = p] /\ p # None
    BY <1>1, <2>1, PublicationAssumption DEF Land
  <2> QED BY <2>2 DEF IInv, TypeOK
<1>9. Stays
  BY <1>1, <1>6, <1>8 DEF Stays, Land, IInv, TypeOK
<1>10. \A m \in Numbers : Exists(m)' => HeadOK(pull[m].head)'
  <2> TAKE m \in Numbers
  <2> SUFFICES ASSUME Exists(m)' PROVE HeadOK(pull[m].head)'
    OBVIOUS
  <2>1. Exists(m) /\ pull'[m].head = pull[m].head
    BY <1>7
  <2>2. PICK h : h = pull[m].head
    OBVIOUS
  <2>3. HeadOK(h)'
    BY <1>9, <2>1, <2>2, HeadStays DEF IInv
  <2> QED BY <2>1, <2>2, <2>3 DEF HeadOK
<1>11. HistoryOK'
  <2>1. \A i \in 1..Tip : Keeps(branch[i], new)
    <3> TAKE i \in 1..Tip
    <3>1. Keeps(branch[i], Last)
      BY <1>1 DEF IInv, HistoryOK, Last
    <3> QED BY <1>3, <3>1 DEF Keeps
  <2>2. \A i \in 1..(Tip + 1) : i \in 1..Tip \/ i = Tip + 1
    BY <1>1
  <2>3. \A i \in 1..(Tip + 1) : Sound(branch'[i])
    BY <1>3, <1>6, <2>2 DEF IInv, HistoryOK
  <2>4. Keeps(new, new)
    BY DEF Keeps
  <2>5. \A i, j \in 1..(Tip + 1) : i <= j => Keeps(branch'[i], branch'[j])
    <3> TAKE i, j \in 1..(Tip + 1)
    <3> HAVE i <= j
    <3>1. CASE j \in 1..Tip
      <4>1. i \in 1..Tip
        BY <1>1, <3>1
      <4> QED BY <1>6, <3>1, <4>1 DEF IInv, HistoryOK
    <3>2. CASE j = Tip + 1
      BY <1>6, <2>1, <2>2, <2>4, <3>2
    <3> QED BY <2>2, <3>1, <3>2
  <2> QED BY <1>6, <2>3, <2>5 DEF HistoryOK
<1> QED BY <1>1, <1>6, <1>7, <1>9, <1>10, <1>11, PublicationAssumption

LEMMA PutOK ==
  ASSUME IInv, NEW o \in Operators, Put(o)
  PROVE  IInv'
<1>1. /\ command[o] \in Command /\ CommandOK(command[o]) /\ command[o].step = "put"
      /\ command[o].number \in Numbers /\ Exists(command[o].number)
  BY DEF Put, At, IInv, TypeOK, CommandOK
<1>2. CASE Land(command[o].number) /\ Set(o, Merged(o))
  <2>1. PICK n \in Numbers : n = command[o].number
    BY <1>1
  <2>2. /\ Stays /\ HistoryOK'
        /\ branch' \in Seq(Revision) /\ Tip' \in 1..MaxRevisions
        /\ pull' \in [Numbers -> Pull \cup {None}]
        /\ \A m \in Numbers : Exists(m)' => HeadOK(pull[m].head)'
    BY <1>1, <1>2, <2>1, LandOK
  <2>3. PICK new \in Command : new = Merged(o) /\ CommandOK(new)
    BY <1>1, MergedOK
  <2>4. CommandOK(new)'
    BY <2>2, <2>3, CommandStays DEF IInv
  <2> QED BY <1>2, <2>2, <2>3, <2>4, CommandStep DEF Put, IInv, TypeOK
<1>3. CASE Stop(o) /\ UNCHANGED <<branch, pull>>
  BY <1>3, StopStep DEF Put, ReadOnly
<1> QED BY <1>2, <1>3 DEF Put

LEMMA FailOK ==
  ASSUME IInv, NEW o \in Operators, Fail(o)
  PROVE  IInv'
<1>1. Stays
  BY ReadOnlyStays DEF Fail, IInv
<1>2. CommandOK(Idle)'
  BY DEF Idle, CommandOK, Proposing
<1>3. /\ \A n \in Numbers : Exists(n)' => HeadOK(pull[n].head)'
      /\ HistoryOK' /\ Tip' = Tip
  BY DEF Fail, IInv, HeadOK, HistoryOK
<1>4. failures' \in 0..MaxFailures
  BY PublicationAssumption DEF Fail, IInv, TypeOK
<1> QED BY <1>1, <1>2, <1>3, <1>4, IdleOK, CommandStep DEF Fail, Stop, IInv, TypeOK

-----------------------------------------------------------------------------
\* A step of other people keeps the invariant if what they leave is well.
LEMMA OthersStep ==
  ASSUME IInv, UNCHANGED <<refs, command, failures>>, Stays, HistoryOK',
         branch' \in Seq(Revision), Tip' \in 1..MaxRevisions,
         pull' \in [Numbers -> Pull \cup {None}],
         \A n \in Numbers : Exists(n)' => HeadOK(pull[n].head)'
  PROVE  IInv'
<1>1. \A p \in Operators : CommandOK(command[p])'
  <2> TAKE p \in Operators
  <2>1. PICK x \in Command : x = command[p] /\ CommandOK(x)
    BY DEF IInv, TypeOK
  <2>2. CommandOK(x)'
    BY <2>1, CommandStays DEF IInv
  <2> QED BY <2>1, <2>2 DEF CommandOK, Proposing, HeadOK
<1>2. (\A p \in Operators : LET x == command[p] IN
        /\ x.step \in {"files", "pull", "put", "wait"} => x.number # None /\ Exists(x.number)
        /\ x.step = "put" => x.read # None
        /\ x.step \in {"snapshot", "list", "ref", "recheck", "create", "put"} => x.base \in 1..Tip)'
  BY <1>1, PublicationAssumption DEF CommandOK
<1>3. TypeOK'
  BY <1>2 DEF IInv, TypeOK
<1> QED BY <1>1, <1>3 DEF IInv

LEMMA PullStep ==
  ASSUME IInv, UNCHANGED <<branch, refs, command, failures>>, NEW n \in Numbers, NEW p \in Pull,
         pull' = [pull EXCEPT ![n] = p], HeadOK(p.head)
  PROVE  IInv'
<1>1. /\ pull' \in [Numbers -> Pull \cup {None}] /\ pull'[n] = p /\ p # None
      /\ \A m \in Numbers \ {n} : pull'[m] = pull[m]
  BY PublicationAssumption DEF IInv, TypeOK
<1>2. Stays
  BY <1>1, ReadOnlyStays DEF IInv
<1>3. \A m \in Numbers : Exists(m)' => HeadOK(pull[m].head)'
  BY <1>1 DEF IInv, HeadOK
<1>4. HistoryOK'
  BY DEF IInv, HistoryOK
<1> QED BY <1>1, <1>2, <1>3, <1>4, OthersStep DEF IInv, TypeOK

LEMMA PassCloseOK ==
  ASSUME IInv, NEW n \in Numbers, Pass(n) \/ Close(n)
  PROVE  IInv'
<1>1. pull[n] \in Pull /\ HeadOK(pull[n].head)
  BY DEF Pass, Close, IInv, TypeOK
<1>2. CASE Pass(n)
  <2>1. PICK p \in Pull : p = [pull[n] EXCEPT !.passed = TRUE]
    BY <1>1 DEF Pull
  <2>2. p.head = pull[n].head /\ pull' = [pull EXCEPT ![n] = p]
    BY <1>1, <1>2, <2>1 DEF Pass, Pull
  <2> QED BY <1>1, <1>2, <2>2, PullStep DEF Pass
<1>3. CASE Close(n)
  <2>1. PICK p \in Pull : p = [pull[n] EXCEPT !.state = "closed"]
    BY <1>1 DEF Pull
  <2>2. p.head = pull[n].head /\ pull' = [pull EXCEPT ![n] = p]
    BY <1>1, <1>3, <2>1 DEF Close, Pull
  <2> QED BY <1>1, <1>3, <2>2, PullStep DEF Close
<1> QED BY <1>2, <1>3

LEMMA PushOK ==
  ASSUME IInv, NEW n \in Numbers, Exists(n), NEW head \in Commit, Push(n, head), HeadOK(head)
  PROVE  IInv'
<1>1. pull[n] \in Pull
  BY DEF IInv, TypeOK
<1>2. PICK p \in Pull : p = [[pull[n] EXCEPT !.head = head] EXCEPT !.passed = FALSE]
  BY <1>1 DEF Pull
<1>3. p.head = head /\ pull' = [pull EXCEPT ![n] = p]
  BY <1>1, <1>2 DEF Push, Pull, IInv, TypeOK
<1> QED BY <1>3, PullStep DEF Push

LEMMA TamperOK ==
  ASSUME IInv, NEW n \in Numbers, Tamper(n)
  PROVE  IInv'
<1>1. pull[n] \in Pull /\ HeadOK(pull[n].head) /\ Exists(n)
  BY DEF Tamper, IInv, TypeOK
<1>2. PICK old \in Commit : old = pull[n].head
  BY <1>1 DEF Pull
<1>3. PICK head \in Commit : head = [old EXCEPT !.files.other = TRUE]
  BY DEF Commit, Files
<1>4. /\ head.base = old.base /\ head.files.registers = old.files.registers
      /\ head.files.index = old.files.index /\ head.files.table = old.files.table
  BY <1>3 DEF Commit, Files
<1>5. Apply(branch[head.base], head.files) = Apply(branch[old.base], old.files)
  BY <1>4 DEF Apply
<1>6. HeadOK(head)
  BY <1>1, <1>2, <1>4, <1>5 DEF HeadOK
<1> QED BY <1>1, <1>2, <1>3, <1>6, PushOK DEF Tamper

\* Merging the tip into a pull request: what the change and the branch since then made of
\* the index and the table is the same, or only one of them changed it; never one file of
\* the change next to another of the branch.
LEMMA UpdatedSound ==
  ASSUME NEW old \in Revision, NEW last \in Revision, NEW files \in Files, NEW new \in Files,
         Sound(old), Sound(last), Keeps(old, last),
         Sound(Apply(old, files)), Keeps(old, Apply(old, files)),
         files.index # old.index, files.table # old.table,
         Mergeable(old.index, last.index, files.index),
         Mergeable(old.table, last.table, files.table),
         new.registers = files.registers,
         new.index = IF files.index = last.index THEN None ELSE files.index,
         new.table = IF files.table = last.table THEN None ELSE files.table
  PROVE  /\ Sound(Apply(last, new)) /\ Keeps(last, Apply(last, new))
         /\ new.index # last.index /\ new.table # last.table
<1>1. old.index # None /\ last.index # None /\ old.table # None /\ last.table # None
  BY PublicationAssumption DEF Revision
<1>2. PICK a : a = Apply(old, files)
  OBVIOUS
<1>3. PICK b : b = Apply(last, new)
  OBVIOUS
<1>4. /\ a.registered = old.registered \cup files.registers
      /\ a.index = IF files.index = None THEN old.index ELSE files.index
      /\ a.table = IF files.table = None THEN old.table ELSE files.table
  BY <1>2 DEF Apply
<1>5. /\ b.registered = last.registered \cup files.registers
      /\ b.index = IF files.index \in {None, last.index} THEN last.index ELSE files.index
      /\ b.table = IF files.table \in {None, last.table} THEN last.table ELSE files.table
  BY <1>1, <1>3 DEF Apply
<1>6. new.index # last.index /\ new.table # last.table
  BY <1>1
<1>7. Sound(a) /\ Keeps(old, a)
  BY <1>2
<1>8. last.table = old.table => last.index = old.index
  BY DEF Sound
<1>9. files.table = None => files.index = None
  BY <1>4, <1>7 DEF Sound
<1>10. CASE files.table \in {None, last.table}
  <2>1. b.index = last.index /\ b.table = last.table
    <3>1. CASE files.table = None
      BY <1>5, <1>9, <3>1
    <3>2. CASE files.table = last.table
      <4>1. a.index = last.index
        BY <1>1, <1>4, <1>7, <3>2 DEF Sound
      <4> QED BY <1>1, <1>4, <1>5, <3>2, <4>1
    <3> QED BY <1>10, <3>1, <3>2
  <2>2. Sound(b) /\ Keeps(last, b)
    BY <1>5, <2>1 DEF Sound, Keeps
  <2> QED BY <1>3, <1>6, <2>2
<1>11. CASE files.table \notin {None, last.table}
  <2>1. last.table = old.table /\ last.index = old.index
    BY <1>8, <1>11 DEF Mergeable
  <2>2. b.index = a.index /\ b.table = a.table
    BY <1>4, <1>5, <2>1, <1>11
  <2>3. Sound(b) /\ Keeps(last, b)
    BY <1>4, <1>5, <1>7, <2>1, <2>2 DEF Sound, Keeps
  <2> QED BY <1>3, <1>6, <2>3
<1> QED BY <1>10, <1>11

LEMMA UpdateOK ==
  ASSUME IInv, NEW n \in Numbers, Update(n)
  PROVE  IInv'
<1>1. pull[n] \in Pull /\ HeadOK(pull[n].head) /\ Exists(n) /\ Tip \in 1..Tip /\ Tip \in 1..MaxRevisions
  BY DEF Update, IInv, TypeOK
<1>2. PICK h \in Commit : h = pull[n].head /\ HeadOK(h) /\ h.base \in 1..Tip
  BY <1>1 DEF Pull, HeadOK
<1>3. PICK old \in Revision : old = branch[h.base]
  BY <1>2, RevisionType DEF IInv
<1>4. PICK last \in Revision : last = Last
  BY <1>1, RevisionType DEF IInv, Last
<1>5. Sound(old) /\ Sound(last) /\ Keeps(old, last)
  BY <1>1, <1>2, <1>3, <1>4 DEF IInv, HistoryOK, Last
<1>6. PICK new \in Files :
        new = [h.files EXCEPT !.index = IF @ = last.index THEN None ELSE @,
                              !.table = IF @ = last.table THEN None ELSE @]
  BY DEF Commit, Files
<1>7. /\ new.registers = h.files.registers
      /\ new.index = IF h.files.index = last.index THEN None ELSE h.files.index
      /\ new.table = IF h.files.table = last.table THEN None ELSE h.files.table
  BY <1>6 DEF Commit, Files
<1>8. Mergeable(old.index, last.index, h.files.index) /\ Mergeable(old.table, last.table, h.files.table)
  BY <1>2, <1>3, <1>4 DEF Update
<1>9. h.files \in Files /\ Sound(Apply(old, h.files)) /\ Keeps(old, Apply(old, h.files))
      /\ h.files.index # old.index /\ h.files.table # old.table
  BY <1>2, <1>3 DEF HeadOK, Commit
<1>10. /\ Sound(Apply(last, new)) /\ Keeps(last, Apply(last, new))
       /\ new.index # last.index /\ new.table # last.table
  BY <1>5, <1>7, <1>8, <1>9, UpdatedSound
<1>11. PICK head \in Commit : head = [base |-> Tip, files |-> new]
  BY <1>1 DEF Commit
<1>12. HeadOK(head)
  BY <1>1, <1>4, <1>10, <1>11 DEF HeadOK, Last
<1>13. Push(n, head)
  BY <1>2, <1>4, <1>6, <1>11 DEF Update
<1> QED BY <1>1, <1>12, <1>13, PushOK

LEMMA MergeElsewhereOK ==
  ASSUME IInv, NEW n \in Numbers, MergeElsewhere(n)
  PROVE  IInv'
BY LandOK, OthersStep DEF MergeElsewhere

LEMMA InitOK == Init => IInv
<1> SUFFICES ASSUME Init PROVE IInv
  OBVIOUS
<1>1. PICK some \in SUBSET Candidates :
        branch = <<[registered |-> some, index |-> {}, table |-> [rows |-> {}, accepted |-> {}]]>>
  BY DEF Init
<1>2. PICK rev \in Revision :
        rev = [registered |-> some, index |-> {}, table |-> [rows |-> {}, accepted |-> {}]]
  BY DEF Revision, Table
<1>3. branch = <<rev>> /\ branch \in Seq(Revision) /\ Tip = 1 /\ branch[1] = rev
  BY <1>1, <1>2
<1>4. Sound(rev) /\ Keeps(rev, rev)
  BY <1>2 DEF Sound, Keeps
<1>5. HistoryOK
  BY <1>3, <1>4 DEF HistoryOK
<1>6. \A o \in Operators : command[o] = Idle
  BY DEF Init
<1>7. TypeOK
  BY <1>3, <1>6, IdleOK, PublicationAssumption DEF Init, TypeOK, Idle
<1> QED BY <1>5, <1>6, <1>7, IdleOK DEF Init, IInv

LEMMA NextOK == IInv /\ [Next]_vars => IInv'
<1> SUFFICES ASSUME IInv, [Next]_vars PROVE IInv'
  OBVIOUS
<1>1. ASSUME NEW o \in Operators, Run(o) PROVE IInv'
  BY <1>1, CheckFilesOK, ReadPullOK, PutOK, BeginOK, SnapshotOK, ListPullsOK, CreateRefOK, RecheckOK,
     CreatePullOK, WaitOK DEF Run
<1>2. ASSUME NEW o \in Operators, Fail(o) PROVE IInv'
  BY <1>2, FailOK
<1>3. ASSUME NEW o \in Operators, NEW c \in Candidates,
             \/ Submit(o, c) \/ Publish(o, c) \/ \E n \in Numbers : PublishPull(o, c, n)
      PROVE  IInv'
  BY <1>3, TakeUpOK
<1>4. ASSUME NEW n \in Numbers, Others(n) PROVE IInv'
  BY <1>4, UpdateOK, TamperOK, PassCloseOK, MergeElsewhereOK DEF Others
<1>5. CASE UNCHANGED vars
  <2>1. Stays
    BY <1>5, ReadOnlyStays DEF vars, IInv
  <2>2. /\ \A n \in Numbers : Exists(n)' => HeadOK(pull[n].head)'
        /\ HistoryOK' /\ Tip' = Tip
    BY <1>5 DEF vars, IInv, HeadOK, HistoryOK
  <2> QED BY <1>5, <2>1, <2>2, OthersStep DEF vars, IInv, TypeOK
<1> QED BY <1>1, <1>2, <1>3, <1>4, <1>5 DEF Next

\* The inductive invariant of publication.
THEOREM PublicationInvariant == Spec => []IInv
<1> QED BY InitOK, NextOK, PTL DEF Spec

-----------------------------------------------------------------------------
\* Publication keeps its types, whatever its candidates, operators and pull requests.
THEOREM PublicationType == Spec => []TypeOK
<1>1. IInv => TypeOK
  BY DEF IInv
<1> QED BY <1>1, PublicationInvariant, PTL

\* In every revision of the default branch the table shows an acceptance exactly if the
\* index has it, and both only registered candidates (candidate.py:281-297), in whatever
\* order operators and others propose, push, update and merge.
THEOREM TableAlwaysAgrees == Spec => []TableAgrees
<1>1. IInv => TableAgrees
  BY DEF IInv, HistoryOK, Sound, TableAgrees
<1> QED BY <1>1, PublicationInvariant, PTL

\* No merge loses what an earlier one registered, indexed or showed
\* (candidate.py:146-171), although each carries a whole index and a whole table.
THEOREM NothingIsLost == Spec => []NothingLost
<1>1. ASSUME IInv PROVE NothingLost
  <2>1. \A i \in 1..(Tip - 1) : i \in 1..Tip /\ i + 1 \in 1..Tip /\ i <= i + 1
    BY <1>1 DEF IInv, TypeOK
  <2> QED BY <1>1, <2>1 DEF IInv, HistoryOK, Keeps, NothingLost
<1> QED BY <1>1, PublicationInvariant, PTL

-----------------------------------------------------------------------------
\* A step changes at most the command that takes it.
LEMMA OneCommand ==
  ASSUME TypeOK, NEW o \in Operators, NEW p \in Operators, p # o,
         \/ Run(p) \/ Fail(p)
         \/ \E c \in Candidates : \/ Submit(p, c) \/ Publish(p, c)
                                  \/ \E n \in Numbers : PublishPull(p, c, n)
  PROVE  command'[o] = command[o]
<1>1. \E new : Set(p, new)
  BY DEF Run, CheckFiles, ReadPull, Put, Begin, Snapshot, ListPulls, CreateRef, Recheck, CreatePull, Wait,
     Fail, Submit, Publish, PublishPull, Goto, Stop
<1> QED BY <1>1 DEF Set, TypeOK

\* A command merges a publication only with the very files it generated or found equal to
\* them (candidate.py:253, 232, 241), also when others push to its branch.
THEOREM OnlyGeneratedMerged == Spec => MergesGenerated
<1>1. ASSUME IInv, Next, NEW o \in Operators, At(o, "put"), command[o].head # None,
             command'[o] # command[o], branch' # branch
      PROVE  pull[command[o].number].head.files = command[o].files
  <2>1. PICK p \in Operators :
          \/ Run(p) \/ Fail(p)
          \/ \E c \in Candidates : \/ Submit(p, c) \/ Publish(p, c)
                                   \/ \E n \in Numbers : PublishPull(p, c, n)
    BY <1>1 DEF Next, Others, Update, Tamper, Pass, Close, MergeElsewhere, Push
  <2>2. p = o
    BY <1>1, <2>1, OneCommand DEF IInv
  <2>3. Put(o)
    BY <1>1, <2>1, <2>2 DEF Run, CheckFiles, ReadPull, Begin, Snapshot, ListPulls, CreateRef, Recheck,
       CreatePull, Wait, Fail, Submit, Publish, PublishPull, ReadOnly
  <2>4. pull[command[o].number].head = command[o].read
    BY <1>1, <2>3 DEF Put
  <2>5. command[o].read = command[o].head /\ command[o].head.files = command[o].files
    BY <1>1 DEF IInv, CommandOK, At
  <2> QED BY <2>4, <2>5
<1>2. IInv /\ [Next]_vars =>
        [\A o \in Operators :
           At(o, "put") /\ command[o].head # None /\ command'[o] # command[o] /\ branch' # branch
             => pull[command[o].number].head.files = command[o].files]_vars
  BY <1>1
<1> QED BY <1>2, PublicationInvariant, PTL DEF Spec, MergesGenerated
=============================================================================
