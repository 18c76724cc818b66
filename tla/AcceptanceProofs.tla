-------------------------- MODULE AcceptanceProofs --------------------------
(***************************************************************************)
(* Proofs about Acceptance: its type invariant, that only complete releases *)
(* are published, what the protected index rests on, and that the commands  *)
(* implement Decision, for any sets of commands, approvals, files and       *)
(* revisions.                                                               *)
(***************************************************************************)
EXTENDS Acceptance, TLAPS, FiniteSetTheorems

\* A published release is complete and was made on evidence for its revision;
\* only published releases are immutable.
ReleaseOK(i) ==
  release[i] # None =>
    IF release[i].draft
    THEN ~release[i].immutable
    ELSE Whole(i) /\ release[i].tag \in Evidenced /\ BaseOf[release[i].tag] \in been

\* The command's release exists and is its approval's.
Holds(c) == c.rel \in Tagged(c.approval)

Releasing == {"reuse", "upload", "readback", "recheck", "sealed", "publish", "confirm"}

\* What a command (its session record) has established at each step.
CommandOK(c) ==
  /\ c.step # "idle" => c.approval \in Approvals /\ c.base \in been
  /\ c.step \notin {"idle", "begin"} /\ tip = c.base => c.prior = index
  /\ c.step \in {"begin", "admin", "list"} => c.rel = None
  /\ c.step \in {"evidence", "current"} /\ c.rel # None => Holds(c)
  /\ c.step \in Releasing => Holds(c)
  /\ c.step \in {"current", "draft"} \cup Releasing =>
       c.approval \in Evidenced /\ BaseOf[c.approval] = c.base
  /\ c.step \in {"recheck", "sealed", "publish"} => Whole(c.rel)
  /\ c.step \in {"index", "done"} => Importable(c.approval)

\* A pull request that is still on the tip found the index empty.
ChangeOK(c) == Importable(c.entry) /\ c.base \in been /\ (c.base = tip => index = {})

IndexOK ==
  /\ \A a \in index : Importable(a)
  /\ index = {} \/ \E a \in index : index = {a}

IInv ==
  /\ TypeOK
  /\ \A i \in Releases : ReleaseOK(i)
  /\ \A s \in Sessions : CommandOK(session[s])
  /\ \A c \in change : ChangeOK(c)
  /\ IndexOK

-----------------------------------------------------------------------------
\* A listing of releases has a newest one: there are finitely many.
LEMMA NewestFound ==
  ASSUME NEW S \in SUBSET Releases, S # {}
  PROVE  Newest(S) \in S
<1> DEFINE Above(i) == {j \in S : i < j}
           T == {Above(i) : i \in S}
<1>1. S \subseteq Nat /\ IsFiniteSet(S)
  BY AcceptanceAssumption, FS_Subset
<1>2. T \subseteq FiniteSubsetsOf(S) /\ T # {}
  <2>1. ASSUME NEW i \in S PROVE Above(i) \in FiniteSubsetsOf(S)
    <3>1. Above(i) \in SUBSET S
      OBVIOUS
    <3> HIDE DEF Above
    <3> QED BY <1>1, <3>1, FS_Subset DEF FiniteSubsetsOf
  <2> HIDE DEF Above
  <2> QED BY <2>1
<1>3. PICK A \in T : \A B \in T : ~(<<B, A>> \in StrictSubsetOrdering(S))
  <2> HIDE DEF T
  <2> QED BY <1>2, FS_StrictSubsetOrderingWellFounded, WFMin
<1>4. PICK i \in S : A = Above(i)
  BY <1>3
<1>5. ASSUME NEW j \in S, i < j PROVE FALSE
  <2>1. Above(j) \in T
    OBVIOUS
  <2>2. i \in Nat /\ j \in Nat /\ S \subseteq Nat
    BY <1>1
  <2>3. Above(j) \subseteq Above(i) /\ j \in Above(i) /\ j \notin Above(j) /\ Above(i) \subseteq S
    <3>1. \A k \in S : j < k => i < k
      BY <2>2, <1>5
    <3>2. Above(j) \subseteq Above(i)
      BY <3>1
    <3>3. j \in Above(i) /\ Above(i) \subseteq S
      BY <1>5
    <3>4. ~(j < j)
      BY <2>2
    <3> QED BY <3>2, <3>3, <3>4
  <2>4. <<Above(j), Above(i)>> \in StrictSubsetOrdering(S)
    <3> HIDE DEF Above
    <3> QED BY <2>3 DEF StrictSubsetOrdering
  <2> QED BY <1>3, <1>4, <2>1, <2>4
<1>6. \A j \in S : j <= i
  BY <1>1, <1>5
<1> QED BY <1>6 DEF Newest

\* What every step leaves to the commands that do not take it: releases are not
\* withdrawn, a published one is never touched, a complete draft stays complete, and
\* the index changes only together with a revision the branch never had.
Grows ==
  /\ \A i \in Releases : release[i] # None =>
       /\ release'[i] # None /\ release'[i].tag = release[i].tag
       /\ ~release[i].draft => release'[i] = release[i]
       /\ Whole(i) => Whole(i)'
  /\ been \subseteq been'
  /\ UNCHANGED <<tip, index>> \/ tip' \notin been

LEMMA ImportableStays ==
  ASSUME Grows, NEW a, Importable(a)
  PROVE  Importable(a)'
BY DEF Grows, Importable, Published, Tagged, Sealed

LEMMA CommandKept ==
  ASSUME NEW c \in Session, CommandOK(c), Grows
  PROVE  CommandOK(c)'
<1>1. Importable(c.approval) => Importable(c.approval)'
  BY ImportableStays
<1>2. Holds(c) => Holds(c)'
  BY DEF Holds, Tagged, Grows
<1>3. Holds(c) /\ Whole(c.rel) => Whole(c.rel)'
  BY DEF Holds, Tagged, Grows
<1>4. c.step \notin {"idle", "begin"} /\ tip' = c.base => c.prior = index'
  BY DEF CommandOK, Grows
<1> QED BY <1>1, <1>2, <1>3, <1>4 DEF CommandOK, Grows, Releasing

LEMMA ChangeKept ==
  ASSUME TypeOK, Grows, NEW c \in change, ChangeOK(c)
  PROVE  ChangeOK(c)'
<1>1. Importable(c.entry)'
  BY ImportableStays DEF ChangeOK
<1> QED BY <1>1 DEF ChangeOK, Grows

LEMMA IndexKept ==
  ASSUME IndexOK, Grows, index' = index
  PROVE  IndexOK'
<1>1. \A a \in index : Importable(a)'
  BY ImportableStays DEF IndexOK
<1> QED BY <1>1 DEF IndexOK

\* A step of one command keeps the invariant if the command itself is left well and
\* everything else only grows.
LEMMA CommandStep ==
  ASSUME IInv, NEW s \in Sessions, NEW new \in Session, Set(s, new), Grows,
         UNCHANGED <<tip, been, index, sealing>>, CommandOK(new)',
         failures' \in 0..MaxFailures, release' \in [Releases -> Release \cup {None}],
         \A i \in Releases : ReleaseOK(i)',
         change' \subseteq Change, \A c \in change' : ChangeOK(c)'
  PROVE  IInv'
<1>1. session' \in [Sessions -> Session] /\ session'[s] = new
      /\ \A t \in Sessions \ {s} : session'[t] = session[t]
  BY DEF Set, IInv, TypeOK
<1>2. \A t \in Sessions : CommandOK(session[t])'
  <2> TAKE t \in Sessions
  <2>1. CASE t = s
    BY <1>1, <2>1 DEF CommandOK, Holds, Tagged, Importable, Published, Sealed, Whole
  <2>2. CASE t # s
    <3>1. session[t] \in Session /\ CommandOK(session[t]) /\ session'[t] = session[t]
      BY <1>1, <2>2 DEF IInv, TypeOK
    <3> QED BY <3>1, CommandKept DEF CommandOK, Holds, Tagged, Importable, Published, Sealed, Whole
  <2> QED BY <2>1, <2>2
<1>3. TypeOK'
  <2>1. ASSUME NEW t \in Sessions
        PROVE  /\ session'[t].step # "idle" =>
                    session'[t].approval \in Approvals /\ session'[t].base \in Revs
               /\ session'[t].step \in Releasing => session'[t].rel \in Releases
    BY <1>2 DEF CommandOK, Holds, Tagged, IInv, TypeOK, Releasing
  <2> QED BY <1>1, <2>1 DEF IInv, TypeOK, At, Releasing
<1>4. IndexOK'
  BY IndexKept DEF IInv
<1> QED BY <1>2, <1>3, <1>4 DEF IInv

\* The same for a step that only reads.
LEMMA ReadStep ==
  ASSUME IInv, NEW s \in Sessions, NEW new \in Session, Set(s, new), ReadOnly, CommandOK(new)
  PROVE  IInv'
<1>1. Grows
  BY DEF Grows, ReadOnly, repository, Whole
<1>2. CommandOK(new)'
  BY <1>1, CommandKept
<1>3. /\ \A i \in Releases : ReleaseOK(i)'
      /\ \A c \in change' : ChangeOK(c)'
  BY ChangeKept, <1>1 DEF IInv, ReadOnly, repository, ReleaseOK, Whole
<1> QED BY <1>1, <1>2, <1>3, CommandStep DEF IInv, TypeOK, ReadOnly, repository

LEMMA IdleOK == Idle \in Session /\ CommandOK(Idle)
BY DEF Idle, Session, Steps, CommandOK, Releasing

LEMMA StopStep ==
  ASSUME IInv, NEW s \in Sessions, Stop(s), ReadOnly
  PROVE  IInv'
BY IdleOK, ReadStep DEF Stop

LEMMA BeginOK ==
  ASSUME IInv, NEW s \in Sessions, NEW a \in Approvals, Begin(s, a)
  PROVE  IInv'
<1> DEFINE new == [Idle EXCEPT !.step = "begin", !.approval = a, !.base = tip]
<1>1. new \in Session /\ CommandOK(new)
  BY DEF IInv, TypeOK, Idle, Session, Steps, CommandOK, Releasing
<1> QED BY <1>1, ReadStep DEF Begin

LEMMA SnapshotOK ==
  ASSUME IInv, NEW s \in Sessions, Snapshot(s)
  PROVE  IInv'
<1> DEFINE new == [session[s] EXCEPT !.step = "admin", !.prior = index]
<1>1. new \in Session /\ CommandOK(new)
  BY DEF Snapshot, At, IInv, TypeOK, Session, Steps, CommandOK, Releasing
<1>2. Set(s, new) \/ Stop(s)
  BY DEF Snapshot
<1> QED BY <1>1, <1>2, ReadStep, StopStep DEF Snapshot

LEMMA ReadSettingsOK ==
  ASSUME IInv, NEW s \in Sessions, ReadSettings(s)
  PROVE  IInv'
<1> DEFINE new == [session[s] EXCEPT !.step = "list"]
<1>1. new \in Session /\ CommandOK(new)
  BY DEF ReadSettings, At, IInv, TypeOK, Session, Steps, CommandOK, Releasing
<1>2. Set(s, new) \/ Stop(s)
  BY DEF ReadSettings, Require, Goto
<1> QED BY <1>1, <1>2, ReadStep, StopStep DEF ReadSettings

LEMMA ListReleasesOK ==
  ASSUME IInv, NEW s \in Sessions, ListReleases(s)
  PROVE  IInv'
<1> DEFINE found == Tagged(session[s].approval)
           draft == [session[s] EXCEPT !.step = "evidence", !.rel = Newest(found)]
<1>1. session[s] \in Session /\ CommandOK(session[s]) /\ session[s].step = "list"
  BY DEF ListReleases, At, IInv, TypeOK
<1>2. ASSUME NEW step \in {"evidence", "import"}, Goto(s, step)
      PROVE  IInv'
  <2> DEFINE new == [session[s] EXCEPT !.step = step]
  <2>1. new \in Session /\ CommandOK(new)
    BY <1>1, <1>2 DEF Session, Steps, CommandOK, Releasing
  <2> QED BY <1>2, <2>1, ReadStep DEF Goto, ListReleases
<1>3. CASE found # {} /\ Set(s, draft)
  <2>1. Newest(found) \in found /\ found \subseteq Releases
    BY <1>3, NewestFound DEF Tagged
  <2>2. draft \in Session /\ CommandOK(draft)
    BY <1>1, <2>1 DEF Session, Steps, CommandOK, Releasing, Holds
  <2> QED BY <1>3, <2>2, ReadStep DEF ListReleases
<1> QED BY <1>2, <1>3 DEF ListReleases

LEMMA CheckEvidenceOK ==
  ASSUME IInv, NEW s \in Sessions, CheckEvidence(s)
  PROVE  IInv'
<1> DEFINE new == [session[s] EXCEPT !.step = "current"]
<1>1. \/ /\ Set(s, new)
         /\ BaseOf[session[s].approval] = session[s].base /\ session[s].approval \in Evidenced
      \/ Stop(s)
  BY DEF CheckEvidence, Require, Goto
<1>2. ASSUME Set(s, new), BaseOf[session[s].approval] = session[s].base, session[s].approval \in Evidenced
      PROVE  IInv'
  <2>1. new \in Session /\ CommandOK(new)
    BY <1>2 DEF CheckEvidence, At, IInv, TypeOK, Session, Steps, CommandOK, Releasing, Holds
  <2> QED BY <1>2, <2>1, ReadStep DEF CheckEvidence
<1> QED BY <1>1, <1>2, StopStep DEF CheckEvidence

LEMMA ReadCurrentOK ==
  ASSUME IInv, NEW s \in Sessions, ReadCurrent(s)
  PROVE  IInv'
<1> DEFINE new(step) == [session[s] EXCEPT !.step = step]
<1>1. new("draft") \in Session /\ CommandOK(new("draft"))
  BY DEF ReadCurrent, At, IInv, TypeOK, Session, Steps, CommandOK, Releasing
<1>2. session[s].rel # None => new("reuse") \in Session /\ CommandOK(new("reuse"))
  BY DEF ReadCurrent, At, IInv, TypeOK, Session, Steps, CommandOK, Releasing, Holds
<1>3. \/ Set(s, new("draft"))
      \/ session[s].rel # None /\ Set(s, new("reuse"))
      \/ Stop(s)
  BY DEF ReadCurrent, Require, Goto
<1> HIDE DEF new
<1> QED BY <1>1, <1>2, <1>3, ReadStep, StopStep DEF ReadCurrent

LEMMA ReuseOK ==
  ASSUME IInv, NEW s \in Sessions, Reuse(s)
  PROVE  IInv'
<1> DEFINE new == [session[s] EXCEPT !.step = "upload", !.held = Named(session[s].rel)]
<1>1. new \in Session /\ CommandOK(new)
  BY DEF Reuse, At, Named, IInv, TypeOK, Session, Steps, CommandOK, Releasing, Holds
<1> QED BY <1>1, ReadStep DEF Reuse

LEMMA ReadBackOK ==
  ASSUME IInv, NEW s \in Sessions, ReadBack(s)
  PROVE  IInv'
<1> DEFINE new == [session[s] EXCEPT !.step = "recheck"]
<1>1. Intact(session[s].rel) => new \in Session /\ CommandOK(new)
  <2> SUFFICES ASSUME Intact(session[s].rel) PROVE new \in Session /\ CommandOK(new)
    OBVIOUS
  <2>1. session[s].rel \in Releases /\ release[session[s].rel] \in Release
    BY DEF ReadBack, At, IInv, TypeOK, CommandOK, Releasing, Holds, Tagged
  <2>2. Whole(session[s].rel)
    BY <2>1 DEF Whole, Intact, Release
  <2> QED BY <2>2 DEF ReadBack, At, IInv, TypeOK, Session, Steps, CommandOK, Releasing, Holds
<1>2. (Intact(session[s].rel) /\ Set(s, new)) \/ Stop(s)
  BY DEF ReadBack, Require, Goto
<1> QED BY <1>1, <1>2, ReadStep, StopStep DEF ReadBack

LEMMA RecheckCurrentOK ==
  ASSUME IInv, NEW s \in Sessions, RecheckCurrent(s)
  PROVE  IInv'
<1> DEFINE new == [session[s] EXCEPT !.step = "sealed"]
<1>1. new \in Session /\ CommandOK(new)
  BY DEF RecheckCurrent, At, IInv, TypeOK, Session, Steps, CommandOK, Releasing, Holds
<1>2. Set(s, new) \/ Stop(s)
  BY DEF RecheckCurrent, Require, Goto
<1> QED BY <1>1, <1>2, ReadStep, StopStep DEF RecheckCurrent

LEMMA RecheckSealingOK ==
  ASSUME IInv, NEW s \in Sessions, RecheckSealing(s)
  PROVE  IInv'
<1> DEFINE new == [session[s] EXCEPT !.step = "publish"]
<1>1. new \in Session /\ CommandOK(new)
  BY DEF RecheckSealing, At, IInv, TypeOK, Session, Steps, CommandOK, Releasing, Holds
<1>2. Set(s, new) \/ Stop(s)
  BY DEF RecheckSealing, Require, Goto
<1> QED BY <1>1, <1>2, ReadStep, StopStep DEF RecheckSealing

LEMMA ConfirmOK ==
  ASSUME IInv, NEW s \in Sessions, Confirm(s)
  PROVE  IInv'
<1> DEFINE new == [session[s] EXCEPT !.step = "import"]
<1>1. new \in Session /\ CommandOK(new)
  BY DEF Confirm, At, IInv, TypeOK, Session, Steps, CommandOK, Releasing
<1>2. Set(s, new) \/ Stop(s)
  BY DEF Confirm, Require, Goto
<1> QED BY <1>1, <1>2, ReadStep, StopStep DEF Confirm

LEMMA ImportOK ==
  ASSUME IInv, NEW s \in Sessions, Import(s)
  PROVE  IInv'
<1> DEFINE new == [session[s] EXCEPT !.step = "index"]
<1>1. Importable(session[s].approval) => new \in Session /\ CommandOK(new)
  BY DEF Import, At, IInv, TypeOK, Session, Steps, CommandOK, Releasing
<1>2. (Importable(session[s].approval) /\ Set(s, new)) \/ Stop(s)
  BY DEF Import, Require, Goto
<1> QED BY <1>1, <1>2, ReadStep, StopStep DEF Import

\* A step that changes one release of its own, at most publishing it.
LEMMA ReleaseStep ==
  ASSUME IInv, NEW s \in Sessions, NEW new \in Session, Set(s, new),
         UNCHANGED <<repository, sealing, failures>>,
         NEW i \in Releases, NEW r \in Release, release' = [release EXCEPT ![i] = r],
         release[i] # None =>
           /\ r.tag = release[i].tag
           /\ ~release[i].draft => r = release[i]
           /\ Whole(i) => r.asset = release[i].asset,
         ReleaseOK(i)', CommandOK(new)'
  PROVE  IInv'
<1>1. /\ release' \in [Releases -> Release \cup {None}] /\ release'[i] = r /\ r # None
      /\ \A j \in Releases \ {i} : release'[j] = release[j]
  BY AcceptanceAssumption DEF IInv, TypeOK
<1>2. Grows
  BY <1>1 DEF Grows, repository, Whole
<1>3. \A j \in Releases : ReleaseOK(j)'
  BY <1>1 DEF IInv, ReleaseOK, repository, Whole
<1>4. change' \subseteq Change /\ \A c \in change' : ChangeOK(c)'
  BY <1>2, ChangeKept DEF IInv, TypeOK, repository
<1> QED BY <1>1, <1>2, <1>3, <1>4, CommandStep DEF IInv, TypeOK, repository

LEMMA DraftOK ==
  ASSUME IInv, NEW s \in Sessions, Draft(s)
  PROVE  IInv'
<1> PICK i \in Releases :
      /\ release[i] = None
      /\ release' = [release EXCEPT ![i] =
            [tag |-> session[s].approval, draft |-> TRUE, immutable |-> FALSE,
             asset |-> [f \in Files |-> "absent"]]]
      /\ Set(s, [session[s] EXCEPT !.step = "upload", !.rel = i])
  BY DEF Draft
<1>1. session[s] \in Session /\ CommandOK(session[s]) /\ session[s].step = "draft"
  BY DEF Draft, At, IInv, TypeOK
<1>2. PICK r \in Release :
        r = [tag |-> session[s].approval, draft |-> TRUE, immutable |-> FALSE,
             asset |-> [f \in Files |-> "absent"]]
  BY <1>1 DEF Release, CommandOK
<1>3. PICK new \in Session : new = [session[s] EXCEPT !.step = "upload", !.rel = i]
  BY <1>1 DEF Session, Steps
<1>4. release' = [release EXCEPT ![i] = r] /\ Set(s, new)
  BY <1>2, <1>3
<1>5. release'[i] = r /\ r # None
  BY <1>4, AcceptanceAssumption DEF IInv, TypeOK
<1>6. ReleaseOK(i)'
  BY <1>2, <1>5 DEF ReleaseOK
<1>7. CommandOK(new)'
  BY <1>1, <1>2, <1>3, <1>5 DEF Draft, repository, CommandOK, Releasing, Holds, Tagged, Session
<1> QED BY <1>4, <1>6, <1>7, ReleaseStep DEF Draft

LEMMA UploadOK ==
  ASSUME IInv, NEW s \in Sessions, Upload(s)
  PROVE  IInv'
<1>1. session[s] \in Session /\ CommandOK(session[s]) /\ session[s].step = "upload"
  BY DEF Upload, At, IInv, TypeOK
<1>2. PICK i \in Releases : i = session[s].rel
  BY <1>1 DEF CommandOK, Releasing, Holds, Tagged
<1>3. release[i] \in Release /\ release[i] # None /\ ReleaseOK(i) /\ release[i].tag = session[s].approval
  BY <1>1, <1>2 DEF IInv, TypeOK, CommandOK, Releasing, Holds, Tagged
<1>4. CASE Goto(s, "readback") /\ UNCHANGED release
  <2> DEFINE new == [session[s] EXCEPT !.step = "readback"]
  <2>1. new \in Session /\ CommandOK(new)
    BY <1>1 DEF Session, Steps, CommandOK, Releasing, Holds
  <2> QED BY <1>4, <2>1, ReadStep DEF Upload, Goto, ReadOnly
<1>5. CASE Stop(s) /\ UNCHANGED release
  BY <1>5, StopStep DEF Upload, ReadOnly
<1>6. ASSUME NEW f \in Files, NEW state \in {"uploaded", "starter"}, NEW new \in Session,
             f \notin Named(i), ~release[i].immutable, Set(s, new),
             release' = [release EXCEPT ![i].asset[f] = state],
             new = Idle \/ new = [session[s] EXCEPT !.held = @ \cup {f}]
      PROVE  IInv'
  <2>1. PICK r \in Release : r = [release[i] EXCEPT !.asset[f] = state]
    BY <1>3 DEF Release
  <2>2. release' = [release EXCEPT ![i] = r]
    BY <1>6, <2>1
  <2>3. release[i].asset[f] = "absent"
    BY <1>6 DEF Named
  <2>4. ~Whole(i) /\ release[i].draft
    BY <1>3, <1>6, <2>3 DEF Whole, ReleaseOK
  <2>5. r.tag = release[i].tag /\ r.draft /\ ~r.immutable
    BY <1>3, <1>6, <2>1, <2>4 DEF Release
  <2>6. release'[i] = r /\ r # None
    BY <2>2, AcceptanceAssumption DEF IInv, TypeOK
  <2>7. ReleaseOK(i)'
    BY <2>5, <2>6 DEF ReleaseOK
  <2>8. CommandOK(new)'
    <3>1. CASE new = Idle
      BY <3>1 DEF Idle, CommandOK, Releasing
    <3>2. CASE new = [session[s] EXCEPT !.held = @ \cup {f}]
      BY <1>1, <1>2, <1>3, <2>5, <2>6, <3>2
         DEF Upload, repository, CommandOK, Releasing, Holds, Tagged, Session
    <3> QED BY <1>6, <3>1, <3>2
  <2>9. Set(s, new) /\ UNCHANGED <<repository, sealing, failures>>
    BY <1>6 DEF Upload
  <2> QED BY <2>2, <2>4, <2>5, <2>7, <2>8, <2>9, ReleaseStep
<1>7. ASSUME NEW f \in Files PROVE [session[s] EXCEPT !.held = @ \cup {f}] \in Session
  BY <1>1 DEF Session
<1>8. \/ Goto(s, "readback") /\ UNCHANGED release
      \/ Stop(s) /\ UNCHANGED release
      \/ \E f \in Files :
           /\ f \notin Named(i) /\ ~release[i].immutable
           /\ release' = [release EXCEPT ![i].asset[f] = "uploaded"]
           /\ Set(s, [session[s] EXCEPT !.held = @ \cup {f}])
      \/ \E f \in Files :
           /\ f \notin Named(i) /\ ~release[i].immutable
           /\ release' = [release EXCEPT ![i].asset[f] = "starter"]
           /\ Set(s, Idle)
  BY <1>2 DEF Upload, Stop
<1> QED BY <1>4, <1>5, <1>6, <1>7, <1>8, IdleOK

LEMMA PublishOK ==
  ASSUME IInv, NEW s \in Sessions, Publish(s)
  PROVE  IInv'
<1>1. session[s] \in Session /\ CommandOK(session[s]) /\ session[s].step = "publish"
  BY DEF Publish, At, IInv, TypeOK
<1>2. PICK i \in Releases : i = session[s].rel
  BY <1>1 DEF CommandOK, Releasing, Holds, Tagged
<1>3. /\ release[i] \in Release /\ release[i] # None /\ ReleaseOK(i)
      /\ release[i].tag = session[s].approval /\ Whole(i)
  BY <1>1, <1>2 DEF IInv, TypeOK, CommandOK, Releasing, Holds, Tagged
<1>4. CASE Stop(s) /\ UNCHANGED release
  BY <1>4, StopStep DEF Publish, ReadOnly
<1>5. CASE release' = [release EXCEPT ![i].draft = FALSE,
                                      ![i].immutable = IF release[i].draft THEN sealing ELSE @]
           /\ Goto(s, "confirm")
  <2>1. PICK r \in Release :
          r = [release[i] EXCEPT !.draft = FALSE,
                                 !.immutable = IF release[i].draft THEN sealing ELSE @]
    BY <1>3 DEF Release, IInv, TypeOK
  <2>2. release' = [release EXCEPT ![i] = r]
    BY <1>5, <2>1 DEF IInv, TypeOK
  <2>3. /\ r.tag = release[i].tag /\ ~r.draft /\ r.asset = release[i].asset
        /\ ~release[i].draft => r = release[i]
    BY <1>3, <2>1 DEF Release, IInv, TypeOK
  <2>4. release'[i] = r /\ r # None
    BY <2>2, AcceptanceAssumption DEF IInv, TypeOK
  <2>5. session[s].approval \in Evidenced /\ BaseOf[session[s].approval] \in been
    BY <1>1 DEF CommandOK, Releasing
  <2>6. ReleaseOK(i)'
    BY <1>3, <2>3, <2>4, <2>5 DEF ReleaseOK, Whole, Publish, repository
  <2>7. PICK new \in Session : new = [session[s] EXCEPT !.step = "confirm"]
    BY <1>1 DEF Session, Steps
  <2>8. Set(s, new) /\ UNCHANGED <<repository, sealing, failures>>
    BY <1>5, <2>7 DEF Goto, Publish
  <2>9. CommandOK(new)'
    BY <1>1, <1>2, <1>3, <2>3, <2>4, <2>7
       DEF Publish, repository, CommandOK, Releasing, Holds, Tagged, Session
  <2> QED BY <1>3, <2>2, <2>3, <2>6, <2>8, <2>9, ReleaseStep
<1> QED BY <1>2, <1>4, <1>5 DEF Publish

LEMMA ProposeOK ==
  ASSUME IInv, NEW s \in Sessions, Propose(s)
  PROVE  IInv'
<1>1. session[s] \in Session /\ CommandOK(session[s]) /\ session[s].step = "index"
  BY DEF Propose, At, IInv, TypeOK
<1>2. CASE Stop(s) /\ UNCHANGED change
  BY <1>2, StopStep DEF Propose, ReadOnly, repository
<1>3. CASE /\ OnTip(s) /\ Goto(s, "done")
           /\ change' = IF session[s].prior = {}
                        THEN change \cup {[entry |-> session[s].approval, base |-> session[s].base]}
                        ELSE change
  <2>1. PICK new \in Session : new = [session[s] EXCEPT !.step = "done"]
    BY <1>1 DEF Session, Steps
  <2>2. PICK c : c = [entry |-> session[s].approval, base |-> session[s].base]
    OBVIOUS
  <2>3. Set(s, new) /\ change' \in {change, change \cup {c}} /\ (c \in change' \ change => session[s].prior = {})
    BY <1>3, <2>1, <2>2 DEF Goto
  <2>4. Grows
    BY DEF Grows, Propose, Whole
  <2>5. CommandOK(new)'
    <3>1. CommandOK(new)
      BY <1>1, <2>1 DEF CommandOK, Releasing, Session
    <3> QED BY <2>4, <3>1, CommandKept
  <2>6. c \in Change /\ (session[s].prior = {} => ChangeOK(c))
    BY <1>1, <1>3, <2>2 DEF CommandOK, ChangeOK, OnTip, Change, IInv, TypeOK
  <2>7. change' \subseteq Change /\ \A d \in change' : ChangeOK(d)
    BY <2>3, <2>6 DEF IInv, TypeOK
  <2>8. \A d \in change' : ChangeOK(d)'
    BY <2>7 DEF Propose, ChangeOK, Importable, Published, Tagged, Sealed
  <2>9. \A i \in Releases : ReleaseOK(i)'
    BY DEF IInv, Propose, ReleaseOK, Whole
  <2> QED BY <2>3, <2>4, <2>5, <2>7, <2>8, <2>9, CommandStep DEF Propose, IInv, TypeOK
<1> QED BY <1>2, <1>3 DEF Propose

LEMMA FailOK ==
  ASSUME IInv, NEW s \in Sessions, Fail(s)
  PROVE  IInv'
<1>1. Grows
  BY DEF Grows, Fail, repository, Whole
<1>2. CommandOK(Idle)'
  BY DEF Idle, CommandOK, Releasing
<1>3. failures' \in 0..MaxFailures
  BY AcceptanceAssumption DEF Fail, IInv, TypeOK
<1>4. /\ \A i \in Releases : ReleaseOK(i)'
      /\ change' \subseteq Change /\ \A c \in change' : ChangeOK(c)'
  BY <1>1, ChangeKept DEF IInv, TypeOK, Fail, repository, ReleaseOK, Whole
<1> QED BY <1>1, <1>2, <1>3, <1>4, IdleOK, CommandStep DEF Fail, Stop, IInv, TypeOK, repository

\* A step of the repository: the branch moves to a revision it never had.
LEMMA RepositoryStep ==
  ASSUME IInv, UNCHANGED <<sealing, release, session, failures>>,
         NEW rev \in Revs \ been, tip' = rev, been' = been \cup {rev},
         change' \subseteq change, IndexOK', index' \subseteq Approvals
  PROVE  IInv'
<1>1. Grows
  BY DEF Grows, Whole
<1>2. \A s \in Sessions : CommandOK(session[s])'
  <2> TAKE s \in Sessions
  <2>1. session[s] \in Session /\ CommandOK(session[s]) /\ session'[s] = session[s]
    BY DEF IInv, TypeOK
  <2> QED BY <1>1, <2>1, CommandKept DEF CommandOK, Holds, Tagged, Importable, Published, Sealed, Whole
<1>3. \A c \in change' : ChangeOK(c)'
  BY <1>1, ChangeKept DEF IInv
<1>4. \A i \in Releases : ReleaseOK(i)'
  BY DEF IInv, ReleaseOK, Whole
<1>5. TypeOK'
  BY DEF IInv, TypeOK, At
<1> QED BY <1>2, <1>3, <1>4, <1>5 DEF IInv

\* The pull request is merged on the tip it was made on, where the index was empty.
LEMMA MergeRecords ==
  ASSUME IInv, NEW c \in change, Merge(c)
  PROVE  index = {} /\ index' = {c.entry} /\ c.entry \in Approvals /\ Importable(c.entry)
BY DEF IInv, TypeOK, Change, ChangeOK, Merge, UpToDate

LEMMA MergeOK ==
  ASSUME IInv, NEW c \in change, Merge(c)
  PROVE  IInv'
<1>1. PICK rev \in Revs \ been : tip' = rev /\ been' = been \cup {rev}
  BY DEF Merge
<1>2. Importable(c.entry)'
  BY MergeRecords DEF Merge, Importable, Published, Tagged, Sealed
<1>3. IndexOK' /\ index' \subseteq Approvals
  BY <1>2, MergeRecords DEF IndexOK, Importable
<1> QED BY <1>1, <1>3, RepositoryStep DEF Merge

LEMMA AdvanceOK ==
  ASSUME IInv, Advance
  PROVE  IInv'
<1>1. PICK rev \in Revs \ been : tip' = rev /\ been' = been \cup {rev}
  BY DEF Advance
<1>2. IndexOK' /\ index' \subseteq Approvals
  BY DEF Advance, IInv, TypeOK, IndexOK, Importable, Published, Tagged, Sealed
<1> QED BY <1>1, <1>2, RepositoryStep DEF Advance

\* Nothing the invariant speaks of changes.
LEMMA UntouchedOK ==
  ASSUME IInv, sealing' \in BOOLEAN, UNCHANGED <<tip, been, index, change, release, session, failures>>
  PROVE  IInv'
<1>1. \A s \in Sessions : CommandOK(session[s])'
  BY DEF IInv, CommandOK, Holds, Tagged, Importable, Published, Sealed, Whole
<1>2. /\ \A i \in Releases : ReleaseOK(i)'
      /\ \A c \in change' : ChangeOK(c)'
      /\ IndexOK'
  BY DEF IInv, ReleaseOK, Whole, ChangeOK, IndexOK, Importable, Published, Tagged, Sealed
<1>3. TypeOK'
  BY DEF IInv, TypeOK, At
<1> QED BY <1>1, <1>2, <1>3 DEF IInv

LEMMA InitOK == Init => IInv
<1> SUFFICES ASSUME Init PROVE IInv
  OBVIOUS
<1>1. TypeOK
  BY AcceptanceAssumption, IdleOK DEF Init, TypeOK, Idle, At
<1>2. \A s \in Sessions : CommandOK(session[s])
  BY DEF Init, Idle, CommandOK, Releasing
<1> QED BY <1>1, <1>2 DEF Init, IInv, ReleaseOK, IndexOK

LEMMA NextOK == IInv /\ [Next]_vars => IInv'
<1> SUFFICES ASSUME IInv, [Next]_vars PROVE IInv'
  OBVIOUS
<1>1. ASSUME NEW s \in Sessions, Command(s) PROVE IInv'
  <2>1. CASE Finish(s)
    BY <2>1, StopStep DEF Finish
  <2> QED
    BY <1>1, <2>1, SnapshotOK, ReadSettingsOK, ListReleasesOK, CheckEvidenceOK, ReadCurrentOK, DraftOK,
       ReuseOK, UploadOK, ReadBackOK, RecheckCurrentOK, RecheckSealingOK, PublishOK, ConfirmOK,
       ImportOK, ProposeOK DEF Command
<1>2. ASSUME NEW s \in Sessions, Fail(s) PROVE IInv'
  BY <1>2, FailOK
<1>3. ASSUME NEW s \in Sessions, NEW a \in Approvals, Begin(s, a) PROVE IInv'
  BY <1>3, BeginOK
<1>4. ASSUME NEW c \in change, Merge(c) PROVE IInv'
  BY <1>4, MergeOK
<1>5. CASE Advance
  BY <1>5, AdvanceOK
<1>6. CASE Toggle
  BY <1>6, UntouchedOK DEF Toggle, repository, IInv, TypeOK
<1>7. CASE UNCHANGED vars
  BY <1>7, UntouchedOK DEF vars, IInv, TypeOK
<1> QED BY <1>1, <1>2, <1>3, <1>4, <1>5, <1>6, <1>7 DEF Next

\* The inductive invariant of acceptance.
THEOREM AcceptanceInvariant == Spec => []IInv
<1> QED BY InitOK, NextOK, PTL DEF Spec

-----------------------------------------------------------------------------
\* Acceptance keeps its types, whatever its commands, approvals, files and releases.
THEOREM AcceptanceType == Spec => []TypeOK
<1>1. IInv => TypeOK
  BY DEF IInv
<1> QED BY <1>1, AcceptanceInvariant, PTL

\* A release is published only with all of its assets complete (acceptance.py:216-230),
\* for any number of commands that draft, upload, are interrupted and come back.
THEOREM OnlyWholePublished == Spec => []PublishedIntact
<1>1. IInv => PublishedIntact
  BY DEF IInv, PublishedIntact, Published, Tagged, ReleaseOK
<1> QED BY <1>1, AcceptanceInvariant, PTL

\* Every indexed acceptance rests on a sealed, complete release and on evidence for a
\* revision the branch had, and the index never holds two (candidate.py:286-288).
THEOREM IndexRests == Spec => []IndexBacked
<1>1. ASSUME IInv PROVE IndexBacked
  <2>1. Cardinality(index) <= 1
    <3>1. CASE index = {}
      <4>1. Cardinality(index) = 0
        BY <3>1, FS_EmptySet
      <4> QED BY <4>1
    <3>2. ASSUME NEW a, index = {a} PROVE Cardinality(index) <= 1
      <4>1. Cardinality(index) = 1
        BY <3>2, FS_Singleton
      <4> QED BY <4>1
    <3> QED BY <1>1, <3>1, <3>2 DEF IInv, IndexOK
  <2>2. ASSUME NEW a \in index
        PROVE  a \in Evidenced /\ BaseOf[a] \in been /\ \E i \in Published(a) : Sealed(i) /\ Whole(i)
    <3>1. PICK i \in Published(a) : Sealed(i)
      BY <1>1 DEF IInv, IndexOK, Importable
    <3> QED BY <1>1, <3>1 DEF IInv, ReleaseOK, Published, Tagged
  <2> QED BY <2>1, <2>2 DEF IndexBacked
<1> QED BY <1>1, AcceptanceInvariant, PTL

-----------------------------------------------------------------------------
\* The approvals whose release is sealed: what Decision calls sealed.
Decided == {a \in Approvals : Importable(a)}

\* A step that seals no release and leaves the index alone is none of Decision's.
LEMMA Stutters ==
  ASSUME index' = index,
         \A i \in Releases : \/ release'[i] = release[i]
                             \/ /\ release[i] = None \/ ~Sealed(i)
                                /\ release'[i] # None /\ ~Sealed(i)'
  PROVE  UNCHANGED <<Decided, index>>
<1>1. \A a \in Approvals : Importable(a)' <=> Importable(a)
  BY DEF Importable, Published, Tagged, Sealed
<1> QED BY <1>1 DEF Decided

\* Publishing seals at most the release of the command's own approval, which has its evidence.
LEMMA PublishSeals ==
  ASSUME IInv, NEW s \in Sessions, Publish(s)
  PROVE  UNCHANGED <<Decided, index>> \/ \E a \in Approvals : D!Seal(a)
<1>1. session[s] \in Session /\ CommandOK(session[s]) /\ session[s].step = "publish"
  BY DEF Publish, At, IInv, TypeOK
<1>2. PICK i \in Releases : i = session[s].rel
  BY <1>1 DEF CommandOK, Releasing, Holds, Tagged
<1>3. PICK a \in Approvals : a = session[s].approval
  BY <1>1 DEF CommandOK
<1>4. release[i] \in Release /\ ReleaseOK(i) /\ release[i].tag = a /\ a \in Evidenced
  BY <1>1, <1>2, <1>3 DEF IInv, TypeOK, CommandOK, Releasing, Holds, Tagged
<1>5. index' = index
  BY DEF Publish, repository
<1>6. CASE UNCHANGED release
  BY <1>5, <1>6, Stutters
<1>7. CASE release' = [release EXCEPT ![i].draft = FALSE,
                                      ![i].immutable = IF release[i].draft THEN sealing ELSE @]
  <2>1. PICK r : r = [release[i] EXCEPT !.draft = FALSE,
                        !.immutable = IF release[i].draft THEN sealing ELSE @]
    OBVIOUS
  <2>2. r \in Release /\ ~r.draft /\ r.tag = a /\ (~release[i].draft => r = release[i])
    BY <1>4, <2>1 DEF Release, IInv, TypeOK
  <2>3. /\ release'[i] = r /\ r # None
        /\ \A j \in Releases \ {i} : release'[j] = release[j]
    BY <1>7, <2>1, <2>2, AcceptanceAssumption DEF IInv, TypeOK
  <2>4. CASE ~release[i].draft
    BY <1>5, <2>2, <2>3, <2>4, Stutters
  <2>5. CASE release[i].draft /\ ~r.immutable
    <3>1. ~Sealed(i) /\ ~Sealed(i)'
      BY <2>3, <2>5 DEF Sealed
    <3> QED BY <1>5, <2>3, <3>1, Stutters
  <2>6. CASE release[i].draft /\ r.immutable
    <3>1. \A b \in Approvals : Importable(b)' <=> Importable(b) \/ b = a
      BY <1>4, <2>2, <2>3, <2>6, AcceptanceAssumption DEF Importable, Published, Tagged, Sealed
    <3>2. Decided' = Decided \cup {a}
      BY <3>1 DEF Decided
    <3> QED BY <1>4, <1>5, <3>2 DEF D!Seal, Decided, Importable
  <2> QED BY <2>2, <2>4, <2>5, <2>6 DEF Release
<1> QED BY <1>2, <1>6, <1>7 DEF Publish

\* Drafts and uploads seal nothing.
LEMMA DraftsSealNothing ==
  ASSUME IInv, NEW s \in Sessions, Draft(s) \/ Upload(s)
  PROVE  UNCHANGED <<Decided, index>>
<1>1. session[s] \in Session /\ CommandOK(session[s])
  BY DEF IInv, TypeOK
<1>2. index' = index
  BY DEF Draft, Upload, repository
<1>3. CASE Draft(s)
  <2> DEFINE r == [tag |-> session[s].approval, draft |-> TRUE, immutable |-> FALSE,
                   asset |-> [f \in Files |-> "absent"]]
  <2>1. r \in Release
    BY <1>1, <1>3 DEF Draft, At, Release, CommandOK
  <2>2. r # None /\ r.draft
    BY <2>1, AcceptanceAssumption
  <2>3. PICK i \in Releases : release[i] = None /\ release' = [release EXCEPT ![i] = r]
    BY <1>3 DEF Draft
  <2> HIDE DEF r
  <2>4. release'[i] = r /\ \A j \in Releases \ {i} : release'[j] = release[j]
    BY <2>3 DEF IInv, TypeOK
  <2> QED BY <1>2, <2>2, <2>3, <2>4, Stutters DEF Sealed
<1>4. CASE Upload(s)
  <2>1. PICK i \in Releases : i = session[s].rel
    BY <1>1, <1>4 DEF Upload, At, CommandOK, Releasing, Holds, Tagged
  <2>2. release[i] \in Release
    BY <1>1, <1>4, <2>1 DEF Upload, At, IInv, TypeOK, CommandOK, Releasing, Holds, Tagged
  <2>3. CASE UNCHANGED release
    BY <1>2, <2>3, Stutters
  <2>4. ASSUME NEW f \in Files, NEW state, ~release[i].immutable,
               release' = [release EXCEPT ![i].asset[f] = state],
               state \in {"uploaded", "starter"}
        PROVE  UNCHANGED <<Decided, index>>
    <3>1. PICK r : r = [release[i] EXCEPT !.asset[f] = state]
      OBVIOUS
    <3>2. r \in Release /\ ~r.immutable
      BY <2>2, <2>4, <3>1 DEF Release
    <3>3. release'[i] = r /\ r # None /\ \A j \in Releases \ {i} : release'[j] = release[j]
      BY <2>4, <3>1, <3>2, AcceptanceAssumption DEF IInv, TypeOK
    <3> QED BY <1>2, <2>4, <3>2, <3>3, Stutters DEF Sealed
  <2> QED BY <1>4, <2>1, <2>3, <2>4 DEF Upload
<1> QED BY <1>3, <1>4

LEMMA DecisionStep ==
  ASSUME IInv, [Next]_vars
  PROVE  [D!Next]_<<Decided, index>>
<1>1. ASSUME UNCHANGED <<release, index>> PROVE UNCHANGED <<Decided, index>>
  BY <1>1, Stutters
<1>2. ASSUME NEW s \in Sessions, Command(s) PROVE [D!Next]_<<Decided, index>>
  <2>1. CASE Publish(s)
    BY <2>1, PublishSeals DEF D!Next
  <2>2. CASE Draft(s) \/ Upload(s)
    BY <2>2, DraftsSealNothing
  <2>3. CASE ~Publish(s) /\ ~Draft(s) /\ ~Upload(s)
    <3>1. UNCHANGED <<release, index>>
      BY <1>2, <2>3 DEF Command, Snapshot, ReadSettings, ListReleases, CheckEvidence, ReadCurrent, Reuse,
         ReadBack, RecheckCurrent, RecheckSealing, Confirm, Import, Propose, Finish, ReadOnly, repository
    <3> QED BY <1>1, <3>1
  <2> QED BY <2>1, <2>2, <2>3
<1>3. ASSUME NEW c \in change, Merge(c) PROVE [D!Next]_<<Decided, index>>
  <2>1. Decided' = Decided
    BY <1>3 DEF Merge, Decided, Importable, Published, Tagged, Sealed
  <2>2. c.entry \in Decided /\ c.entry \in Approvals /\ index = {} /\ index' = {c.entry}
    BY <1>3, MergeRecords DEF Decided
  <2>3. D!Record(c.entry)
    BY <2>1, <2>2 DEF D!Record, Decided, Importable
  <2> QED BY <2>2, <2>3 DEF D!Next
<1>4. ASSUME NEW s \in Sessions, Fail(s) \/ \E a \in Approvals : Begin(s, a)
      PROVE  [D!Next]_<<Decided, index>>
  BY <1>1, <1>4 DEF Fail, Begin, ReadOnly, repository
<1>5. CASE Advance \/ Toggle \/ UNCHANGED vars
  BY <1>1, <1>5 DEF Advance, Toggle, repository, vars
<1> QED BY <1>2, <1>3, <1>4, <1>5 DEF Next

\* The commands implement Decision: a decision is sealed once, on evidence, and never
\* taken back, and the index records one sealed decision and keeps it.
THEOREM AcceptanceDecides == Spec => Decides
<1>1. Init => D!Init
  BY DEF Init, D!Init, Tagged, Published
<1>2. IInv /\ [Next]_vars => [D!Next]_<<{a \in Approvals : \E i \in Published(a) : Sealed(i)}, index>>
  BY DecisionStep DEF Decided, Importable
<1> QED BY <1>1, <1>2, AcceptanceInvariant, PTL DEF Spec, Decides, D!Spec
=============================================================================
