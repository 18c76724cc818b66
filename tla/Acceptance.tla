----------------------------- MODULE Acceptance -----------------------------
(***************************************************************************)
(* Administrator acceptance of one registered candidate                     *)
(* (verifier/acceptance.py, and the publish command of verifier/candidate.py *)
(* around it).  An operator's command checks the evidence an approval names, *)
(* drafts a release, uploads its assets, reads them back, publishes it       *)
(* immutably, imports it again and proposes an entry for the protected index. *)
(* It may fail after any of its API calls; running it again with the same    *)
(* approval is the only recovery.                                            *)
(*                                                                          *)
(* A release tag is a hash of its approval, so the approval stands for it;   *)
(* the contents of assets and archive commits follow from the approval.      *)
(***************************************************************************)
EXTENDS Naturals, FiniteSets

CONSTANTS
  Sessions,     \* operator commands that may run at the same time
  Approvals,    \* approval files for the candidate, one release tag each
  Revs,         \* revisions of the default branch
  BaseOf,       \* [Approvals -> Revs]: verifier_sha
  Evidenced,    \* approvals whose run, jobs, artifact and archive check out
  Files,        \* assets of a release
  Releases,     \* release ids, later ones larger
  None,         \* absent value
  MayInterrupt, \* may an upload end half-way
  MayToggle,    \* may the repository's immutable-releases setting change
  MaxFailures   \* failing API calls (bound)

Release == [tag : Approvals, draft : BOOLEAN, immutable : BOOLEAN,
            asset : [Files -> {"absent", "starter", "uploaded"}]]

ASSUME AcceptanceAssumption ==
  /\ BaseOf \in [Approvals -> Revs] /\ Evidenced \subseteq Approvals
  /\ Releases \subseteq Nat /\ IsFiniteSet(Releases)
  /\ MayInterrupt \in BOOLEAN /\ MayToggle \in BOOLEAN
  /\ MaxFailures \in Nat
  /\ None \notin Approvals \cup Revs \cup Releases \cup Release

VARIABLES
  tip,          \* protected default branch
  been,         \* every revision it has pointed at
  index,        \* docs/acceptance-publications.json on the default branch
  change,       \* open publication PRs: entry and the base they were made on
  sealing,      \* immutable-releases enabled
  release,      \* the releases, None while they do not exist
  session,      \* what each command is doing
  failures      \* failed calls so far

repository == <<tip, been, index, change>>
vars == <<tip, been, index, change, sealing, release, session, failures>>

Change == [entry : Approvals, base : Revs]

Steps == {"idle", "begin", "admin", "list", "evidence", "current", "draft", "reuse",
          "upload", "readback", "recheck", "sealed", "publish", "confirm", "import",
          "index", "done"}
Session == [step : Steps, approval : Approvals \cup {None}, base : Revs \cup {None},
            prior : SUBSET Approvals, rel : Releases \cup {None}, held : SUBSET Files]
Idle == [step |-> "idle", approval |-> None, base |-> None, prior |-> {},
         rel |-> None, held |-> {}]

Tagged(a) == {i \in Releases : release[i] # None /\ release[i].tag = a}
Published(a) == {i \in Tagged(a) : ~release[i].draft}
Named(i) == {f \in Files : release[i].asset[f] # "absent"}

At(s, step) == session[s].step = step
Set(s, new) == session' = [session EXCEPT ![s] = new]
Goto(s, step) == Set(s, [session[s] EXCEPT !.step = step])
Stop(s) == Set(s, Idle)

\* A step that goes on if its requirement holds and ends the command otherwise.
Require(s, holds, step) == IF holds THEN Goto(s, step) ELSE Stop(s)
ReadOnly == UNCHANGED <<repository, sealing, release, failures>>

(***************************************************************************)
(* candidate.publish: the target, the registry and index of that revision.  *)
(***************************************************************************)
Begin(s, a) ==
  /\ At(s, "idle")
  /\ Set(s, [Idle EXCEPT !.step = "begin", !.approval = a, !.base = tip])
  /\ ReadOnly

Snapshot(s) ==
  /\ At(s, "begin")
  /\ \/ /\ tip = session[s].base
        /\ Set(s, [session[s] EXCEPT !.step = "admin", !.prior = index])
     \/ tip # session[s].base /\ Stop(s)
  /\ ReadOnly

(***************************************************************************)
(* acceptance.accept.                                                       *)
(***************************************************************************)
Agrees(prior, a) == prior \subseteq {a}

ReadSettings(s) ==
  /\ At(s, "admin")
  /\ Require(s, sealing /\ Agrees(session[s].prior, session[s].approval), "list")
  /\ ReadOnly

\* The first release of that tag in the listing, newest first.
Newest(S) == CHOOSE i \in S : \A j \in S : j <= i
\* Mutated form: a published release is treated like a draft.
ListReleasesAsDraft(s) ==
  LET found == Tagged(session[s].approval) IN
  /\ At(s, "list")
  /\ Set(s, [session[s] EXCEPT !.step = "evidence",
                               !.rel = IF found = {} THEN None ELSE Newest(found)])
  /\ ReadOnly

ListReleases(s) ==
  LET found == Tagged(session[s].approval) IN
  /\ At(s, "list")
  /\ \/ found = {} /\ Goto(s, "evidence")
     \/ /\ found # {} /\ release[Newest(found)].draft
        /\ Set(s, [session[s] EXCEPT !.step = "evidence", !.rel = Newest(found)])
     \/ found # {} /\ ~release[Newest(found)].draft /\ Goto(s, "import")
  /\ ReadOnly

CheckEvidence(s) ==
  LET a == session[s].approval IN
  /\ At(s, "evidence")
  /\ Require(s, BaseOf[a] = session[s].base /\ a \in Evidenced, "current")
  /\ ReadOnly

OnTip(s) == tip = session[s].base

ReadCurrent(s) ==
  /\ At(s, "current")
  /\ Require(s, OnTip(s), IF session[s].rel = None THEN "draft" ELSE "reuse")
  /\ ReadOnly

\* Mutated form: the new release is not kept for the uploads.
DraftUnkept(s) ==
  /\ At(s, "draft")
  /\ \E i \in Releases :
       /\ release[i] = None /\ \A j \in Releases : j < i => release[j] # None
       /\ release' = [release EXCEPT ![i] =
            [tag |-> session[s].approval, draft |-> TRUE, immutable |-> FALSE,
             asset |-> [f \in Files |-> "absent"]]]
  /\ Goto(s, "upload")
  /\ UNCHANGED <<repository, sealing, failures>>

Draft(s) ==
  /\ At(s, "draft")
  /\ \E i \in Releases :
       /\ release[i] = None /\ \A j \in Releases : j < i => release[j] # None
       /\ release' = [release EXCEPT ![i] =
            [tag |-> session[s].approval, draft |-> TRUE, immutable |-> FALSE,
             asset |-> [f \in Files |-> "absent"]]]
       /\ Set(s, [session[s] EXCEPT !.step = "upload", !.rel = i])
  /\ UNCHANGED <<repository, sealing, failures>>

\* Mutated form: the assets the draft already has are uploaded again.
ReuseAll(s) == At(s, "reuse") /\ Goto(s, "upload") /\ ReadOnly

Reuse(s) ==
  /\ At(s, "reuse")
  /\ Set(s, [session[s] EXCEPT !.step = "upload", !.held = Named(session[s].rel)])
  /\ ReadOnly

\* Each file whose name the release did not show when read is uploaded; GitHub
\* refuses a second asset of one name and any change of a sealed release.
Upload(s) ==
  LET i == session[s].rel IN
  /\ At(s, "upload")
  /\ \/ /\ session[s].held = Files
        /\ Goto(s, "readback")
        /\ UNCHANGED release
     \/ \E f \in Files \ session[s].held :
          \/ /\ f \notin Named(i) /\ ~release[i].immutable
             /\ release' = [release EXCEPT ![i].asset[f] = "uploaded"]
             /\ Set(s, [session[s] EXCEPT !.held = @ \cup {f}])
          \/ /\ f \in Named(i) \/ release[i].immutable
             /\ Stop(s)
             /\ UNCHANGED release
          \/ /\ MayInterrupt /\ f \notin Named(i) /\ ~release[i].immutable
             /\ release' = [release EXCEPT ![i].asset[f] = "starter"]
             /\ Stop(s)
  /\ UNCHANGED <<repository, sealing, failures>>

\* Mutated form: only the asset names are compared.
IntactNames(i) == Named(i) = Files

\* verify_assets: the exact set of assets, each fully uploaded and read back.
Intact(i) == \A f \in Files : release[i].asset[f] = "uploaded"

ReadBack(s) ==
  /\ At(s, "readback")
  /\ Require(s, Intact(session[s].rel), "recheck")
  /\ ReadOnly

RecheckCurrent(s) ==
  /\ At(s, "recheck")
  /\ Require(s, OnTip(s), "sealed")
  /\ ReadOnly

RecheckSealing(s) ==
  /\ At(s, "sealed")
  /\ Require(s, sealing, "publish")
  /\ ReadOnly

\* A draft becomes a release and gets its tag; GitHub refuses a second release
\* of a tag.  Publishing what is already published changes nothing.
Publish(s) ==
  LET i == session[s].rel  a == session[s].approval IN
  /\ At(s, "publish")
  /\ \/ /\ Published(a) \subseteq {i}
        /\ release' = [release EXCEPT ![i].draft = FALSE,
                                      ![i].immutable = IF release[i].draft THEN sealing ELSE @]
        /\ Goto(s, "confirm")
     \/ /\ ~(Published(a) \subseteq {i})
        /\ Stop(s)
        /\ UNCHANGED release
  /\ UNCHANGED <<repository, sealing, failures>>

Sealed(i) == ~release[i].draft /\ release[i].immutable

Confirm(s) ==
  /\ At(s, "confirm")
  /\ Require(s, Sealed(session[s].rel) /\ Intact(session[s].rel), "import")
  /\ ReadOnly

\* Mutated form: the release is not required to be immutable.
ImportableDraftless(a) == Published(a) # {}

\* import_release: the published release of the tag, immutable, with its record.
Importable(a) == \E i \in Published(a) : Sealed(i)

Import(s) ==
  /\ At(s, "import")
  /\ Require(s, Importable(session[s].approval), "index")
  /\ ReadOnly

(***************************************************************************)
(* candidate.publish again: the index entry goes through a publication PR    *)
(* on the base of the snapshot, unless the index already has it.             *)
(***************************************************************************)
Propose(s) ==
  LET a == session[s].approval IN
  /\ At(s, "index")
  /\ \/ /\ ~Agrees(session[s].prior, a) \/ ~OnTip(s)
        /\ Stop(s)
        /\ UNCHANGED change
     \/ /\ Agrees(session[s].prior, a) /\ OnTip(s)
        /\ change' = IF session[s].prior = {}
                     THEN change \cup {[entry |-> a, base |-> session[s].base]} ELSE change
        /\ Goto(s, "done")
  /\ UNCHANGED <<tip, been, index, sealing, release, failures>>

Finish(s) == At(s, "done") /\ Stop(s) /\ ReadOnly

\* Mutated form: a pull request is merged although it is behind its base.
UpToDateAlways(c) == c \in change
\* Only a clean pull request is merged, and strict protection calls one clean
\* only when it contains the tip.
UpToDate(c) == c.base = tip

Merge(c) ==
  /\ c \in change /\ UpToDate(c)
  /\ index' = index \cup {c.entry}
  /\ change' = change \ {c}
  /\ \E rev \in Revs \ been : tip' = rev /\ been' = been \cup {rev}
  /\ UNCHANGED <<sealing, release, session, failures>>

(***************************************************************************)
(* The surroundings.                                                        *)
(***************************************************************************)
Advance ==
  /\ \E rev \in Revs \ been : tip' = rev /\ been' = been \cup {rev}
  /\ UNCHANGED <<index, change, sealing, release, session, failures>>

Toggle ==
  /\ MayToggle /\ sealing' = ~sealing
  /\ UNCHANGED <<repository, release, session, failures>>

\* A call fails, or the operator interrupts the command.
Fail(s) ==
  /\ ~At(s, "idle") /\ failures < MaxFailures
  /\ failures' = failures + 1
  /\ Stop(s)
  /\ UNCHANGED <<repository, sealing, release>>

-----------------------------------------------------------------------------
Init ==
  /\ tip \in Revs /\ been = {tip}
  /\ index = {} /\ change = {}
  /\ sealing = TRUE
  /\ release = [i \in Releases |-> None]
  /\ session = [s \in Sessions |-> Idle]
  /\ failures = 0

Command(s) ==
  \/ Snapshot(s) \/ ReadSettings(s) \/ ListReleases(s) \/ CheckEvidence(s)
  \/ ReadCurrent(s) \/ Draft(s) \/ Reuse(s) \/ Upload(s) \/ ReadBack(s)
  \/ RecheckCurrent(s) \/ RecheckSealing(s) \/ Publish(s) \/ Confirm(s) \/ Import(s)
  \/ Propose(s) \/ Finish(s)

Next ==
  \/ \E s \in Sessions : Command(s) \/ Fail(s) \/ \E a \in Approvals : Begin(s, a)
  \/ \E c \in change : Merge(c)
  \/ Advance \/ Toggle

Spec == Init /\ [][Next]_vars

\* A command runs to its end, and the operator runs it again.
FairSpec ==
  /\ Spec
  /\ \A s \in Sessions : WF_vars(Command(s)) /\ WF_vars(\E a \in Approvals : Begin(s, a))
-----------------------------------------------------------------------------
TypeOK ==
  /\ tip \in Revs /\ been \subseteq Revs /\ tip \in been
  /\ index \subseteq Approvals /\ change \subseteq Change
  /\ sealing \in BOOLEAN
  /\ release \in [Releases -> Release \cup {None}]
  /\ session \in [Sessions -> Session]
  /\ failures \in 0..MaxFailures
  /\ \A s \in Sessions :
       /\ ~At(s, "idle") => session[s].approval \in Approvals /\ session[s].base \in Revs
       /\ session[s].step \in {"reuse", "upload", "readback", "recheck", "sealed",
                               "publish", "confirm"} => session[s].rel \in Releases

Whole(i) == release[i].asset = [f \in Files |-> "uploaded"]

\* A release is published only with all of its assets complete
\* (acceptance.py:216-230), whichever commands drafted it, uploaded to it, were
\* interrupted on it and came back to it.
PublishedIntact == \A a \in Approvals : \A i \in Published(a) : Whole(i)

\* Every indexed acceptance rests on a sealed release and on evidence for the
\* approved revision, and the index never holds two (candidate.py:286-288).
IndexBacked ==
  /\ Cardinality(index) <= 1
  /\ \A a \in index : /\ a \in Evidenced /\ BaseOf[a] \in been
                      /\ \E i \in Published(a) : Sealed(i) /\ Whole(i)

Accepted(a) == a \in index \/ \E s \in Sessions : At(s, "done") /\ session[s].approval = a

\* docs/candidate-lifecycle.md:141-143: a failed upload or readback leaves a draft
\* that a rerun with the same approval completes.  Here for an instance with one
\* approval, whose revision stays current and whose operator keeps trying.
RerunCompletes ==
  \A a \in Evidenced : <>[](tip = BaseOf[a] /\ sealing) => <>Accepted(a)

\* docs/candidate-lifecycle.md:144-145: an acceptance that was published can be
\* resumed without reissuing it, also after the default branch moved.
PublishedResumes ==
  \A a \in Approvals :
    <>[]sealing /\ <>(\E i \in Published(a) : Sealed(i)) => <>(Accepted(a) \/ index # {})

\* The command implements the promise of Decision.
D == INSTANCE Decision WITH sealed <- {a \in Approvals : \E i \in Published(a) : Sealed(i)}
Decides == D!Spec
=============================================================================
