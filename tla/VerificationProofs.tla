------------------------- MODULE VerificationProofs -------------------------
(***************************************************************************)
(* Theorems about Verification, for all values of its constants.            *)
(***************************************************************************)
EXTENDS Verification, TLAPS, FiniteSetTheorems

\* The stages before the present one are answered, those after it are not.
Answers ==
  /\ at \in 1..Number
  /\ answer \in [1..Number -> {"open", "accepted", "rejected"}]
  /\ \A n \in 1..(at - 1) : answer[n] = "accepted"
  /\ result = "none" => \A n \in at..Number : answer[n] = "open"
  /\ result = "passed" => \A n \in 1..Number : answer[n] = "accepted"

\* The client and its exit code; a code of the stage's own means the container is gone.
Clients ==
  /\ phase \in {"idle", "enter", "read", "wait", "cleanup", "judge", "end"}
  /\ client \in {"none", "starting", "running", "closed", "exited", "killed"}
  /\ code \in {"none", "ok", "reject", "runtime"}
  /\ client = "none" <=> phase \in {"idle", "enter", "end"}
  /\ client \in {"none", "starting", "running"} => code = "none"
  /\ Closed => code # "none"
  /\ code \in {"ok", "reject"} => box = "none"

\* What the controller knows once a stream has ended, and once no exception is on its way.
Reading ==
  /\ sent \in [Streams -> Nat] /\ got \in [Streams -> Nat] /\ todo \subseteq Streams
  /\ error \in BOOLEAN /\ (error => phase \in {"cleanup", "judge"})
  /\ phase = "read" => \A s \in Streams \ todo : got[s] = sent[s] /\ Closed
  /\ phase = "wait" => got = sent /\ Closed
  /\ phase \in {"cleanup", "judge"} /\ ~error => got = sent /\ client = "exited"

Verdicts ==
  /\ result \in {"none", "passed", "failed", "infrastructure_error"}
  /\ phase = "end" <=> result # "none"
  /\ phase \in {"idle", "enter"} => box = "none"
  /\ result \in {"passed", "failed"} => box = "none"

BInv == Answers /\ Clients /\ Reading /\ Verdicts

BStep == Controller \/ Environment \/ Tick \/ \E c, s : Verify(c, s)

LEMMA NumberType == Number = 15
  BY DEF Number, Stages

LEMMA BInitInv == BInit => BInv
<1> SUFFICES ASSUME BInit PROVE BInv
  OBVIOUS
<1>1. Answers
  BY NumberType DEF BInit, Answers
<1>2. Clients /\ Reading /\ Verdicts
  BY DEF BInit, Clients, Reading, Verdicts, Closed, Zero, Streams
<1> QED BY <1>1, <1>2 DEF BInv

LEMMA AdvanceAnswers ==
  ASSUME Answers, result = "none", Advance, answer' = [answer EXCEPT ![at] = "accepted"]
  PROVE  Answers'
<1>1. CASE at = Number
  BY <1>1, NumberType DEF Advance, End, Answers
<1>2. CASE at # Number
  <2>1. at' = at + 1 /\ at' \in 1..Number /\ result' = "none"
    BY <1>2, NumberType DEF Advance, Answers
  <2>2. \A n \in at'..Number : answer'[n] = "open"
    BY <2>1, NumberType DEF Answers
  <2> QED BY <2>1, <2>2, NumberType DEF Answers
<1> QED BY <1>1, <1>2

LEMMA BStepInv == BInv /\ [BStep]_bvars => BInv'
<1> SUFFICES ASSUME BInv, [BStep]_bvars PROVE BInv'
  OBVIOUS
<1> USE NumberType DEF BInv
<1>1. CASE UNCHANGED bvars
  BY <1>1 DEF bvars, execution, Answers, Clients, Reading, Verdicts, Closed
<1>2. CASE \E c, s : Verify(c, s)
  BY <1>2 DEF Verify, execution, Answers, Clients, Reading, Verdicts, Closed
<1>3. CASE Popen
  BY <1>3 DEF Popen, End, Answers, Clients, Reading, Verdicts, Closed, Streams
<1>4. CASE Deadline
  BY <1>4 DEF Deadline, Loop, Raise, execution, Answers, Clients, Reading, Verdicts, Closed
<1>5. CASE Select
  <2>1. Answers' /\ Clients' /\ Verdicts'
    BY <1>5 DEF Select, Loop, Raise, Answers, Clients, Verdicts, Reading, Closed
  <2>2. got' \in [Streams -> Nat] /\ todo' \subseteq todo /\ UNCHANGED <<sent, client>>
    BY <1>5 DEF Select, Reading
  <2>3. ASSUME phase' = "read", NEW s \in Streams \ todo' PROVE got'[s] = sent[s] /\ Closed
    <3>1. CASE s \notin todo
      BY <1>5, <3>1 DEF Select, Loop, Ready, Reading
    <3>2. CASE s \in todo
      <4>1. s \in Ready /\ got[s] = sent[s]
        BY <1>5, <2>3, <3>2 DEF Select
      <4>2. got'[s] = got[s]
        BY <1>5, <4>1 DEF Select
      <4> QED BY <4>1, <4>2 DEF Ready, Reading
    <3> QED BY <3>1, <3>2
  <2>4. Reading'
    BY <1>5, <2>2, <2>3 DEF Select, Loop, Raise, Reading, Closed
  <2> QED BY <2>1, <2>4
<1>6. CASE Drained
  <2>1. Answers' /\ Clients' /\ Verdicts'
    BY <1>6 DEF Drained, Answers, Clients, Verdicts, Reading, Closed
  <2>2. got = sent /\ Closed
    BY <1>6 DEF Drained, Reading, Streams
  <2>3. Reading'
    BY <1>6, <2>2 DEF Drained, Reading, Closed
  <2> QED BY <2>1, <2>3
<1>7. CASE Wait
  BY <1>7 DEF Wait, Raise, execution, Answers, Clients, Reading, Verdicts, Closed
<1>8. CASE Cleanup
  BY <1>8 DEF Cleanup, Answers, Clients, Reading, Verdicts, Closed
<1>9. CASE Judge
  <2> client = "exited" \/ error
    BY <1>9 DEF Judge, Reading
  <2>1. Clients' /\ Reading'
    BY <1>9 DEF Judge, End, Advance, Status, Clients, Reading, Closed, Zero
  <2>2. Verdicts'
    BY <1>9 DEF Judge, End, Advance, Status, Clients, Reading, Verdicts, Closed
  <2>3. Answers'
    <3>2. Said \in {"open", "accepted", "rejected"}
      BY DEF Said
    <3>3. ~error /\ code = "ok" /\ ~Refused => Said = "accepted"
      BY <1>9 DEF Judge, Said, Reading
    <3>4. CASE error
      BY <1>9, <3>4 DEF Judge, End, Answers, Verdicts, Clients
    <3>5. CASE ~error /\ ~(code = "ok" /\ ~Refused)
      BY <1>9, <3>2, <3>5 DEF Judge, End, Status, Answers, Verdicts, Clients
    <3>6. CASE ~error /\ code = "ok" /\ ~Refused
      <4>1. Advance /\ answer' = [answer EXCEPT ![at] = "accepted"] /\ result = "none"
        BY <1>9, <3>3, <3>6 DEF Judge, Verdicts, Clients
      <4> QED BY <4>1, AdvanceAnswers
    <3> QED BY <3>4, <3>5, <3>6
  <2> QED BY <2>1, <2>2, <2>3
<1>10. CASE Prepare
  <2>1. Clients' /\ Reading' /\ Verdicts'
    BY <1>10 DEF Prepare, End, Advance, execution, Clients, Reading, Verdicts, Closed
  <2>2. result = "none"
    BY <1>10 DEF Prepare, Verdicts
  <2>3. Answers'
    <3>1. CASE Advance /\ answer' = [answer EXCEPT ![at] = "accepted"]
      BY <2>2, <3>1, AdvanceAnswers
    <3>2. CASE End("failed") /\ UNCHANGED at /\ answer' = [answer EXCEPT ![at] = "rejected"]
      BY <3>2 DEF End, Answers
    <3>3. CASE End("infrastructure_error") /\ UNCHANGED <<at, answer>>
      BY <3>3 DEF End, Answers
    <3> QED BY <1>10, <3>1, <3>2, <3>3 DEF Prepare
  <2> QED BY <2>1, <2>3
<1>11. CASE Create
  BY <1>11 DEF Create, World, Answers, Clients, Reading, Verdicts, Closed
<1>12. CASE Break
  BY <1>12 DEF Break, World, Answers, Clients, Reading, Verdicts, Closed
<1>13. CASE Exit
  BY <1>13 DEF Exit, World, Answers, Clients, Reading, Verdicts, Closed
<1>14. ASSUME NEW s \in Streams, Emit(s) PROVE BInv'
  BY <1>14 DEF Emit, World, Answers, Clients, Reading, Verdicts, Closed
<1>15. ASSUME NEW c \in {"ok", "reject", "runtime"}, NEW good \in {"good", "bad"}, Finish(c, good)
       PROVE BInv'
  BY <1>15 DEF Finish, World, Answers, Clients, Reading, Verdicts, Closed
<1>16. CASE Tick
  BY <1>16 DEF Tick, World, Answers, Clients, Reading, Verdicts, Closed
<1> QED
  BY <1>1, <1>2, <1>3, <1>4, <1>5, <1>6, <1>7, <1>8, <1>9, <1>10, <1>11, <1>12, <1>13,
     <1>14, <1>15, <1>16 DEF BStep, Controller, Environment

(***************************************************************************)
(* The backend within the job.                                              *)
(***************************************************************************)
LEMMA JobStep == [Next]_vars => [BStep]_bvars
<1> SUFFICES ASSUME [Next]_vars PROVE [BStep]_bvars
  OBVIOUS
<1>1. CASE Launch
  BY <1>1 DEF Launch, BStep
<1>2. CASE Controlling \/ Happening
  BY <1>2 DEF Controlling, Happening, BStep
<1>3. CASE Intaking \/ Plan \/ Prerequisites \/ Materials \/ Outcome \/ Report
  BY <1>3 DEF Intaking, Plan, Prerequisites, Materials, Outcome, Report
<1>4. CASE UNCHANGED vars
  BY <1>4 DEF vars
<1> QED BY <1>1, <1>2, <1>3, <1>4 DEF Next, Program

LEMMA BackendInv == Spec => []BInv
<1>1. Init => BInv
  BY BInitInv DEF Init
<1>2. BInv /\ [Next]_vars => BInv'
  BY BStepInv, JobStep
<1> QED BY <1>1, <1>2, PTL DEF Spec

\* A container is left behind only by an infrastructure error, whatever client, container
\* and clock do.
THEOREM ContainersRemoved == Spec => []Alone
<1>1. BInv => Alone
  BY DEF BInv, Verdicts, Alone
<1> QED BY <1>1, BackendInv, PTL

LEMMA BackendRefines == BInv /\ [BStep]_bvars => [V!Next]_<<answer, result>>
<1> SUFFICES ASSUME BInv, [BStep]_bvars PROVE [V!Next]_<<answer, result>>
  OBVIOUS
<1> USE DEF V!Stage
<1>0. Answers /\ Number = 15 /\ at \in V!Stage
  BY NumberType DEF BInv, Answers
<1>1. result = "none" => V!Open(at)
  BY <1>0 DEF Answers, V!Open
<1>2. ASSUME result = "none", Advance, answer' = [answer EXCEPT ![at] = "accepted"]
      PROVE  V!Next
  <2>1. V!Accept(at)
    BY <1>1, <1>2 DEF V!Accept, Advance, End
  <2> QED BY <1>0, <2>1 DEF V!Next
<1>3. ASSUME result = "none", End("failed"), answer' = [answer EXCEPT ![at] = "rejected"]
      PROVE  V!Next
  <2>1. V!Reject(at)
    BY <1>1, <1>3 DEF V!Reject, End
  <2> QED BY <1>0, <2>1 DEF V!Next
<1>4. ASSUME result = "none", End("infrastructure_error"), UNCHANGED answer
      PROVE  V!Next
  BY <1>4 DEF V!Next, V!Lose, End
<1>5. CASE Judge
  <2>1. result = "none"
    BY <1>5 DEF Judge, BInv, Verdicts
  <2>2. ~error => got = sent /\ client = "exited"
    BY <1>5 DEF Judge, BInv, Reading
  <2>3. code \in {"none", "ok", "reject", "runtime"} /\ (client = "exited" => code # "none")
    BY DEF BInv, Clients, Closed
  <2>4. CASE error
    BY <1>4, <1>5, <2>1, <2>4 DEF Judge
  <2>5. CASE ~error /\ code = "runtime"
    <3>0. Said = "open"
      BY <2>5 DEF Said
    <3>a. answer' = [answer EXCEPT ![at] = Said] /\ End(Status(code))
      BY <1>5, <2>5 DEF Judge
    <3>b. Status(code) = "infrastructure_error"
      BY <2>5 DEF Status
    <3>1. answer' = [answer EXCEPT ![at] = "open"] /\ End("infrastructure_error")
      BY <3>0, <3>a, <3>b
    <3>2. answer' = answer
      BY <1>0, <2>1, <3>1 DEF Answers
    <3> QED BY <1>4, <2>1, <3>1, <3>2
  <2>6. CASE ~error /\ code = "reject"
    BY <1>3, <1>5, <2>1, <2>2, <2>6 DEF Judge, Said, Status
  <2>7. CASE ~error /\ code = "ok" /\ Refused
    BY <1>3, <1>5, <2>1, <2>2, <2>7 DEF Judge, Said
  <2>8. CASE ~error /\ code = "ok" /\ ~Refused
    BY <1>2, <1>5, <2>1, <2>2, <2>8 DEF Judge, Said
  <2> QED BY <2>2, <2>3, <2>4, <2>5, <2>6, <2>7, <2>8 DEF BInv, Reading
<1>6. CASE Prepare
  <2>1. result = "none"
    BY <1>6 DEF Prepare, BInv, Verdicts
  <2> QED BY <1>2, <1>3, <1>4, <1>6, <2>1 DEF Prepare
<1>7. CASE Popen
  <2>1. result = "none"
    BY <1>7 DEF Popen, BInv, Verdicts
  <2> QED BY <1>4, <1>7, <2>1 DEF Popen
<1>8. CASE Deadline \/ Select \/ Drained \/ Wait \/ Cleanup
  BY <1>8 DEF Deadline, Select, Drained, Wait, Cleanup
<1>9. CASE Environment \/ Tick
  BY <1>9 DEF Environment, Tick, Create, Break, Exit, Emit, Finish, World
<1>10. CASE \E c, s : Verify(c, s)
  BY <1>10 DEF Verify
<1>11. CASE UNCHANGED bvars
  BY <1>11 DEF bvars
<1> QED
  BY <1>5, <1>6, <1>7, <1>8, <1>9, <1>10, <1>11 DEF BStep, Controller

\* The backend implements Verdict: no interleaving of controller, client, container and
\* clock lets a pass, or a failure, rest on an answer that was not given in full.
THEOREM BackendJudges == Spec => Judges
<1>1. Init => V!Init
  BY DEF Init, BInit, V!Init, V!Stage
<1>2. BInv /\ [Next]_vars => [V!Next]_<<answer, result>>
  BY BackendRefines, JobStep
<1> QED BY <1>1, <1>2, BackendInv, PTL DEF Spec, Judges, V!Spec

(***************************************************************************)
(* The outcome.                                                             *)
(***************************************************************************)
Undecided == {"intake", "prerequisites", "materials", "launch", "verify"}

\* What has been concluded agrees with the backend's result, which stays.
Concluded ==
  /\ cand \in Candidate
  /\ job \in Undecided => outcome = NoOutcome /\ report = "none"
  /\ outcome.verification = "verified" => cand.problem = "approved" /\ result = "passed"
  /\ outcome.verification = "review_pending" => cand.problem # "approved" /\ outcome.machine = "passed"
  /\ outcome.verification = "verified" => outcome.machine = "passed"
  /\ report = "verified" => outcome.verification = "verified"
  /\ outcome.verification # "refused" /\ report # "refused"

LEMMA ResultStays == BInv /\ result = "passed" /\ [BStep]_bvars => result' = "passed"
<1> SUFFICES ASSUME BInv, result = "passed", [BStep]_bvars PROVE result' = "passed"
  OBVIOUS
<1>1. phase = "end"
  BY DEF BInv, Verdicts
<1>2. CASE Controller
  BY <1>1, <1>2 DEF Controller, Popen, Deadline, Select, Loop, Drained, Wait, Cleanup, Judge, Prepare
<1>3. CASE Environment \/ Tick
  BY <1>3 DEF Environment, Tick, Create, Break, Exit, Emit, Finish, World
<1>4. CASE \E c, s : Verify(c, s)
  BY <1>4 DEF Verify
<1>5. CASE UNCHANGED bvars
  BY <1>5 DEF bvars
<1> QED BY <1>2, <1>3, <1>4, <1>5 DEF BStep

LEMMA ConcludedInit == Init => Concluded
<1> SUFFICES ASSUME Init PROVE Concluded
  OBVIOUS
<1>1. cand \in Candidate
  BY IntakeAssumption DEF Init, IInit, Candidate
<1> QED BY <1>1 DEF Init, Concluded, NoOutcome, Undecided

LEMMA ConcludedStep == BInv /\ Concluded /\ [Next]_vars => Concluded'
<1> SUFFICES ASSUME BInv, Concluded, [Next]_vars PROVE Concluded'
  OBVIOUS
<1>0. result = "passed" => result' = "passed"
  BY ResultStays, JobStep
<1> USE DEF Concluded
<1>1. CASE Intaking
  <2>1. UNCHANGED <<cand, outcome, report, job>>
    BY <1>1 DEF Intaking, INext, evars, Check, Retrieve, Adapt, Refuse, Unavailable, Skip, Follow
  <2> QED BY <1>0, <2>1
<1>2. CASE Plan
  BY <1>0, <1>2 DEF Plan, ivars, Undecided
<1>3. CASE Prerequisites
  BY <1>0, <1>3 DEF Prerequisites, Conclude, ivars, Undecided
<1>4. CASE Materials
  BY <1>0, <1>4 DEF Materials, Conclude, ivars, Undecided
<1>5. CASE Launch
  <2>1. cand' \in Candidate /\ cand'.problem = cand.problem
    BY <1>5 DEF Launch, Candidate
  <2>2. UNCHANGED <<outcome, report>> /\ job = "launch"
    BY <1>5 DEF Launch
  <2> QED BY <1>0, <2>1, <2>2 DEF Undecided
<1>6. CASE Controlling \/ Happening
  BY <1>0, <1>6 DEF Controlling, Happening, evars, ivars
<1>7. CASE Outcome
  <2>1. UNCHANGED <<cand, result, report>> /\ job = "verify" /\ job' = "report"
    BY <1>7 DEF Outcome, Conclude, ivars, bvars
  <2>2. CASE Conclude(MachineStatus(result), VerificationStatus(result))
    BY <2>1, <2>2 DEF Conclude, MachineStatus, VerificationStatus, BInv, Verdicts, Undecided
  <2>3. CASE Conclude("not_run", "infrastructure_error")
    BY <2>1, <2>3 DEF Conclude, Undecided
  <2> QED BY <1>7, <2>2, <2>3 DEF Outcome
<1>8. CASE Report
  <2>1. report' = IF Consistent THEN outcome.verification ELSE "refused"
    BY <1>8 DEF Report
  <2>2. Consistent
    BY DEF Consistent
  <2>3. UNCHANGED <<cand, outcome>> /\ job' = "done"
    BY <1>8 DEF Report, ivars
  <2> QED BY <1>0, <2>1, <2>2, <2>3 DEF Undecided
<1>9. CASE UNCHANGED vars
  BY <1>9 DEF vars, bvars, ivars, evars
<1> QED
  BY <1>1, <1>2, <1>3, <1>4, <1>5, <1>6, <1>7, <1>8, <1>9 DEF Next, Program

LEMMA ConcludedInv == Spec => []Concluded
<1> QED BY ConcludedInit, ConcludedStep, BackendInv, PTL DEF Spec

\* The job reports a proof as verified only if its statement is approved and every stage
\* really accepted it.
THEOREM VerifiedEarned == Spec => []PassEarned
<1>1. BInv /\ Concluded => PassEarned
  BY DEF BInv, Answers, Concluded, PassEarned
<1> QED BY <1>1, BackendInv, ConcludedInv, PTL

\* The code's own consistency requirements never refuse an outcome.
THEOREM OutcomesWritten == Spec => []ResultWritten
<1>1. Concluded => ResultWritten
  BY DEF Concluded, ResultWritten
<1> QED BY <1>1, ConcludedInv, PTL

(***************************************************************************)
(* Preparation and materials.                                               *)
(***************************************************************************)
\* The worklist: what has been reached is selected or still to be followed.
Reached ==
  /\ cand.targets \subseteq selected \cup pending
  /\ \A f \in selected : deps[f] \cap cand.tree \subseteq selected \cup pending

Preparing ==
  /\ cand \in Candidate /\ (istep # "check" => cand.targets # {})
  /\ pending \subseteq Files /\ selected \subseteq Files \cap cand.tree
  /\ deps \in [Files -> SUBSET Files]
  /\ istep \in {"check", "retrieve"} => selected = {}
  /\ istep = "select" => blocked = "none" /\ Reached
  /\ istep = "end" /\ blocked = "none" =>
       pending = {} /\ Reached /\ Separate /\ Destinations \subseteq Allowed

LEMMA IntakeStep == Preparing /\ cand.targets # {} /\ INext => Preparing'
<1> SUFFICES ASSUME Preparing, cand.targets # {}, INext PROVE Preparing'
  OBVIOUS
<1> USE DEF Preparing
<1>1. CASE Check
  BY <1>1 DEF Check, Goto, Locals
<1>2. CASE Retrieve
  <2>1. UNCHANGED <<cand, selected, deps>> /\ selected = {}
    BY <1>2 DEF Retrieve
  <2>2. CASE blocked' = "none"
    <3>1. pending' = cand.targets /\ istep' = "select"
      BY <1>2, <2>2 DEF Retrieve, Goto
    <3>2. cand.targets \subseteq Files
      BY DEF Candidate
    <3> QED BY <2>1, <2>2, <3>1, <3>2 DEF Reached
  <2>3. CASE blocked' # "none"
    BY <1>2, <2>1, <2>3 DEF Retrieve, Goto
  <2> QED BY <2>2, <2>3
<1>3. CASE Adapt
  <2>1. UNCHANGED <<cand, pending, selected, deps>> /\ istep' = "end" /\ pending = {}
    BY <1>3 DEF Adapt, Goto, Locals
  <2>2. blocked' = "none" => Separate /\ Destinations \subseteq Allowed
    BY <1>3 DEF Adapt, Block
  <2>3. Separate' = Separate /\ Destinations' = Destinations /\ Reached' = Reached
    BY <2>1 DEF Separate, Destinations, Destination, Rename, Reached
  <2>4. Reached
    BY <1>3 DEF Adapt
  <2> QED BY <2>1, <2>2, <2>3, <2>4
<1>4. CASE Refuse \/ Unavailable
  BY <1>4 DEF Refuse, Unavailable, Block, Goto, Locals
<1>5. ASSUME NEW f \in Files, Skip(f) PROVE Preparing'
  BY <1>5 DEF Skip, Reached
<1>6. ASSUME NEW f \in Files, NEW imports \in SUBSET (Files \ {f}), Follow(f, imports)
      PROVE  Preparing'
  <2>1. UNCHANGED <<cand, blocked, istep>> /\ istep = "select" /\ Readable(f)
    BY <1>6 DEF Follow
  <2>2. selected' = selected \cup {f} /\ deps' = [deps EXCEPT ![f] = imports]
        /\ pending' = (pending \ {f}) \cup (imports \cap cand.tree)
    BY <1>6 DEF Follow, Local
  <2>3. deps' \in [Files -> SUBSET Files]
    BY <2>2
  <2>4. f \in cand.tree
    BY <2>1 DEF Readable
  <2>5. Reached'
    <3>1. \A g \in selected' : deps'[g] \cap cand.tree \subseteq selected' \cup pending'
      <4> SUFFICES ASSUME NEW g \in selected'
                   PROVE  deps'[g] \cap cand.tree \subseteq selected' \cup pending'
        OBVIOUS
      <4>1. CASE g = f
        BY <2>2, <4>1
      <4>2. CASE g # f
        BY <2>1, <2>2, <4>2 DEF Reached
      <4> QED BY <4>1, <4>2
    <3> QED BY <2>1, <2>2, <3>1 DEF Reached
  <2> QED BY <2>1, <2>2, <2>3, <2>4, <2>5
<1> QED BY <1>1, <1>2, <1>3, <1>4, <1>5, <1>6 DEF INext

\* The plan of a prepared candidate is what was selected; the solution is what
\* candidate_sources accepted.
Planned ==
  /\ job = "intake" => Preparing /\ cand.targets # {}
  /\ job \in {"prerequisites", "materials", "launch"} /\ plan.prepared =>
       /\ Preparing /\ istep = "end" /\ blocked = "none" /\ cand.targets # {}
       /\ plan.files = selected /\ plan.rename = Rename
  /\ job = "launch" =>
       /\ Acceptable
       /\ solution = Written \cup {[path |-> p, from |-> "trusted"] : p \in Shared}

LEMMA PlannedInit == Init => Planned
  BY IntakeAssumption DEF Init, IInit, Fresh, Planned, Preparing, Candidate

LEMMA PlannedStep == Planned /\ [Next]_vars => Planned'
<1> SUFFICES ASSUME Planned, [Next]_vars PROVE Planned'
  OBVIOUS
<1> USE DEF Planned
<1>1. CASE Intaking
  <2>1. Preparing' /\ UNCHANGED <<cand, job>> /\ job = "intake"
    BY <1>1, IntakeStep DEF Intaking, INext, evars, Check, Retrieve, Adapt, Refuse, Unavailable, Skip, Follow
  <2> QED BY <2>1
<1>2. CASE Plan
  <2>1. UNCHANGED ivars /\ job = "intake" /\ Preparing /\ cand.targets # {} /\ istep = "end"
    BY <1>2 DEF Plan
  <2>2. Preparing' /\ Rename' = Rename
    BY <2>1 DEF ivars, Preparing, Reached, Separate, Destinations, Destination, Rename
  <2>3. job' = "done" \/ (blocked = "none" /\ job' = "prerequisites" /\ plan'.files = selected /\ plan'.rename = Rename)
    BY <1>2 DEF Plan
  <2> QED BY <2>1, <2>2, <2>3 DEF ivars
<1>3. CASE Prerequisites
  <2>1. UNCHANGED <<ivars, plan>> /\ job = "prerequisites" /\ job' \in {"materials", "report"}
    BY <1>3 DEF Prerequisites, Conclude
  <2>2. Preparing' = Preparing /\ Rename' = Rename
    BY <2>1 DEF ivars, Preparing, Reached, Separate, Destinations, Destination, Rename
  <2> QED BY <2>1, <2>2 DEF ivars
<1>4. CASE Materials
  <2>1. UNCHANGED <<ivars, plan>> /\ job = "materials" /\ job' \in {"launch", "report"}
    BY <1>4 DEF Materials, Conclude
  <2>2. Preparing' = Preparing /\ Rename' = Rename
    BY <2>1 DEF ivars, Preparing, Reached, Separate, Destinations, Destination, Rename
  <2>3. Acceptable' = Acceptable /\ Written' = Written
    BY <2>1 DEF ivars, Acceptable, Written, Included, Moved, Paths
  <2>4. job' = "launch" =>
          Acceptable /\ solution' = Written \cup {[path |-> p, from |-> "trusted"] : p \in Shared}
    BY <1>4 DEF Materials, Conclude
  <2> QED BY <2>1, <2>2, <2>3, <2>4 DEF ivars
<1>5. CASE Launch \/ Controlling \/ Happening \/ Outcome \/ Report
  <2>1. job' \in {"verify", "report", "done"}
    BY <1>5 DEF Launch, Controlling, Happening, evars, Outcome, Conclude, Report
  <2> QED BY <2>1
<1>6. CASE UNCHANGED vars
  <2>1. UNCHANGED <<ivars, evars>>
    BY <1>6 DEF vars
  <2>2. Preparing' = Preparing /\ Rename' = Rename /\ Acceptable' = Acceptable /\ Written' = Written
    BY <2>1 DEF ivars, evars, Preparing, Reached, Separate, Destinations, Destination, Rename,
                Acceptable, Written, Included, Moved, Paths
  <2> QED BY <2>1, <2>2 DEF ivars, evars
<1> QED BY <1>1, <1>2, <1>3, <1>4, <1>5, <1>6 DEF Next, Program

LEMMA PlannedInv == Spec => []Planned
<1> QED BY PlannedInit, PlannedStep, PTL DEF Spec

\* Whatever the repository holds and its files import: what a prepared candidate imports
\* from itself reaches the solution as its own, under the name the adapted file imports.
THEOREM ImportsOwn == Spec => []OwnImports
<1>1. ASSUME Planned PROVE OwnImports
  <2> SUFFICES ASSUME job = "launch", plan.prepared, NEW f \in plan.files, NEW d \in deps[f] \cap cand.tree
               PROVE  \E i \in Imports(f) :
                        /\ i = Moved(d)
                        /\ {s \in solution : s.path = i} = {[path |-> i, from |-> d]}
    BY DEF OwnImports
  <2>1. Preparing /\ istep = "end" /\ blocked = "none" /\ plan.files = selected /\ plan.rename = Rename
    BY <1>1 DEF Planned
  <2>2. Acceptable /\ solution = Written \cup {[path |-> p, from |-> "trusted"] : p \in Shared}
    BY <1>1 DEF Planned
  <2>3. d \in Included
    BY <2>1 DEF Preparing, Reached, Included
  <2>4. Moved(d) \in Imports(f)
    BY <2>1 DEF Moved, Imports
  <2>5. Moved(d) \notin Trusted \cup {Bridge}
    BY <2>2, <2>3 DEF Acceptable
  <2>6. {s \in solution : s.path = Moved(d)} = {[path |-> Moved(d), from |-> d]}
    <3>1. [path |-> Moved(d), from |-> d] \in solution
      BY <2>2, <2>3 DEF Written
    <3>2. ASSUME NEW s \in solution, s.path = Moved(d) PROVE s = [path |-> Moved(d), from |-> d]
      <4>1. CASE s = [path |-> Bridge, from |-> "overlay"]
        BY <2>5, <3>2, <4>1
      <4>2. CASE \E p \in Shared : s = [path |-> p, from |-> "trusted"]
        BY <2>5, <3>2, <4>2 DEF Shared
      <4>3. ASSUME NEW g \in Included, s = [path |-> Moved(g), from |-> g]
            PROVE  s = [path |-> Moved(d), from |-> d]
        <5>1. Moved(g) = Moved(d)
          BY <3>2, <4>3
        <5>2. g = d
          BY <2>2, <2>3, <5>1 DEF Acceptable
        <5> QED BY <4>3, <5>2
      <4> QED BY <2>2, <4>1, <4>2, <4>3 DEF Written
    <3> QED BY <3>1, <3>2
  <2> QED BY <2>4, <2>6
<1> QED BY <1>1, PlannedInv, PTL

\* For every repository and every limit: what preparation calls ready, execution accepts,
\* if one more file fits.
THEOREM ReadyAccepted == Spec => []ReadyExecutes
<1>1. ASSUME Planned PROVE ReadyExecutes
  <2> SUFFICES ASSUME job = "materials", plan.prepared, Cardinality(plan.files) < MaxFiles
               PROVE  Acceptable
    BY DEF ReadyExecutes
  <2>1. /\ Preparing /\ istep = "end" /\ blocked = "none" /\ cand.targets # {}
        /\ plan.files = selected /\ plan.rename = Rename
    BY <1>1 DEF Planned
  <2>2. Included = selected /\ cand.targets \subseteq selected
    BY <2>1 DEF Preparing, Reached, Included
  <2>3. \A f : Moved(f) = Destination(f)
    BY <2>1 DEF Moved, Destination
  <2>4. Separate /\ Destinations \subseteq Allowed
    BY <2>1 DEF Preparing
  <2>5. {Moved(f) : f \in Included} = Destinations
    BY <2>2, <2>3 DEF Destinations
  <2>6. Paths(Written) \subseteq Destinations \cup {Bridge} /\ Destinations \subseteq Paths(Written)
    <3>1. ASSUME NEW s \in Written PROVE s.path \in Destinations \cup {Bridge}
      <4>1. CASE s = [path |-> Bridge, from |-> "overlay"]
        BY <4>1
      <4>2. ASSUME NEW f \in Included, s = [path |-> Moved(f), from |-> f] PROVE s.path \in Destinations
        BY <2>5, <4>2
      <4> QED BY <4>1, <4>2 DEF Written
    <3>2. ASSUME NEW f \in Included PROVE Moved(f) \in Paths(Written)
      <4>1. [path |-> Moved(f), from |-> f] \in Written
        BY DEF Written
      <4>2. [path |-> Moved(f), from |-> f].path = Moved(f)
        OBVIOUS
      <4> QED BY <4>1, <4>2 DEF Paths
    <3> QED BY <2>5, <3>1, <3>2 DEF Paths
  <2>7. \A f, g \in Included : Moved(f) = Moved(g) => f = g
    BY <2>2, <2>3, <2>4 DEF Separate
  <2>8. Destinations \cap (Trusted \cup {Bridge}) = {}
    BY <2>4 DEF Separate
  <2>9. \A t \in cand.targets : Moved(t) \in Paths(Written)
    BY <2>2, <2>5, <2>6
  <2>10. Included # {} /\ Cardinality(Included) < MaxFiles
    BY <2>1, <2>2
  <2> QED
    BY <2>4, <2>5, <2>6, <2>7, <2>8, <2>9, <2>10, IntakeAssumption DEF Acceptable
<1> QED BY <1>1, PlannedInv, PTL

(***************************************************************************)
(* The types of the job, with the bounds of the backend's counters.         *)
(***************************************************************************)
\* The clock stops at the deadline while output is read, and when the wait for the exit
\* is over, which lasts one tick at least.
Waits ==
  /\ phase \in {"idle", "enter", "read"} => clock <= Timeout
  /\ phase = "wait" => clock <= until

JobTypes ==
  /\ job \in {"intake", "prerequisites", "materials", "launch", "verify", "report", "done"}
  /\ plan \in [files : SUBSET Files, rename : BOOLEAN, prepared : BOOLEAN]
  /\ solution \subseteq [path : Files \cup Trusted \cup {Bridge}, from : Files \cup {"overlay", "trusted"}]
  /\ outcome # NoOutcome => outcome \in [machine : Machine, verification : Statuses]

LEMMA BTypesInit == BInit => BTypeOK /\ Waits
<1> SUFFICES ASSUME BInit PROVE BTypeOK /\ Waits
  OBVIOUS
<1>1. Limit \in Nat /\ Timeout \in Nat
  BY ResourcesAssumption
<1>2. files \in [challenge : Nat, solution : Nat]
  BY DEF BInit
<1>3. sent \in [Streams -> 0..(Limit + 1)] /\ got \in [Streams -> 0..(Limit + 1)]
      /\ \A s \in Streams : got[s] <= sent[s]
  BY <1>1 DEF BInit, Zero
<1>4. clock \in 0..(Timeout + 1) /\ until \in 0..(Timeout + 1) /\ Waits
  BY <1>1 DEF BInit, Waits
<1>5. at \in 1..Number /\ answer \in [1..Number -> {"open", "accepted", "rejected"}]
  BY NumberType DEF BInit
<1> QED BY <1>2, <1>3, <1>4, <1>5 DEF BInit, BTypeOK

\* What each stream produced and what was read of it stays within the limit.
Counters ==
  /\ sent \in [Streams -> 0..(Limit + 1)] /\ got \in [Streams -> 0..(Limit + 1)]
  /\ \A s \in Streams : got[s] <= sent[s]

Times ==
  /\ clock \in 0..(Timeout + 1) /\ until \in 0..(Timeout + 1)
  /\ Waits

LEMMA CountersStep ==
  ASSUME BTypeOK, [Controller \/ Environment \/ Tick]_bvars
  PROVE  Counters'
<1>1. Limit \in Nat /\ Counters
  BY ResourcesAssumption DEF BTypeOK, Counters
<1>2. CASE Select
  <2>1. sent' = sent
    BY <1>2 DEF Select
  <2>2. ASSUME NEW s \in Streams PROVE got'[s] \in 0..(Limit + 1) /\ got'[s] <= sent[s]
    <3>1. sent[s] \in 0..(Limit + 1) /\ got[s] \in 0..(Limit + 1) /\ got[s] <= sent[s]
      BY <1>1 DEF Counters
    <3>2. got'[s] = got[s] \/ (got'[s] = got[s] + 1 /\ got[s] # sent[s])
      BY <1>2 DEF Select
    <3> QED BY <1>1, <3>1, <3>2
  <2>3. got' \in [Streams -> 0..(Limit + 1)]
    BY <1>2, <2>2 DEF Select
  <2> QED BY <1>1, <2>1, <2>2, <2>3 DEF Counters
<1>3. CASE Judge
  BY <1>1, <1>3 DEF Judge, Zero, Counters
<1>4. ASSUME NEW s \in Streams, Emit(s) PROVE Counters'
  <2>1. sent' = [sent EXCEPT ![s] = sent[s] + 1] /\ got' = got /\ sent[s] <= Limit
    BY <1>4 DEF Emit, World
  <2> QED BY <1>1, <2>1 DEF Counters
<1>5. CASE UNCHANGED <<sent, got>>
  BY <1>1, <1>5 DEF Counters
<1>6. CASE Popen \/ Deadline \/ Drained \/ Wait \/ Cleanup \/ Prepare
  BY <1>5, <1>6 DEF Popen, Deadline, Drained, Wait, Cleanup, Prepare, execution
<1>7. CASE Create \/ Break \/ Exit \/ Tick
  BY <1>5, <1>7 DEF Create, Break, Exit, Tick, World
<1>8. ASSUME NEW c \in {"ok", "reject", "runtime"}, NEW good \in {"good", "bad"}, Finish(c, good)
      PROVE  Counters'
  BY <1>5, <1>8 DEF Finish, World
<1>9. CASE UNCHANGED bvars
  BY <1>5, <1>9 DEF bvars, execution
<1> QED
  BY <1>2, <1>3, <1>4, <1>6, <1>7, <1>8, <1>9 DEF Controller, Environment

LEMMA TimesStep ==
  ASSUME BTypeOK, Waits, [Controller \/ Environment \/ Tick]_bvars
  PROVE  Times'
<1>1. /\ Timeout \in Nat \ {0} /\ clock \in Nat /\ until \in Nat /\ clock <= Timeout + 1
      /\ until <= Timeout + 1 /\ Times
  BY ResourcesAssumption DEF BTypeOK, Times
<1>2. CASE Drained
  BY <1>1, <1>2 DEF Drained, Times, Waits
<1>3. CASE Tick
  <2>1. clock' = clock + 1 /\ UNCHANGED <<until, phase>>
        /\ ((phase = "read" /\ clock < Timeout) \/ (phase = "wait" /\ clock < until))
    BY <1>3 DEF Tick, World
  <2> QED BY <1>1, <2>1 DEF Times, Waits
<1>4. CASE Judge
  BY <1>1, <1>4 DEF Judge, Advance, End, Times, Waits
<1>5. CASE UNCHANGED <<clock, until>> /\ (phase' = phase \/ phase' \in {"cleanup", "judge", "end"}
           \/ (phase \in {"idle", "enter"} /\ phase' \in {"enter", "read"}))
  BY <1>1, <1>5 DEF Times, Waits
<1>6. CASE Popen
  BY <1>5, <1>6 DEF Popen, End
<1>7. CASE Deadline \/ Wait \/ Cleanup
  BY <1>5, <1>7 DEF Deadline, Wait, Raise, Cleanup, execution
<1>8. CASE Select
  BY <1>5, <1>8 DEF Select, Raise
<1>9. CASE Prepare
  BY <1>5, <1>9 DEF Prepare, Advance, End, execution
<1>10. CASE Create \/ Break \/ Exit \/ \E s \in Streams : Emit(s)
  BY <1>5, <1>10 DEF Create, Break, Exit, Emit, World
<1>11. ASSUME NEW c \in {"ok", "reject", "runtime"}, NEW good \in {"good", "bad"}, Finish(c, good)
       PROVE  Times'
  BY <1>5, <1>11 DEF Finish, World
<1>12. CASE UNCHANGED bvars
  BY <1>5, <1>12 DEF bvars, execution
<1> QED
  BY <1>2, <1>3, <1>4, <1>6, <1>7, <1>8, <1>9, <1>10, <1>11, <1>12 DEF Controller, Environment

LEMMA ContentStep ==
  ASSUME BTypeOK, [Controller \/ Environment \/ Tick]_bvars
  PROVE  files' = files /\ content' \in {"good", "bad"}
<1>1. content \in {"good", "bad"}
  BY DEF BTypeOK
<1>2. CASE Controller
  BY <1>1, <1>2 DEF Controller, Popen, Deadline, Select, Drained, Wait, Cleanup, Judge, Prepare, execution
<1>3. CASE Environment \/ Tick
  BY <1>1, <1>3 DEF Environment, Tick, Create, Break, Exit, Emit, Finish, World
<1>4. CASE UNCHANGED bvars
  BY <1>1, <1>4 DEF bvars, execution
<1> QED BY <1>2, <1>3, <1>4

\* The boxes are "none" or "running".
LEMMA BoxStep ==
  ASSUME box \in {"none", "running"}, [Controller \/ Environment \/ Tick]_bvars
  PROVE  box' \in {"none", "running"}
<1>1. CASE Controller
  BY <1>1 DEF Controller, Popen, Deadline, Select, Drained, Wait, Cleanup, Judge, Prepare, execution
<1>2. CASE Environment \/ Tick
  BY <1>2 DEF Environment, Tick, Create, Break, Exit, Emit, Finish, World
<1>3. CASE UNCHANGED bvars
  BY <1>3 DEF bvars
<1> QED BY <1>1, <1>2, <1>3

LEMMA BTypesStep ==
  ASSUME BInv', BTypeOK, Waits, [Controller \/ Environment \/ Tick]_bvars
  PROVE  BTypeOK' /\ Waits'
<1>1. Counters' /\ Times' /\ files' = files /\ content' \in {"good", "bad"}
      /\ box' \in {"none", "running"}
  BY CountersStep, TimesStep, ContentStep, BoxStep DEF BTypeOK
<1>2. Answers' /\ Clients' /\ Reading' /\ Verdicts'
  BY DEF BInv
<1> QED BY <1>1, <1>2 DEF BTypeOK, Counters, Times, Answers, Clients, Reading, Verdicts

\* The solution is a finite set of sources.
LEMMA SolutionFinite ==
  ASSUME plan.files \in SUBSET Files
  PROVE  IsFiniteSet(Written \cup {[path |-> p, from |-> "trusted"] : p \in Shared})
<1>1. IsFiniteSet(Included) /\ IsFiniteSet(Shared)
  BY IntakeAssumption, FS_Subset DEF Included, Shared
<1> DEFINE own == {[path |-> Moved(f), from |-> f] : f \in Included}
           shared == {[path |-> p, from |-> "trusted"] : p \in Shared}
<1>2. IsFiniteSet(own)
  <2>1. [f \in Included |-> [path |-> Moved(f), from |-> f]] \in Surjection(Included, own)
    BY DEF Surjection
  <2> QED BY <1>1, <2>1, FS_Surjection
<1>3. IsFiniteSet(shared)
  <2>1. [p \in Shared |-> [path |-> p, from |-> "trusted"]] \in Surjection(Shared, shared)
    BY DEF Surjection
  <2> QED BY <1>1, <2>1, FS_Surjection
<1>4. IsFiniteSet({[path |-> Bridge, from |-> "overlay"]})
  BY FS_Singleton
<1>5. Written = own \cup {[path |-> Bridge, from |-> "overlay"]}
  BY DEF Written
<1> HIDE DEF own, shared
<1>6. IsFiniteSet(own \cup {[path |-> Bridge, from |-> "overlay"]})
  BY <1>2, <1>4, FS_Union
<1>7. IsFiniteSet((own \cup {[path |-> Bridge, from |-> "overlay"]}) \cup shared)
  BY <1>3, <1>6, FS_Union
<1> QED BY <1>5, <1>7 DEF shared

LEMMA ITypesStep ==
  ASSUME ITypeOK, INext
  PROVE  ITypeOK'
<1> USE DEF ITypeOK
<1>1. CASE Check
  BY <1>1 DEF Check, Goto, Locals
<1>2. CASE Retrieve
  <2>1. cand.targets \subseteq Files
    BY DEF Candidate
  <2> QED BY <1>2, <2>1 DEF Retrieve, Block, Goto
<1>3. CASE Adapt \/ Refuse \/ Unavailable
  BY <1>3 DEF Adapt, Refuse, Unavailable, Block, Goto, Locals
<1>4. ASSUME NEW f \in Files, Skip(f) PROVE ITypeOK'
  BY <1>4 DEF Skip
<1>5. ASSUME NEW f \in Files, NEW imports \in SUBSET (Files \ {f}), Follow(f, imports)
      PROVE  ITypeOK'
  <2>1. UNCHANGED <<cand, blocked, istep>> /\ selected' = selected \cup {f}
        /\ deps' = [deps EXCEPT ![f] = imports]
        /\ pending' = (pending \ {f}) \cup (imports \cap cand.tree)
    BY <1>5 DEF Follow, Local
  <2> QED BY <2>1
<1> QED BY <1>1, <1>2, <1>3, <1>4, <1>5 DEF INext

Types == BTypeOK /\ Waits /\ ITypeOK /\ JobTypes

LEMMA TypesInit == Init => Types
<1> SUFFICES ASSUME Init PROVE Types
  OBVIOUS
<1>1. BTypeOK /\ Waits
  BY BTypesInit DEF Init
<1>2. ITypeOK
  BY IntakeAssumption DEF Init, IInit, Fresh, ITypeOK, Candidate
<1>3. cand.include \in SUBSET Files
  BY <1>2 DEF ITypeOK, Candidate
<1>4. JobTypes
  <2>1. /\ job \in {"intake", "prerequisites"} /\ solution = {} /\ outcome = NoOutcome
        /\ plan = NoPlan \/ plan = [files |-> cand.include, rename |-> FALSE, prepared |-> FALSE]
    BY DEF Init
  <2>2. NoPlan \in [files : SUBSET Files, rename : BOOLEAN, prepared : BOOLEAN]
    BY DEF NoPlan
  <2>3. [files |-> cand.include, rename |-> FALSE, prepared |-> FALSE]
          \in [files : SUBSET Files, rename : BOOLEAN, prepared : BOOLEAN]
    BY <1>3
  <2> QED BY <2>1, <2>2, <2>3 DEF JobTypes
<1> QED BY <1>1, <1>2, <1>4 DEF Types

LEMMA TypesStep == BInv /\ BInv' /\ Planned /\ Types /\ [Next]_vars => Types'
<1> SUFFICES ASSUME BInv, BInv', Planned, Types, [Next]_vars PROVE Types'
  OBVIOUS
<1>0. BTypeOK /\ Waits /\ ITypeOK /\ JobTypes
  BY DEF Types
<1>a. ASSUME UNCHANGED bvars PROVE BTypeOK' /\ Waits'
  BY <1>0, <1>a, BTypesStep
<1>b. ASSUME UNCHANGED ivars PROVE ITypeOK'
  BY <1>0, <1>b DEF ivars, ITypeOK
<1>c. ASSUME UNCHANGED evars PROVE JobTypes'
  BY <1>0, <1>c DEF evars, JobTypes
<1>1. CASE Intaking
  BY <1>0, <1>1, <1>a, <1>c, ITypesStep DEF Intaking, Types, evars
<1>2. CASE Controlling \/ Happening
  BY <1>0, <1>2, <1>b, <1>c, BTypesStep DEF Controlling, Happening, Types, evars
<1>3. CASE Plan
  <2>1. Rename \in BOOLEAN /\ selected \subseteq Files
    BY <1>0 DEF Rename, ITypeOK
  <2>2. [files |-> selected, rename |-> Rename, prepared |-> TRUE]
          \in [files : SUBSET Files, rename : BOOLEAN, prepared : BOOLEAN]
    BY <2>1
  <2>3. /\ plan' = [files |-> selected, rename |-> Rename, prepared |-> TRUE] \/ plan' = plan
        /\ job' \in {"prerequisites", "done"} /\ UNCHANGED <<solution, outcome>>
    BY <1>3 DEF Plan
  <2>4. JobTypes'
    BY <1>0, <2>2, <2>3 DEF JobTypes
  <2> QED BY <1>3, <1>a, <1>b, <2>4 DEF Plan, Types
<1>4. CASE Prerequisites
  <2>1. JobTypes'
    BY <1>0, <1>4 DEF Prerequisites, Conclude, JobTypes, Machine, Statuses
  <2> QED BY <1>4, <1>a, <1>b, <2>1 DEF Prerequisites, Types
<1>5. CASE Materials
  <2>1. Included \subseteq Files
    BY <1>0 DEF Included, JobTypes
  <2>2. \A f \in Included : Moved(f) \in Files
    BY <2>1, IntakeAssumption DEF Moved
  <2>3. Written \cup {[path |-> p, from |-> "trusted"] : p \in Shared}
          \subseteq [path : Files \cup Trusted \cup {Bridge}, from : Files \cup {"overlay", "trusted"}]
    BY <2>1, <2>2 DEF Written, Shared
  <2>4. JobTypes'
    <3>1. solution' = solution
          \/ solution' = Written \cup {[path |-> p, from |-> "trusted"] : p \in Shared}
      BY <1>5 DEF Materials
    <3>2. solution' \subseteq [path : Files \cup Trusted \cup {Bridge}, from : Files \cup {"overlay", "trusted"}]
      BY <1>0, <2>3, <3>1 DEF JobTypes
    <3>3. job' \in {"launch", "report"} /\ UNCHANGED plan
          /\ (outcome' # NoOutcome => outcome' \in [machine : Machine, verification : Statuses])
      BY <1>0, <1>5 DEF Materials, Conclude, JobTypes, Machine, Statuses
    <3> QED BY <1>0, <3>2, <3>3 DEF JobTypes
  <2> QED BY <1>5, <1>a, <1>b, <2>4 DEF Materials, Types
<1>6. CASE Launch
  <2>1. Cardinality(Trusted) \in Nat /\ Cardinality(solution) \in Nat
    <3>1. plan.files \in SUBSET Files
      BY <1>0 DEF JobTypes
    <3>2. IsFiniteSet(solution)
      BY <1>6, <3>1, SolutionFinite DEF Launch, Planned
    <3> QED BY <3>2, IntakeAssumption, FS_CardinalityType
  <2>2. BTypeOK' /\ Waits'
    <3>1. /\ files' = [challenge |-> Cardinality(Trusted), solution |-> Cardinality(solution)]
          /\ phase' = "enter" /\ phase = "idle"
          /\ UNCHANGED <<at, execution, box, error, result, answer>>
      BY <1>6 DEF Launch, Verify
    <3>2. files' \in [challenge : Nat, solution : Nat]
      BY <2>1, <3>1
    <3> QED BY <1>0, <3>1, <3>2 DEF BTypeOK, Waits, execution
  <2>3. ITypeOK'
    BY <1>0, <1>6 DEF Launch, ITypeOK, Candidate
  <2>4. JobTypes'
    BY <1>0, <1>6 DEF Launch, JobTypes, NoPlan
  <2> QED BY <2>2, <2>3, <2>4 DEF Types
<1>7. CASE Outcome
  <2>1. result \in {"passed", "failed", "infrastructure_error"}
    BY <1>7 DEF Outcome, BInv, Verdicts
  <2>2. MachineStatus(result) \in Machine /\ VerificationStatus(result) \in Statuses
    BY <2>1 DEF MachineStatus, VerificationStatus, Machine, Statuses
  <2>3. JobTypes'
    BY <1>0, <1>7, <2>2 DEF Outcome, Conclude, JobTypes, Machine, Statuses
  <2> QED BY <1>7, <1>a, <1>b, <2>3 DEF Outcome, Types
<1>8. CASE Report
  <2>1. JobTypes'
    BY <1>0, <1>8 DEF Report, JobTypes
  <2> QED BY <1>8, <1>a, <1>b, <2>1 DEF Report, Types
<1>9. CASE UNCHANGED vars
  BY <1>9, <1>a, <1>b, <1>c DEF vars, Types
<1> QED
  BY <1>1, <1>2, <1>3, <1>4, <1>5, <1>6, <1>7, <1>8, <1>9 DEF Next, Program

\* The state of a job has its type: among others, what is read of a stream stops one read
\* past its limit, and no execution outlives its deadline by more than one tick
\* (lean_backend.py:56-71), whatever container and client do.
THEOREM VerificationType == Spec => []TypeOK
<1>1. Types => TypeOK
  BY DEF Types, JobTypes, TypeOK
<1>2. Spec => []Types
  BY TypesInit, TypesStep, BackendInv, PlannedInv, PTL DEF Spec
<1> QED BY <1>1, <1>2, PTL
=============================================================================
