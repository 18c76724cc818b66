-------------------------- MODULE StatusGateProofs --------------------------
EXTENDS StatusGate, TLAPS

RunOK(r) == ResultsOK(r) /\ OutputsOK(r) /\ BasisOK(r)

\* Runs other than the acting one keep their data and at most end.
Frame(s) ==
  /\ trigger'[s] = trigger[s] /\ ctx'[s] = ctx[s] /\ seen'[s] = seen[s]
  /\ basis'[s] = basis[s] /\ planned'[s] = planned[s] /\ executed'[s] = executed[s]
  /\ pc'[s] = pc[s] \/ (pc[s] # "unused" /\ pc'[s] \in Over)

BeenGrows == \A b \in Branches : been[b] \subseteq been'[b]

USE DEF Planning, Verifying, Publishing, Resolving, Holding, Waiting, Active, Over,
        Phases, Resolved

LEMMA FrameOK ==
  ASSUME NEW s \in Runs, TypeOK, RunOK(s), Frame(s), BeenGrows
  PROVE  RunOK(s)'
BY GateAssumption DEF TypeOK, RunOK, ResultsOK, OutputsOK, BasisOK, PlanPassed, Frame, BeenGrows,
   Context, NoContext

LEMMA JoinedShape ==
  ASSUME TypeOK, NEW r \in Runs, NEW wait \in Phases, NEW enter \in Phases,
         pc' = Joined(r, wait, enter)
  PROVE  /\ pc' \in [Runs -> Phases]
         /\ pc'[r] \in {wait, enter}
         /\ \A s \in Runs \ {r} :
              pc'[s] = pc[s] \/ (pc[s] # "unused" /\ pc'[s] \in Over)
BY DEF TypeOK, Joined, Dropped, Rivals

\* What every action of a run has to establish.
StepOK(r) == TypeOK' /\ RunOK(r)' /\ \A s \in Runs \ {r} : Frame(s)

SameData == /\ pr' = pr /\ tip' = tip /\ been' = been /\ guarded' = guarded
            /\ trigger' = trigger /\ attempt' = attempt

\* An action that only moves the run's pc and leaves the data alone.
MoveAlone(r, phase) ==
  /\ SameData /\ ctx' = ctx /\ seen' = seen /\ basis' = basis
  /\ planned' = planned /\ executed' = executed /\ cancel' = cancel
  /\ pc' = [pc EXCEPT ![r] = phase]

\* Moving on between phases that ask the same of the run.
LEMMA MoveOK ==
  ASSUME TypeOK, NEW r \in Runs, RunOK(r), NEW phase \in Phases,
         MoveAlone(r, phase), status' \in [Heads -> Status],
         \/ pc[r] \in Resolving /\ phase = "unresolved"
         \/ pc[r] \in Resolved /\ phase \in Publishing \cup {"done"}
         \/ pc[r] = "resolveWait" /\ phase = "resolvePull"
         \/ pc[r] = "resolvePost" /\ phase = "resolveEmit"
         \/ pc[r] = "resolveEmit" /\ phase = "plan"
  PROVE  StepOK(r)
<1>1. TypeOK'
  BY DEF MoveAlone, SameData, TypeOK
<1>2. RunOK(r)'
  BY DEF MoveAlone, SameData, TypeOK, RunOK, ResultsOK, OutputsOK, BasisOK, PlanPassed
<1>3. \A s \in Runs \ {r} : Frame(s)
  BY DEF MoveAlone, SameData, TypeOK, Frame
<1> QED BY <1>1, <1>2, <1>3 DEF StepOK

LEMMA ResolvePullOK ==
  ASSUME TypeOK, RunsOK, NEW r \in Runs, ResolvePull(r)
  PROVE  StepOK(r)
<1> DEFINE p == pr[trigger[r].pr]
<1>1. p \in PullRequest /\ p.head \in HeadsOf[trigger[r].pr] /\ trigger[r] \in Trigger /\ planned[r] = "none"
  BY DEF TypeOK, RunsOK, OutputsOK, ResultsOK, ResolvePull, Trigger
<1>2. /\ pr' = pr /\ tip' = tip /\ been' = been /\ guarded' = guarded /\ status' = status /\ trigger' = trigger
      /\ seen' = seen /\ basis' = basis /\ planned' = planned /\ executed' = executed /\ cancel' = cancel
      /\ attempt' = attempt
  BY DEF ResolvePull, github
<1>3. CASE p.open /\ p.base \in Targets
  <2>1. ctx' = [ctx EXCEPT ![r] = [head |-> p.head, ref |-> p.base, base |-> None]] /\ pc' = [pc EXCEPT ![r] = "resolveBranch"]
    BY <1>3 DEF ResolvePull, Goto
  <2>2. TypeOK'
    BY <2>1, <1>1, <1>2 DEF TypeOK, Context, PullRequest
  <2>3. RunOK(r)'
    BY <2>1, <1>1, <1>2, <1>3 DEF TypeOK, RunsOK, RunOK, ResultsOK, OutputsOK, BasisOK, PlanPassed
  <2> QED BY <2>1, <2>2, <2>3, <1>2 DEF StepOK, Frame, TypeOK
<1>4. CASE ~(p.open /\ p.base \in Targets)
  <2>1. ctx' = ctx /\ pc' = [pc EXCEPT ![r] = "unresolved"]
    BY <1>4 DEF ResolvePull, Goto
  <2>2. TypeOK'
    BY <2>1, <1>2 DEF TypeOK
  <2>3. RunOK(r)'
    BY <2>1, <1>1, <1>2 DEF ResolvePull, TypeOK, RunsOK, RunOK, ResultsOK, OutputsOK, BasisOK, PlanPassed
  <2> QED BY <2>1, <2>2, <2>3, <1>2 DEF StepOK, Frame, TypeOK
<1> QED BY <1>3, <1>4

LEMMA ResolveBranchOK ==
  ASSUME TypeOK, RunsOK, NEW r \in Runs, ResolveBranch(r)
  PROVE  StepOK(r)
<1> DEFINE c == ctx[r]
<1>1. /\ c.head \in HeadsOf[trigger[r].pr] /\ c.ref \in Targets /\ c \in Context
      /\ trigger[r] \in Trigger /\ planned[r] = "none" /\ executed[r] = "none"
  BY DEF TypeOK, RunsOK, OutputsOK, ResultsOK, ResolveBranch
<1>2. SameData /\ status' = status /\ seen' = seen /\ basis' = basis
        /\ planned' = planned /\ executed' = executed /\ cancel' = cancel
  BY DEF ResolveBranch, github, SameData
<1>3. CASE Resolvable(r)
  <2>1. ctx' = [ctx EXCEPT ![r].base = tip[c.ref]] /\ pc' = [pc EXCEPT ![r] = "resolvePost"]
    BY <1>3 DEF ResolveBranch, Goto
  <2>2. tip[c.ref] \in Revs /\ tip[c.ref] \in been[c.ref] /\ tip[c.ref] # None
    BY <1>1, GateAssumption DEF TypeOK, RunsOK
  <2>3. TypeOK'
    BY <2>1, <2>2, <1>1, <1>2 DEF SameData, TypeOK, Context
  <2>4. RunOK(r)'
    BY <2>1, <2>2, <1>1, <1>2 DEF SameData, TypeOK, Context, RunOK, ResultsOK, OutputsOK, BasisOK, PlanPassed
  <2> QED BY <2>1, <2>3, <2>4, <1>2 DEF StepOK, SameData, Frame, TypeOK
<1>4. CASE ~Resolvable(r)
  <2>1. ctx' = [ctx EXCEPT ![r] = NoContext] /\ pc' = [pc EXCEPT ![r] = "unresolved"]
    BY <1>4 DEF ResolveBranch, Goto
  <2>2. TypeOK'
    BY <2>1, <1>2 DEF SameData, TypeOK, Context, NoContext
  <2>3. RunOK(r)'
    BY <2>1, <1>1, <1>2 DEF SameData, TypeOK, NoContext, RunOK, ResultsOK, OutputsOK, BasisOK, PlanPassed
  <2> QED BY <2>1, <2>2, <2>3, <1>2 DEF StepOK, SameData, Frame, TypeOK
<1> QED BY <1>3, <1>4

\* The status a run posts is well formed once its outputs are complete.
LEMMA PostShape ==
  ASSUME TypeOK, NEW r \in Runs, RunOK(r), pc[r] \in Resolved,
         NEW state \in {"pending", "success", "failure"}, Post(r, state)
  PROVE  /\ status' \in [Heads -> Status]
         /\ ctx[r].head \in Heads
         /\ status' = [status EXCEPT ![ctx[r].head] =
              [state |-> state, run |-> r, ref |-> ctx[r].ref,
               base |-> ctx[r].base, basis |-> basis[r]]]
<1>1. ctx[r].head \in HeadsOf[trigger[r].pr] /\ trigger[r] \in Trigger
  BY DEF RunOK, OutputsOK
<1>2. ctx[r].head \in Heads
  BY <1>1, GateAssumption DEF Trigger
<1>3. ctx[r] \in Context /\ basis[r] \in Basis
  BY DEF TypeOK
<1> QED BY <1>2, <1>3 DEF Post, TypeOK, Status, Context

LEMMA ResolvePostOK ==
  ASSUME TypeOK, RunsOK, NEW r \in Runs, ResolvePost(r)
  PROVE  StepOK(r)
<1>1. pc[r] = "resolvePost" /\ RunOK(r)
  BY DEF ResolvePost, RunsOK, RunOK
<1>2. status' \in [Heads -> Status]
  BY <1>1, PostShape DEF ResolvePost
<1>3. MoveAlone(r, "resolveEmit")
  BY DEF ResolvePost, MoveAlone, SameData, github, jobs, Goto
<1> QED BY <1>1, <1>2, <1>3, MoveOK

LEMMA FinishPostOK ==
  ASSUME TypeOK, RunsOK, NEW r \in Runs, FinishPost(r)
  PROVE  StepOK(r)
<1>1. pc[r] = "finishPost" /\ RunOK(r)
  BY DEF FinishPost, RunsOK, RunOK
<1>2. status' \in [Heads -> Status]
  BY <1>1, PostShape DEF FinishPost
<1>3. MoveAlone(r, "done")
  BY DEF FinishPost, MoveAlone, SameData, github, jobs, Goto
<1> QED BY <1>1, <1>2, <1>3, MoveOK

\* The steps that only hand over to the next phase.
LEMMA HandoverOK ==
  ASSUME TypeOK, RunsOK, NEW r \in Runs,
         Acquire(r) \/ ResolveEmit(r) \/ FinishPull(r) \/ FinishBranch(r) \/ FinishStatus(r)
  PROVE  StepOK(r) /\ status' = status
<1>1. RunOK(r) /\ status \in [Heads -> Status]
  BY DEF RunsOK, RunOK, TypeOK
<1>2. CASE Acquire(r)
  <2>1. CASE pc[r] = "resolveWait"
    <3>1. MoveAlone(r, "resolvePull") /\ status' = status
      BY <1>2, <2>1 DEF Acquire, MoveAlone, SameData, github, jobs
    <3> QED BY <1>1, <2>1, <3>1, MoveOK
  <2>2. CASE pc[r] = "publishWait"
    <3>1. MoveAlone(r, "finishPull") /\ status' = status
      BY <1>2, <2>2 DEF Acquire, MoveAlone, SameData, github, jobs
    <3> QED BY <1>1, <2>2, <3>1, MoveOK
  <2> QED BY <1>2, <2>1, <2>2 DEF Acquire
<1>3. CASE ResolveEmit(r)
  <2>1. MoveAlone(r, "plan") /\ status' = status /\ pc[r] = "resolveEmit"
    BY <1>3 DEF ResolveEmit, MoveAlone, SameData, github, jobs, Goto
  <2> QED BY <1>1, <2>1, MoveOK
<1>4. CASE FinishPull(r)
  <2>1. PICK phase \in {"finishBranch", "done"} : MoveAlone(r, phase)
    BY <1>4 DEF FinishPull, MoveAlone, SameData, github, jobs, Goto
  <2>2. pc[r] = "finishPull" /\ status' = status
    BY <1>4 DEF FinishPull
  <2> QED BY <1>1, <2>1, <2>2, MoveOK
<1>5. CASE FinishBranch(r)
  <2>1. PICK phase \in {"finishStatus", "done"} : MoveAlone(r, phase)
    BY <1>5 DEF FinishBranch, MoveAlone, SameData, github, jobs, Goto
  <2>2. pc[r] = "finishBranch" /\ status' = status
    BY <1>5 DEF FinishBranch
  <2> QED BY <1>1, <2>1, <2>2, MoveOK
<1>6. CASE FinishStatus(r)
  <2>1. PICK phase \in {"finishPost", "done"} : MoveAlone(r, phase)
    BY <1>6 DEF FinishStatus, MoveAlone, SameData, github, jobs, Goto
  <2>2. pc[r] = "finishStatus" /\ status' = status
    BY <1>6 DEF FinishStatus
  <2> QED BY <1>1, <2>1, <2>2, MoveOK
<1> QED BY <1>2, <1>3, <1>4, <1>5, <1>6

LEMMA EnqueueOK ==
  ASSUME TypeOK, RunsOK, NEW r \in Runs, Enqueue(r)
  PROVE  StepOK(r) /\ status' = status
<1>1. RunOK(r) /\ pc[r] = "triggered" /\ status' = status
  BY DEF RunsOK, RunOK, Enqueue
<1>2. SameData /\ ctx' = ctx /\ seen' = seen /\ basis' = basis
        /\ planned' = planned /\ executed' = executed
  BY DEF Enqueue, SameData, github, jobs
<1>3. /\ pc' \in [Runs -> Phases] /\ pc'[r] = "queued"
      /\ \A s \in Runs \ {r} : pc'[s] = pc[s] \/ (pc[s] = "queued" /\ pc'[s] = "done")
  BY DEF Enqueue, TypeOK
<1>4. TypeOK'
  <2>1. cancel' \in [Runs -> BOOLEAN]
    BY DEF Enqueue, TypeOK
  <2> QED BY <1>1, <1>2, <1>3, <2>1 DEF SameData, TypeOK
<1>5. RunOK(r)'
  BY <1>1, <1>2, <1>3 DEF SameData, RunOK, ResultsOK, OutputsOK, BasisOK, PlanPassed
<1>6. \A s \in Runs \ {r} : Frame(s)
  BY <1>2, <1>3 DEF SameData, Frame
<1> QED BY <1>1, <1>4, <1>5, <1>6 DEF StepOK

\* Entering a job that shares the lean-status lock, with the data settled.
LEMMA JoinOK ==
  ASSUME TypeOK, NEW r \in Runs, RunOK(r), SameData,
         ctx' = ctx, seen' = seen, basis' = basis, planned' = planned,
         executed' = executed, cancel' = cancel, status' = status,
         \/ ctx[r].base = None /\ pc[r] # "unused" /\ pc' = Joined(r, "resolveWait", "resolvePull")
         \/ ctx[r].base # None /\ pc[r] # "unused" /\ pc' = Joined(r, "publishWait", "finishPull")
  PROVE  StepOK(r)
<1>1. /\ pc' \in [Runs -> Phases]
      /\ \A s \in Runs \ {r} :
              pc'[s] = pc[s] \/ (pc[s] # "unused" /\ pc'[s] \in Over)
      /\ \/ ctx[r].base = None /\ pc'[r] \in {"resolveWait", "resolvePull"}
         \/ ctx[r].base # None /\ pc'[r] \in {"publishWait", "finishPull"}
  BY JoinedShape
<1>2. TypeOK'
  BY <1>1 DEF SameData, TypeOK
<1>3. RunOK(r)'
  BY <1>1 DEF SameData, RunOK, ResultsOK, OutputsOK, BasisOK, PlanPassed
<1>4. \A s \in Runs \ {r} : Frame(s)
  BY <1>1 DEF SameData, Frame
<1> QED BY <1>2, <1>3, <1>4 DEF StepOK

LEMMA StartOK ==
  ASSUME TypeOK, RunsOK, NEW r \in Runs, Start(r)
  PROVE  StepOK(r) /\ status' = status
<1>1. RunOK(r) /\ pc[r] = "queued" /\ status' = status /\ SameData /\ ctx' = ctx
        /\ seen' = seen /\ basis' = basis /\ planned' = planned /\ executed' = executed
        /\ cancel' = cancel
  BY DEF RunsOK, RunOK, Start, SameData, github, jobs
<1>2. CASE pc' = Joined(r, "resolveWait", "resolvePull") /\ ctx[r].base = None
  BY <1>1, <1>2, JoinOK
<1>3. CASE pc' = Joined(r, "publishWait", "finishPull") /\ ctx[r].base # None
  BY <1>1, <1>3, JoinOK
<1>4. CASE /\ ctx[r].base # None
           /\ \/ planned[r] = "none" /\ pc' = [pc EXCEPT ![r] = "plan"]
              \/ /\ planned[r] # "none" /\ executed[r] = "none"
                 /\ pc' = [pc EXCEPT ![r] = "verify"]
  <2>1. TypeOK'
    BY <1>1, <1>4 DEF SameData, TypeOK
  <2>2. RunOK(r)'
    BY <1>1, <1>4 DEF TypeOK, SameData, RunOK, ResultsOK, OutputsOK, BasisOK, PlanPassed
  <2>3. \A s \in Runs \ {r} : Frame(s)
    BY <1>1, <1>4 DEF TypeOK, SameData, Frame
  <2> QED BY <1>1, <2>1, <2>2, <2>3 DEF StepOK
<1> QED BY <1>2, <1>3, <1>4 DEF Start

\* The end of the plan job, with an answer the controller gives for what it read.
LEMMA AfterPlanOK ==
  ASSUME TypeOK, NEW r \in Runs, RunOK(r), pc[r] \in Planning, SameData,
         ctx' = ctx, cancel' = cancel, status' = status,
         NEW answer \in PlanResults \ {"none"}, AfterPlan(r, answer),
         answer \in {"ready", "not_applicable"} =>
           seen[r].listed \in Heads /\ PlanOf[Inputs(r)] = answer
  PROVE  StepOK(r)
<1>1. /\ planned' = [planned EXCEPT ![r] = answer]
      /\ basis' = [basis EXCEPT ![r] = [plan |-> seen[r].listed, proof |-> None]]
      /\ seen' = [seen EXCEPT ![r] = NothingRead]
  BY DEF AfterPlan
<1>2. /\ pc' \in [Runs -> Phases]
      /\ \A s \in Runs \ {r} :
              pc'[s] = pc[s] \/ (pc[s] # "unused" /\ pc'[s] \in Over)
      /\ \/ answer = "ready" /\ pc'[r] = "verify" /\ executed' = executed
         \/ /\ answer # "ready" /\ pc'[r] \in {"publishWait", "finishPull"}
            /\ executed' = [executed EXCEPT ![r] = "skipped"]
  <2>1. CASE answer = "ready"
    BY <2>1 DEF AfterPlan, Goto, TypeOK
  <2>2. CASE answer # "ready"
    <3>1. pc' = Joined(r, "publishWait", "finishPull") /\ executed' = [executed EXCEPT ![r] = "skipped"]
      BY <2>2 DEF AfterPlan
    <3> QED BY <2>2, <3>1, JoinedShape
  <2> QED BY <2>1, <2>2
<1>3. TypeOK'
  <2>1. seen'\in [Runs -> Reading] /\ basis' \in [Runs -> Basis]
    BY <1>1 DEF TypeOK, Reading, Basis, NothingRead
  <2>2. planned' \in [Runs -> PlanResults] /\ executed' \in [Runs -> JobResults]
    BY <1>1, <1>2 DEF TypeOK, JobResults
  <2> QED BY <1>2, <2>1, <2>2 DEF SameData, TypeOK
<1>4. RunOK(r)'
  <2>1. planned'[r] = answer /\ basis'[r] = [plan |-> seen[r].listed, proof |-> None]
    BY <1>1 DEF TypeOK
  <2>2. executed'[r] = IF answer = "ready" THEN "none" ELSE "skipped"
    BY <1>2 DEF TypeOK, RunOK, ResultsOK
  <2>3. ResultsOK(r)'
    BY <1>2, <2>1, <2>2 DEF ResultsOK
  <2>4. OutputsOK(r)'
    BY <1>2, <2>1 DEF SameData, RunOK, OutputsOK
  <2>5. BasisOK(r)'
    BY <2>1, <2>2 DEF BasisOK, PlanPassed, Inputs
  <2> QED BY <2>3, <2>4, <2>5 DEF RunOK
<1>5. \A s \in Runs \ {r} : Frame(s)
  BY <1>1, <1>2 DEF TypeOK, SameData, Frame
<1> QED BY <1>3, <1>4, <1>5 DEF StepOK

\* The end of the verify job.
LEMMA AfterVerifyOK ==
  ASSUME TypeOK, NEW r \in Runs, RunOK(r), pc[r] \in Verifying, SameData,
         ctx' = ctx, cancel' = cancel, status' = status,
         NEW result \in {"success", "failure", "cancelled"}, AfterVerify(r, result),
         result = "success" => Inputs(r) \in Proven
  PROVE  StepOK(r)
<1>1. /\ executed' = [executed EXCEPT ![r] = result] /\ planned' = planned
      /\ basis' = [basis EXCEPT ![r].proof = seen[r].listed]
      /\ seen' = [seen EXCEPT ![r] = NothingRead]
      /\ pc' = Joined(r, "publishWait", "finishPull")
  BY DEF AfterVerify
<1>2. /\ pc' \in [Runs -> Phases]
      /\ \A s \in Runs \ {r} :
              pc'[s] = pc[s] \/ (pc[s] # "unused" /\ pc'[s] \in Over)
      /\ pc'[r] \in {"publishWait", "finishPull"}
  BY <1>1, JoinedShape
<1>3. TypeOK'
  <2>1. seen'\in [Runs -> Reading] /\ basis' \in [Runs -> Basis]
    BY <1>1 DEF TypeOK, Reading, Basis, NothingRead
  <2>2. executed' \in [Runs -> JobResults]
    BY <1>1 DEF TypeOK, JobResults
  <2> QED BY <1>1, <1>2, <2>1, <2>2 DEF SameData, TypeOK
<1>4. RunOK(r)'
  <2>1. basis'[r] = [plan |-> basis[r].plan, proof |-> seen[r].listed] /\ executed'[r] = result
    BY <1>1 DEF TypeOK, Basis
  <2>2. planned[r] = "ready"
    BY DEF RunOK, ResultsOK
  <2>3. ResultsOK(r)'
    BY <1>1, <1>2, <2>1, <2>2 DEF ResultsOK
  <2>4. OutputsOK(r)'
    BY <1>1, <1>2 DEF SameData, RunOK, OutputsOK
  <2>5. BasisOK(r)'
    BY <1>1, <2>1, <2>2 DEF RunOK, BasisOK, PlanPassed, Inputs
  <2> QED BY <2>3, <2>4, <2>5 DEF RunOK
<1>5. \A s \in Runs \ {r} : Frame(s)
  BY <1>1, <1>2 DEF TypeOK, SameData, Frame
<1> QED BY <1>3, <1>4, <1>5 DEF StepOK

LEMMA ReadOK ==
  ASSUME TypeOK, RunsOK, NEW r \in Runs, PlanRead(r) \/ VerifyRead(r)
  PROVE  StepOK(r) /\ status' = status
<1>1. RunOK(r) /\ status' = status /\ SameData /\ ctx' = ctx /\ cancel' = cancel
  BY DEF RunsOK, RunOK, PlanRead, VerifyRead, SameData, github
<1>2. CASE PlanRead(r) /\ AfterPlan(r, "failed")
  BY <1>1, <1>2, AfterPlanOK DEF PlanRead, PlanResults, PlanStatus
<1>3. CASE VerifyRead(r) /\ AfterVerify(r, "failure")
  BY <1>1, <1>3, AfterVerifyOK DEF VerifyRead
<1>4. CASE \/ pc[r] = "plan" /\ Read(r, "planList")
           \/ pc[r] = "verify" /\ Read(r, "verifyList")
  <2>1. /\ seen' = [seen EXCEPT ![r].ref = pr[trigger[r].pr].base]
        /\ basis' = basis /\ planned' = planned /\ executed' = executed
        /\ \/ pc[r] = "plan" /\ pc' = [pc EXCEPT ![r] = "planList"]
           \/ pc[r] = "verify" /\ pc' = [pc EXCEPT ![r] = "verifyList"]
    BY <1>4 DEF Read, Goto
  <2>2. pr[trigger[r].pr].base \in Branches
    BY <1>1, <1>4 DEF TypeOK, RunOK, OutputsOK, Trigger, PullRequest
  <2>3. TypeOK'
    <3>1. seen[r] \in Reading /\ seen \in [Runs -> Reading]
      BY DEF TypeOK
    <3>2. [seen[r] EXCEPT !.ref = pr[trigger[r].pr].base] \in Reading
      BY <2>2, <3>1 DEF Reading
    <3>3. seen' \in [Runs -> Reading]
      BY <2>1, <3>1, <3>2
    <3> QED BY <1>1, <2>1, <3>3 DEF SameData, TypeOK
  <2>4. RunOK(r)'
    BY <1>1, <2>1 DEF TypeOK, SameData, RunOK, ResultsOK, OutputsOK, BasisOK, PlanPassed
  <2>5. \A s \in Runs \ {r} : Frame(s)
    BY <1>1, <2>1 DEF TypeOK, SameData, Frame
  <2> QED BY <1>1, <2>3, <2>4, <2>5 DEF StepOK
<1> QED BY <1>2, <1>3, <1>4 DEF PlanRead, VerifyRead

LEMMA ListFilesOK ==
  ASSUME TypeOK, RunsOK, NEW r \in Runs, ListFiles(r)
  PROVE  StepOK(r) /\ status' = status
<1>1. RunOK(r) /\ status' = status /\ SameData /\ ctx' = ctx /\ cancel' = cancel
        /\ basis' = basis /\ planned' = planned /\ executed' = executed
        /\ seen' = [seen EXCEPT ![r].listed = pr[trigger[r].pr].head]
  BY DEF RunsOK, RunOK, ListFiles, SameData, github
<1>2. \/ pc[r] = "planList" /\ pc' = [pc EXCEPT ![r] = "planRecheck"]
      \/ pc[r] = "verifyList" /\ pc' = [pc EXCEPT ![r] = "verifyRecheck"]
  BY DEF ListFiles, Goto
<1>3. pr[trigger[r].pr].head \in Heads
  BY <1>1, <1>2 DEF TypeOK, RunOK, OutputsOK, Trigger, PullRequest
<1>4. TypeOK'
  <2>1. seen[r] \in Reading /\ seen \in [Runs -> Reading]
    BY DEF TypeOK
  <2>2. [seen[r] EXCEPT !.listed = pr[trigger[r].pr].head] \in Reading
    BY <1>3, <2>1 DEF Reading
  <2>3. seen' \in [Runs -> Reading]
    BY <1>1, <2>1, <2>2
  <2> QED BY <1>1, <1>2, <2>3 DEF SameData, TypeOK
<1>5. RunOK(r)'
  BY <1>1, <1>2, <1>3 DEF TypeOK, Reading, SameData, RunOK, ResultsOK, OutputsOK, BasisOK, PlanPassed
<1>6. \A s \in Runs \ {r} : Frame(s)
  BY <1>1, <1>2 DEF TypeOK, SameData, Frame
<1> QED BY <1>1, <1>4, <1>5, <1>6 DEF StepOK

LEMMA RecheckOK ==
  ASSUME TypeOK, RunsOK, NEW r \in Runs, PlanRecheck(r) \/ VerifyRecheck(r)
  PROVE  StepOK(r) /\ status' = status
<1>1. RunOK(r) /\ status' = status /\ SameData /\ ctx' = ctx /\ cancel' = cancel
  BY DEF RunsOK, RunOK, PlanRecheck, VerifyRecheck, SameData, github
<1>2. CASE PlanRecheck(r) /\ AfterPlan(r, "failed")
  BY <1>1, <1>2, AfterPlanOK DEF PlanRecheck, PlanResults, PlanStatus
<1>3. CASE PlanRecheck(r) /\ AfterPlan(r, PlanOf[Inputs(r)])
  <2>1. pc[r] = "planRecheck" /\ seen[r].listed \in Heads
    BY <1>1, <1>3 DEF PlanRecheck, RunOK, ResultsOK
  <2>2. ctx[r].head \in Heads /\ ctx[r].base \in Revs
    BY <1>1, <2>1, GateAssumption DEF RunOK, OutputsOK, TypeOK, Context, Trigger
  <2>3. PlanOf[Inputs(r)] \in PlanStatus
    BY <2>1, <2>2, GateAssumption DEF Inputs
  <2>4. PlanOf[Inputs(r)] \in PlanResults \ {"none"}
    BY <2>3 DEF PlanResults, PlanStatus
  <2> QED BY <1>1, <1>3, <2>1, <2>4, AfterPlanOK
<1>4. CASE VerifyRecheck(r)
  <2> DEFINE passed == Unmoved(r) /\ Inputs(r) \in Proven
             result == IF passed THEN "success" ELSE "failure"
  <2>1. pc[r] = "verifyRecheck" /\ AfterVerify(r, result)
    BY <1>4 DEF VerifyRecheck
  <2>2. result = "success" => Inputs(r) \in Proven
    OBVIOUS
  <2>3. result \in {"success", "failure", "cancelled"}
    OBVIOUS
  <2> HIDE DEF result
  <2> QED BY <1>1, <2>1, <2>2, <2>3, AfterVerifyOK
<1> QED BY <1>2, <1>3, <1>4 DEF PlanRecheck

\* A job that is cancelled or fails.
LEMMA StopOK ==
  ASSUME TypeOK, RunsOK, NEW r \in Runs, Cancelled(r) \/ Outage(r)
  PROVE  StepOK(r) /\ status' = status
<1>1. RunOK(r) /\ status' = status /\ SameData /\ cancel' = cancel
  BY DEF RunsOK, RunOK, Cancelled, Outage, SameData, github
<1>2. CASE pc[r] \in Publishing
  <2>1. MoveAlone(r, "done")
    BY <1>1, <1>2 DEF Cancelled, Outage, JobEnds, MoveAlone, jobs, Goto
  <2> QED BY <1>1, <1>2, <2>1, MoveOK DEF TypeOK
<1>3. CASE pc[r] \notin Publishing
  <2>1. PICK result \in {"cancelled", "failure"} : JobEnds(r, result)
    BY <1>3 DEF Cancelled, Outage
  <2>2. CASE pc[r] \in Planning
    <3>1. AfterPlan(r, result) /\ ctx' = ctx
      BY <2>1, <2>2 DEF JobEnds
    <3>2. result \in PlanResults \ {"none"} /\ result \notin {"ready", "not_applicable"}
      BY DEF PlanResults
    <3> QED BY <1>1, <2>2, <3>1, <3>2, AfterPlanOK
  <2>3. CASE pc[r] \in Verifying
    <3>1. AfterVerify(r, result) /\ ctx' = ctx
      BY <2>1, <2>3 DEF JobEnds
    <3>2. result \in {"success", "failure", "cancelled"} /\ result # "success"
      OBVIOUS
    <3> QED BY <1>1, <2>3, <3>1, <3>2, AfterVerifyOK
  <2>4. CASE pc[r] \notin Planning \cup Verifying
    <3>1. /\ pc[r] \in Resolving \cup {"resolveWait"}
          /\ pc' = [pc EXCEPT ![r] = "unresolved"] /\ ctx' = [ctx EXCEPT ![r] = NoContext]
          /\ seen' = seen /\ basis' = basis /\ planned' = planned /\ executed' = executed
      BY <2>1, <2>4 DEF JobEnds, Goto
    <3>2. TypeOK'
      BY <1>1, <3>1 DEF SameData, TypeOK, Context, NoContext
    <3>3. RunOK(r)'
      BY <1>1, <3>1 DEF SameData, TypeOK, NoContext, RunOK, ResultsOK, OutputsOK, BasisOK, PlanPassed
    <3>4. \A s \in Runs \ {r} : Frame(s)
      BY <1>1, <3>1 DEF TypeOK, SameData, Frame
    <3> QED BY <1>1, <3>2, <3>3, <3>4 DEF StepOK
  <2> QED BY <2>2, <2>3, <2>4
<1> QED BY <1>2, <1>3

LEMMA RerunOK ==
  ASSUME TypeOK, RunsOK, NEW r \in Runs, RerunAll(r) \/ RerunFailed(r)
  PROVE  StepOK(r) /\ status' = status
<1>1. /\ RunOK(r) /\ status' = status /\ pc[r] \in Over
      /\ pr' = pr /\ tip' = tip /\ been' = been /\ guarded' = guarded
      /\ trigger' = trigger /\ seen' = seen
      /\ cancel' = [cancel EXCEPT ![r] = FALSE] /\ pc' = [pc EXCEPT ![r] = "triggered"]
  BY DEF RunsOK, RunOK, RerunAll, RerunFailed, Again, github, Goto
<1>2. attempt' \in [Runs -> 1..MaxAttempts]
  BY GateAssumption DEF TypeOK, RerunAll, RerunFailed, Again
<1>3. CASE RerunAll(r)
  <2>1. /\ ctx' = [ctx EXCEPT ![r] = NoContext] /\ basis' = [basis EXCEPT ![r] = NoBasis]
        /\ planned' = [planned EXCEPT ![r] = "none"]
        /\ executed' = [executed EXCEPT ![r] = "none"]
    BY <1>3 DEF RerunAll
  <2>2. NoContext \in Context /\ NoBasis \in Basis
    BY DEF NoContext, NoBasis, Context, Basis
  <2>3. TypeOK'
    BY <1>1, <1>2, <2>1, <2>2 DEF TypeOK, PlanResults, JobResults
  <2>4. RunOK(r)'
    BY <1>1, <2>1 DEF TypeOK, NoContext, RunOK, ResultsOK, OutputsOK, BasisOK, PlanPassed
  <2>5. \A s \in Runs \ {r} : Frame(s)
    BY <1>1, <2>1 DEF TypeOK, Frame
  <2> QED BY <1>1, <2>3, <2>4, <2>5 DEF StepOK
<1>4. CASE RerunFailed(r)
  <2>1. /\ ctx' = ctx /\ basis' = basis
        /\ planned' = [planned EXCEPT ![r] = IF PlanPassed(r) THEN @ ELSE "none"]
        /\ executed' = [executed EXCEPT ![r] =
             IF PlanPassed(r) /\ executed[r] \in {"success", "skipped"} THEN @ ELSE "none"]
    BY <1>4 DEF RerunFailed
  <2>2. TypeOK'
    BY <1>1, <1>2, <2>1 DEF TypeOK, PlanResults, JobResults
  <2>3. RunOK(r)'
    BY <1>1, <2>1 DEF TypeOK, RunOK, ResultsOK, OutputsOK, BasisOK, PlanPassed
  <2>4. \A s \in Runs \ {r} : Frame(s)
    BY <1>1, <2>1 DEF TypeOK, Frame
  <2> QED BY <1>1, <2>2, <2>3, <2>4 DEF StepOK
<1> QED BY <1>3, <1>4

-----------------------------------------------------------------------------
\* People and branches move: every run keeps its data, a new event is captured
\* by an unused run, and branches only gain revisions.
RepositoryOK == TypeOK' /\ RunsOK' /\ BeenGrows /\ status' = status

LEMMA TriggerOK ==
  ASSUME TypeOK, RunsOK, NEW r \in Runs, pc[r] = "unused", NEW t \in Trigger,
         pc' = [pc EXCEPT ![r] = "triggered"], trigger' = [trigger EXCEPT ![r] = t],
         been' = been, ctx' = ctx, seen' = seen, basis' = basis,
         planned' = planned, executed' = executed
  PROVE  \A s \in Runs : RunOK(s)'
<1>1. SUFFICES ASSUME NEW s \in Runs PROVE RunOK(s)'
  OBVIOUS
<1>2. RunOK(s)
  BY DEF RunsOK, RunOK
<1>3. CASE s # r
  BY <1>2, <1>3, FrameOK DEF TypeOK, Frame, BeenGrows
<1>4. CASE s = r
  BY <1>2, <1>4 DEF TypeOK, RunOK, ResultsOK, OutputsOK, BasisOK, PlanPassed, NoContext
<1> QED BY <1>3, <1>4

LEMMA SameRuns ==
  ASSUME TypeOK, RunsOK, BeenGrows, pc' = pc, trigger' = trigger, ctx' = ctx, seen' = seen,
         basis' = basis, planned' = planned, executed' = executed
  PROVE  \A s \in Runs : RunOK(s)'
BY FrameOK DEF RunsOK, RunOK, Frame

LEMMA PullRequestEventOK ==
  ASSUME TypeOK, RunsOK, NEW p \in PRs, NEW new \in PullRequest,
         new.head \in HeadsOf[p], PullRequestEvent(p, new)
  PROVE  RepositoryOK
<1>1. /\ pr' = [pr EXCEPT ![p] = new] /\ tip' = tip /\ been' = been /\ guarded' = guarded
      /\ status' = status /\ ctx' = ctx /\ seen' = seen /\ basis' = basis /\ planned' = planned
      /\ executed' = executed /\ cancel' = cancel /\ attempt' = attempt
  BY DEF PullRequestEvent, jobs
<1>2. CASE pc' = pc /\ trigger' = trigger
  <2>1. \A s \in Runs : RunOK(s)'
    BY <1>1, <1>2, SameRuns DEF BeenGrows
  <2> QED BY <1>1, <1>2, <2>1 DEF RepositoryOK, TypeOK, RunsOK, RunOK, BeenGrows
<1>3. ASSUME NEW r \in Runs, NEW rev \in been[new.base], pc[r] = "unused",
             pc' = [pc EXCEPT ![r] = "triggered"],
             trigger' = [trigger EXCEPT ![r] =
                  [event |-> "pull_request_target", pr |-> p, head |-> new.head,
                   ref |-> new.base, sha |-> rev, base |-> None]]
      PROVE  RepositoryOK
  <2> DEFINE t == [event |-> "pull_request_target", pr |-> p, head |-> new.head,
                   ref |-> new.base, sha |-> rev, base |-> None]
  <2>1. t \in Trigger
    BY DEF Trigger, PullRequest, TypeOK
  <2> HIDE DEF t
  <2>2. trigger' = [trigger EXCEPT ![r] = t]
    BY <1>3 DEF t
  <2>3. \A s \in Runs : RunOK(s)'
    BY <1>1, <1>3, <2>1, <2>2, TriggerOK
  <2>4. TypeOK'
    BY <1>1, <1>3, <2>1, <2>2 DEF TypeOK
  <2> QED BY <1>1, <2>3, <2>4 DEF RepositoryOK, TypeOK, RunsOK, RunOK, BeenGrows
<1> QED BY <1>2, <1>3 DEF PullRequestEvent

LEMMA DispatchOK ==
  ASSUME TypeOK, RunsOK, NEW p \in PRs, NEW b \in Branches,
         NEW head \in Heads \cup {None}, NEW base \in Revs \cup {None},
         Dispatch(p, b, head, base)
  PROVE  RepositoryOK
<1>1. /\ pr' = pr /\ tip' = tip /\ been' = been /\ guarded' = guarded
      /\ status' = status /\ ctx' = ctx /\ seen' = seen /\ basis' = basis /\ planned' = planned
      /\ executed' = executed /\ cancel' = cancel /\ attempt' = attempt
  BY DEF Dispatch, github, jobs
<1> DEFINE t == [event |-> "workflow_dispatch", pr |-> p, head |-> head, ref |-> b,
                 sha |-> tip[b], base |-> base]
<1>2. t \in Trigger
  BY DEF Trigger, TypeOK
<1>3. PICK r \in Runs : /\ pc[r] = "unused" /\ pc' = [pc EXCEPT ![r] = "triggered"]
                        /\ trigger' = [trigger EXCEPT ![r] = t]
  BY DEF Dispatch
<1> HIDE DEF t
<1>4. \A s \in Runs : RunOK(s)'
  BY <1>1, <1>2, <1>3, TriggerOK
<1>5. TypeOK'
  BY <1>1, <1>2, <1>3 DEF TypeOK
<1> QED BY <1>1, <1>4, <1>5 DEF RepositoryOK, RunsOK, RunOK, BeenGrows

LEMMA RepositoryStepOK ==
  ASSUME TypeOK, RunsOK, Repository
  PROVE  RepositoryOK
<1>1. ASSUME NEW p \in PRs, PullMove(p) PROVE RepositoryOK
  <2>1. pr[p] \in PullRequest /\ pr[p].head \in HeadsOf[p] /\ HeadsOf[p] \subseteq Heads
    BY GateAssumption DEF TypeOK, RunsOK
  <2>2. CASE Open(p)
    BY <2>1, <2>2, PullRequestEventOK DEF Open, PullRequest
  <2>3. CASE Ready(p)
    BY <2>1, <2>3, PullRequestEventOK DEF Ready
  <2>4. ASSUME NEW h \in HeadsOf[p], Push(p, h) PROVE RepositoryOK
    BY <2>1, <2>4, PullRequestEventOK DEF Push, PullRequest
  <2>5. ASSUME NEW b \in Branches, Retarget(p, b) PROVE RepositoryOK
    BY <2>1, <2>5, PullRequestEventOK DEF Retarget, PullRequest
  <2>6. ASSUME NEW b \in Branches, ManualDispatch(p, b) PROVE RepositoryOK
    BY <2>6, DispatchOK DEF ManualDispatch
  <2>7. ASSUME NEW b \in Branches, ResumeDispatch(p, b) PROVE RepositoryOK
    <3>1. PICK h \in HeadsOf[p], rev \in been[b] : Dispatch(p, b, h, rev)
      BY <2>7 DEF ResumeDispatch
    <3>2. h \in Heads /\ rev \in Revs
      BY <2>1, <3>1 DEF TypeOK
    <3> QED BY <3>1, <3>2, DispatchOK
  <2>8. CASE Close(p)
    <3>1. /\ pr' = [pr EXCEPT ![p].open = FALSE] /\ tip' = tip /\ been' = been /\ guarded' = guarded
          /\ status' = status /\ pc' = pc /\ trigger' = trigger /\ ctx' = ctx /\ seen' = seen
          /\ basis' = basis /\ planned' = planned /\ executed' = executed /\ cancel' = cancel
          /\ attempt' = attempt
      BY <2>8 DEF Close, jobs
    <3>2. \A s \in Runs : RunOK(s)'
      BY <3>1, SameRuns DEF BeenGrows
    <3>3. pr' \in [PRs -> PullRequest] /\ \A q \in PRs : pr'[q].head = pr[q].head
      BY <3>1 DEF TypeOK, PullRequest
    <3> QED BY <3>1, <3>2, <3>3 DEF RepositoryOK, TypeOK, RunsOK, RunOK, BeenGrows
  <2> QED BY <1>1, <2>2, <2>3, <2>4, <2>5, <2>6, <2>7, <2>8 DEF PullMove
<1>2. ASSUME NEW b \in Branches, BranchMove(b) PROVE RepositoryOK
  <2>1. /\ pr' = pr /\ status' = status /\ pc' = pc /\ trigger' = trigger /\ ctx' = ctx
        /\ seen' = seen /\ basis' = basis /\ planned' = planned /\ executed' = executed
        /\ cancel' = cancel /\ attempt' = attempt
    BY <1>2 DEF BranchMove, Advance, Protect, jobs
  <2>2. /\ tip' \in [Branches -> Revs] /\ been' \in [Branches -> SUBSET Revs]
        /\ guarded' \in [Branches -> BOOLEAN] /\ BeenGrows
        /\ \A c \in Branches : tip'[c] \in been'[c]
    <3>1. CASE Protect(b)
      BY <3>1 DEF Protect, TypeOK, RunsOK, BeenGrows
    <3>2. ASSUME NEW rev \in Revs, Advance(b, rev)
          PROVE  /\ tip' \in [Branches -> Revs] /\ been' \in [Branches -> SUBSET Revs]
                 /\ guarded' \in [Branches -> BOOLEAN] /\ BeenGrows
                 /\ \A c \in Branches : tip'[c] \in been'[c]
      <4>1. /\ tip' = [tip EXCEPT ![b] = rev] /\ guarded' = guarded
            /\ been' = [been EXCEPT ![b] = been[b] \cup {rev}]
        BY <3>2 DEF Advance
      <4> QED BY <4>1 DEF TypeOK, RunsOK, BeenGrows
    <3> QED BY <1>2, <3>1, <3>2 DEF BranchMove
  <2>3. \A s \in Runs : RunOK(s)'
    BY <2>1, <2>2, SameRuns
  <2> QED BY <2>1, <2>2, <2>3 DEF RepositoryOK, TypeOK, RunsOK, RunOK
<1> QED BY <1>1, <1>2 DEF Repository

-----------------------------------------------------------------------------
\* Initially nothing has run and no status has been posted.
LEMMA InitOK == Init => GateInv
<1> SUFFICES ASSUME Init PROVE GateInv
  OBVIOUS
<1>1. /\ NoContext \in Context /\ NothingRead \in Reading /\ NoBasis \in Basis
      /\ NoStatus \in Status
  BY DEF NoContext, NothingRead, NoBasis, NoStatus, Context, Reading, Basis, Status
<1>2. TypeOK
  BY <1>1, GateAssumption DEF Init, TypeOK, PlanResults, JobResults
<1>3. RunsOK
  BY GateAssumption DEF Init, RunsOK, ResultsOK, OutputsOK, BasisOK, PlanPassed, NoContext
<1>4. SuccessEarned
  BY DEF Init, SuccessEarned, NoStatus
<1> QED BY <1>2, <1>3, <1>4 DEF GateInv

LEMMA RunStepOK ==
  ASSUME TypeOK, RunsOK, NEW r \in Runs,
         RunStep(r) \/ Outage(r) \/ RerunAll(r) \/ RerunFailed(r)
  PROVE  /\ StepOK(r) /\ tip' = tip /\ been' = been /\ pr' = pr
         /\ status' = status \/ ResolvePost(r) \/ FinishPost(r)
<1>1. tip' = tip /\ been' = been /\ pr' = pr
  BY DEF RunStep, Enqueue, Start, Acquire, ResolvePull, ResolveBranch, ResolvePost, ResolveEmit,
     PlanRead, VerifyRead, ListFiles, PlanRecheck, VerifyRecheck, FinishPull, FinishBranch,
     FinishStatus, FinishPost, Cancelled, Outage, RerunAll, RerunFailed, Again, github
<1>2. CASE ResolvePull(r) \/ ResolveBranch(r)
  BY <1>1, <1>2, ResolvePullOK, ResolveBranchOK DEF ResolvePull, ResolveBranch
<1>3. CASE ResolvePost(r) \/ FinishPost(r)
  BY <1>1, <1>3, ResolvePostOK, FinishPostOK
<1>4. CASE Enqueue(r) \/ Start(r)
  BY <1>1, <1>4, EnqueueOK, StartOK
<1>5. CASE Acquire(r) \/ ResolveEmit(r) \/ FinishPull(r) \/ FinishBranch(r) \/ FinishStatus(r)
  BY <1>1, <1>5, HandoverOK
<1>6. CASE PlanRead(r) \/ VerifyRead(r) \/ ListFiles(r) \/ PlanRecheck(r) \/ VerifyRecheck(r)
  BY <1>1, <1>6, ReadOK, ListFilesOK, RecheckOK
<1>7. CASE Cancelled(r) \/ Outage(r) \/ RerunAll(r) \/ RerunFailed(r)
  BY <1>1, <1>7, StopOK, RerunOK
<1> QED BY <1>2, <1>3, <1>4, <1>5, <1>6, <1>7 DEF RunStep

\* A run can only post a success that its own results earn.
LEMMA PostEarned ==
  ASSUME TypeOK, RunsOK, SuccessEarned, NEW r \in Runs, ResolvePost(r) \/ FinishPost(r)
  PROVE  SuccessEarned'
<1>1. been' = been /\ RunOK(r) /\ pc[r] \in Resolved
  BY DEF ResolvePost, FinishPost, github, RunsOK, RunOK
<1>2. PICK state \in {"pending", "success", "failure"} :
        /\ Post(r, state)
        /\ state = "success" => Succeeded(r)
  <2>1. CASE ResolvePost(r)
    BY <2>1 DEF ResolvePost
  <2>2. CASE FinishPost(r)
    BY <2>2 DEF FinishPost
  <2> QED BY <2>1, <2>2
<1>3. /\ ctx[r].head \in Heads
      /\ status' = [status EXCEPT ![ctx[r].head] =
              [state |-> state, run |-> r, ref |-> ctx[r].ref,
               base |-> ctx[r].base, basis |-> basis[r]]]
  BY <1>1, <1>2, PostShape
<1>4. ASSUME NEW h \in Heads, status'[h].state = "success"
      PROVE  LET s == status'[h]  b == s.basis IN
             /\ s.ref \in Targets /\ s.base \in been[s.ref] /\ b.plan \in Heads
             /\ \/ b.proof = None /\ PlanOf[<<h, b.plan, s.base>>] = "not_applicable"
                \/ /\ PlanOf[<<h, b.plan, s.base>>] = "ready"
                   /\ <<h, b.proof, s.base>> \in Proven
  <2>1. CASE h # ctx[r].head
    BY <1>3, <1>4, <2>1 DEF SuccessEarned, TypeOK
  <2>2. CASE h = ctx[r].head
    <3>1. /\ state = "success" /\ status'[h].ref = ctx[r].ref /\ status'[h].base = ctx[r].base
          /\ status'[h].basis = basis[r]
      BY <1>3, <1>4, <2>2 DEF TypeOK
    <3>2. Succeeded(r)
      BY <1>2, <3>1
    <3>3. /\ ctx[r].ref \in Targets /\ ctx[r].base \in been[ctx[r].ref]
          /\ basis[r].plan \in Heads
          /\ PlanOf[<<ctx[r].head, basis[r].plan, ctx[r].base>>] = planned[r]
          /\ planned[r] = "not_applicable" => basis[r].proof = None
          /\ executed[r] = "success" => <<ctx[r].head, basis[r].proof, ctx[r].base>> \in Proven
      BY <1>1, <3>2 DEF Succeeded, PlanPassed, RunOK, OutputsOK, BasisOK
    <3> QED BY <2>2, <3>1, <3>2, <3>3 DEF Succeeded
  <2> QED BY <2>1, <2>2
<1> QED BY <1>1, <1>4 DEF SuccessEarned

LEMMA NextOK == GateInv /\ [Next]_vars => GateInv'
<1> SUFFICES ASSUME TypeOK, RunsOK, SuccessEarned, [Next]_vars PROVE GateInv'
  BY DEF GateInv
<1>1. CASE UNCHANGED vars
  BY <1>1 DEF vars, GateInv, TypeOK, RunsOK, SuccessEarned, ResultsOK, OutputsOK, BasisOK,
     PlanPassed
<1>2. CASE Repository
  <2>1. RepositoryOK
    BY <1>2, RepositoryStepOK
  <2>2. SuccessEarned'
    BY <2>1, GateAssumption DEF RepositoryOK, SuccessEarned, BeenGrows
  <2> QED BY <2>1, <2>2 DEF RepositoryOK, GateInv
<1>3. ASSUME NEW r \in Runs, RunStep(r) \/ Outage(r) \/ RerunAll(r) \/ RerunFailed(r)
      PROVE  GateInv'
  <2>1. /\ StepOK(r) /\ tip' = tip /\ been' = been /\ pr' = pr
        /\ status' = status \/ ResolvePost(r) \/ FinishPost(r)
    BY <1>3, RunStepOK
  <2>2. ASSUME NEW s \in Runs PROVE RunOK(s)'
    <3>1. RunOK(s) /\ BeenGrows
      BY <2>1 DEF RunsOK, RunOK, BeenGrows
    <3> QED BY <2>1, <3>1, FrameOK DEF StepOK
  <2>3. RunsOK'
    BY <2>1, <2>2 DEF RunsOK, RunOK
  <2>4. SuccessEarned'
    <3>1. CASE status' = status
      BY <2>1, <3>1 DEF SuccessEarned
    <3> QED BY <2>1, <3>1, PostEarned
  <2> QED BY <2>1, <2>3, <2>4 DEF StepOK, GateInv
<1> QED BY <1>1, <1>2, <1>3 DEF Next

\* The gate keeps its types and its runs consistent, whatever people, branches,
\* outages, cancellations and re-runs do.
THEOREM GateInvariant == Spec => []GateInv
BY InitOK, NextOK, PTL DEF Spec

THEOREM TypeCorrect == Spec => []TypeOK
<1>1. GateInv => TypeOK
  BY DEF GateInv
<1> QED BY <1>1, GateInvariant, PTL

\* Whatever a run carries from one job to the next - its plan, its proof verdict,
\* the head and the base it resolved - stays what the jobs before it established
\* (lean-verification.yml: needs and outputs of resolve, plan and verify).
THEOREM RunsConsistent == Spec => []RunsOK
<1>1. GateInv => RunsOK
  BY DEF GateInv
<1> QED BY <1>1, GateInvariant, PTL

\* Every success on a commit was earned (gate_status.py:114-120).
THEOREM SuccessIsEarned == Spec => []SuccessEarned
<1>1. GateInv => SuccessEarned
  BY DEF GateInv
<1> QED BY <1>1, GateInvariant, PTL

-----------------------------------------------------------------------------
(***************************************************************************)
(* The lean-status lock and the verdicts it protects.                       *)
(***************************************************************************)

\* A step of r respects the lock: r starts to hold it only when no rival does,
\* and comes to post a verdict only after finding its own pending status.
Respects(r) ==
  /\ trigger' = trigger
  /\ pc'[r] \in Holding => pc[r] \in Holding \/ \A s \in Rivals(r) : pc[s] \notin Holding
  /\ pc'[r] = "finishPost" => OwnsPending(r) /\ status' = status /\ ctx' = ctx

LEMMA JoinedRespects ==
  ASSUME TypeOK, NEW r \in Runs,
         \/ pc' = Joined(r, "resolveWait", "resolvePull")
         \/ pc' = Joined(r, "publishWait", "finishPull")
  PROVE  /\ pc'[r] # "finishPost"
         /\ pc'[r] \in Holding => \A s \in Rivals(r) : pc[s] \notin Holding
BY DEF TypeOK, Joined

LEMMA StepRespects ==
  ASSUME TypeOK, NEW r \in Runs,
         RunStep(r) \/ Outage(r) \/ RerunAll(r) \/ RerunFailed(r)
  PROVE  Respects(r)
<1>1. trigger' = trigger
  BY DEF RunStep, Enqueue, Start, Acquire, ResolvePull, ResolveBranch, ResolvePost, ResolveEmit,
     PlanRead, VerifyRead, ListFiles, PlanRecheck, VerifyRecheck, FinishPull, FinishBranch,
     FinishStatus, FinishPost, Cancelled, Outage, RerunAll, RerunFailed, Again
<1>2. CASE Enqueue(r)
  BY <1>1, <1>2 DEF Enqueue, TypeOK, Respects
<1>3. CASE Start(r)
  BY <1>1, <1>3, JoinedRespects DEF Start, TypeOK, Respects
<1>4. CASE Acquire(r)
  BY <1>1, <1>4 DEF Acquire, TypeOK, Respects
<1>5. CASE ResolvePull(r) \/ ResolveBranch(r) \/ ResolvePost(r) \/ ResolveEmit(r)
  BY <1>1, <1>5 DEF ResolvePull, ResolveBranch, ResolvePost, ResolveEmit, Goto, TypeOK, Respects
<1>6. ASSUME NEW answer, AfterPlan(r, answer) PROVE Respects(r)
  BY <1>1, <1>6, JoinedRespects DEF AfterPlan, Goto, TypeOK, Respects
<1>7. ASSUME NEW result, AfterVerify(r, result) PROVE Respects(r)
  BY <1>1, <1>7, JoinedRespects DEF AfterVerify, Respects
<1>8. CASE PlanRead(r) \/ VerifyRead(r)
  <2>1. CASE Read(r, "planList") \/ Read(r, "verifyList")
    BY <1>1, <2>1 DEF Read, Goto, TypeOK, Respects
  <2> QED BY <1>6, <1>7, <1>8, <2>1 DEF PlanRead, VerifyRead
<1>9. CASE ListFiles(r)
  BY <1>1, <1>9 DEF ListFiles, Goto, TypeOK, Respects
<1>10. CASE PlanRecheck(r) \/ VerifyRecheck(r)
  BY <1>6, <1>7, <1>10 DEF PlanRecheck, VerifyRecheck
<1>11. CASE FinishPull(r) \/ FinishBranch(r) \/ FinishPost(r)
  BY <1>1, <1>11 DEF FinishPull, FinishBranch, FinishPost, Goto, TypeOK, Respects
<1>12. CASE FinishStatus(r)
  BY <1>1, <1>12 DEF FinishStatus, Goto, jobs, TypeOK, Respects
<1>13. ASSUME NEW result, JobEnds(r, result) PROVE Respects(r)
  <2>1. CASE Goto(r, "unresolved")
    BY <1>1, <2>1 DEF Goto, TypeOK, Respects
  <2> QED BY <1>6, <1>7, <1>13, <2>1 DEF JobEnds
<1>14. CASE Cancelled(r)
  BY <1>13, <1>14 DEF Cancelled
<1>15. CASE Outage(r)
  <2>1. CASE Goto(r, "done")
    BY <1>1, <2>1 DEF Goto, TypeOK, Respects
  <2> QED BY <1>13, <1>15, <2>1 DEF Outage
<1>16. CASE RerunAll(r) \/ RerunFailed(r)
  BY <1>1, <1>16 DEF RerunAll, RerunFailed, Again, Goto, TypeOK, Respects
<1> QED BY <1>2, <1>3, <1>4, <1>5, <1>8, <1>9, <1>10, <1>11, <1>12, <1>14, <1>15, <1>16 DEF RunStep

LEMMA RepositoryQuiet ==
  ASSUME TypeOK, Repository
  PROVE  /\ status' = status /\ ctx' = ctx
         /\ \A s \in Runs : \/ pc'[s] = pc[s] /\ (pc[s] # "unused" => trigger'[s] = trigger[s])
                            \/ pc'[s] = "triggered"
<1>1. ASSUME NEW p, NEW new, PullRequestEvent(p, new)
      PROVE  /\ status' = status /\ ctx' = ctx
             /\ \A s \in Runs : \/ pc'[s] = pc[s] /\ (pc[s] # "unused" => trigger'[s] = trigger[s])
                                \/ pc'[s] = "triggered"
  BY <1>1 DEF PullRequestEvent, jobs, TypeOK
<1>2. ASSUME NEW p, NEW b, NEW head, NEW base, Dispatch(p, b, head, base)
      PROVE  /\ status' = status /\ ctx' = ctx
             /\ \A s \in Runs : \/ pc'[s] = pc[s] /\ (pc[s] # "unused" => trigger'[s] = trigger[s])
                                \/ pc'[s] = "triggered"
  BY <1>2 DEF Dispatch, jobs, TypeOK
<1>3. ASSUME NEW p \in PRs, PullMove(p)
      PROVE  /\ status' = status /\ ctx' = ctx
             /\ \A s \in Runs : \/ pc'[s] = pc[s] /\ (pc[s] # "unused" => trigger'[s] = trigger[s])
                                \/ pc'[s] = "triggered"
  <2>1. CASE Close(p)
    BY <2>1 DEF Close, jobs
  <2>2. CASE Open(p) \/ Ready(p)
    BY <1>1, <2>2 DEF Open, Ready
  <2>3. CASE (\E h \in HeadsOf[p] : Push(p, h)) \/ (\E b \in Branches : Retarget(p, b))
    BY <1>1, <2>3 DEF Push, Retarget
  <2>4. CASE \E b \in Branches : ResumeDispatch(p, b) \/ ManualDispatch(p, b)
    BY <1>2, <2>4 DEF ManualDispatch, ResumeDispatch
  <2> QED BY <1>3, <2>1, <2>2, <2>3, <2>4 DEF PullMove
<1>4. ASSUME NEW b \in Branches, BranchMove(b)
      PROVE  status' = status /\ ctx' = ctx /\ pc' = pc /\ trigger' = trigger
  BY <1>4 DEF BranchMove, Advance, Protect, jobs
<1> QED BY <1>3, <1>4 DEF Repository

\* Two runs about to post on one commit belong to one pull request.
LEMMA SameHeadSamePR ==
  ASSUME DisjointHeads, RunsOK, TypeOK, NEW r \in Runs, NEW s \in Runs,
         pc[r] \in Resolved, pc[s] \in Resolved, ctx[r].head = ctx[s].head
  PROVE  SamePR(r, s) /\ SamePR(s, r)
<1>1. /\ trigger[r] \in Trigger /\ trigger[s] \in Trigger
      /\ ctx[r].head \in HeadsOf[trigger[r].pr] /\ ctx[s].head \in HeadsOf[trigger[s].pr]
  BY DEF RunsOK, OutputsOK
<1>2. trigger[r].pr \in PRs /\ trigger[s].pr \in PRs
  BY <1>1 DEF Trigger
<1> QED BY <1>1, <1>2 DEF DisjointHeads, SamePR

LEMMA LockOK ==
  ASSUME DisjointHeads, GateInv, LockInv, [Next]_vars
  PROVE  LockInv'
<1>1. CASE UNCHANGED vars
  BY <1>1 DEF vars, LockInv, SamePR, OwnsPending
<1>2. CASE Repository
  BY <1>2, RepositoryQuiet DEF GateInv, LockInv, SamePR, OwnsPending
<1>3. ASSUME NEW r \in Runs, RunStep(r) \/ Outage(r) \/ RerunAll(r) \/ RerunFailed(r)
      PROVE  LockInv'
  <2>1. /\ TypeOK /\ RunsOK /\ Respects(r) /\ \A s \in Runs \ {r} : Frame(s)
        /\ status' = status \/ ResolvePost(r) \/ FinishPost(r)
    BY <1>3, RunStepOK, StepRespects DEF GateInv, StepOK
  <2>2. ASSUME NEW x \in Runs, NEW y \in Runs, x # y, pc'[x] \in Holding, pc'[y] \in Holding
        PROVE  ~SamePR(x, y)'
    <3>1. CASE x # r /\ y # r
      BY <2>1, <2>2, <3>1 DEF LockInv, Frame, SamePR
    <3>2. CASE x = r
      <4>1. pc[y] \in Holding /\ pc[y] # "unused"
        BY <2>1, <2>2, <3>2 DEF Frame
      <4> QED BY <2>1, <2>2, <3>2, <4>1 DEF LockInv, Respects, Rivals, SamePR
    <3>3. CASE y = r
      <4>1. pc[x] \in Holding /\ pc[x] # "unused"
        BY <2>1, <2>2, <3>3 DEF Frame
      <4> QED BY <2>1, <2>2, <3>3, <4>1 DEF LockInv, Respects, Rivals, SamePR
    <3> QED BY <3>1, <3>2, <3>3
  <2>3. ASSUME NEW x \in Runs, pc'[x] = "finishPost"
        PROVE  OwnsPending(x)'
    <3>1. CASE x = r
      BY <2>1, <2>3, <3>1 DEF Respects, OwnsPending
    <3>2. CASE x # r
      <4>1. pc[x] = "finishPost" /\ ctx'[x] = ctx[x] /\ OwnsPending(x)
        BY <2>1, <2>3, <3>2 DEF Frame, LockInv
      <4>2. CASE status' = status
        BY <4>1, <4>2 DEF OwnsPending
      <4>3. CASE ResolvePost(r) \/ FinishPost(r)
        <5>1. pc[r] \in {"resolvePost", "finishPost"}
          BY <4>3 DEF ResolvePost, FinishPost
        <5>2. ~SamePR(x, r)
          BY <3>2, <4>1, <5>1 DEF LockInv
        <5>3. ctx[x].head # ctx[r].head
          BY <2>1, <4>1, <5>1, <5>2, SameHeadSamePR
        <5>4. status'[ctx[x].head] = status[ctx[x].head]
          <6>1. PICK state : Post(r, state)
            BY <4>3 DEF ResolvePost, FinishPost
          <6>2. ctx[x].head \in Heads
            BY <2>1, <4>1, GateAssumption DEF RunsOK, OutputsOK, Trigger
          <6> QED BY <2>1, <5>3, <6>1, <6>2 DEF Post, TypeOK
        <5> QED BY <4>1, <5>4 DEF OwnsPending
      <4> QED BY <2>1, <4>2, <4>3
    <3> QED BY <3>1, <3>2
  <2> QED BY <2>2, <2>3 DEF LockInv
<1> QED BY <1>1, <1>2, <1>3 DEF Next

\* When no commit is shared between pull requests, the lock excludes concurrent
\* resolve and publish jobs and keeps a publisher's pending status in place.
THEOREM LockInvariant ==
  ASSUME DisjointHeads PROVE Spec => [](GateInv /\ LockInv)
<1>1. Init => LockInv
  BY DEF Init, LockInv
<1>2. GateInv /\ LockInv /\ [Next]_vars => (GateInv /\ LockInv)'
  BY NextOK, LockOK
<1> QED BY <1>1, <1>2, InitOK, PTL DEF Spec

\* Under the same condition no verdict ever overwrites what a later run announced
\* or decided (gate_status.py:106-113).
THEOREM VerdictsReplaceOwnPending ==
  ASSUME DisjointHeads PROVE Spec => ReplacesOwnPending
<1> DEFINE Replaces ==
      \A h \in Heads : status'[h] # status[h] /\ Verdict(h)' =>
        status[h].state = "pending" /\ status[h].run = status'[h].run
<1>1. GateInv /\ LockInv /\ [Next]_vars => [Replaces]_vars
  <2> SUFFICES ASSUME GateInv, LockInv, Next PROVE Replaces
    BY DEF vars
  <2>1. CASE Repository
    BY <2>1, RepositoryQuiet DEF GateInv
  <2>2. ASSUME NEW r \in Runs, RunStep(r) \/ Outage(r) \/ RerunAll(r) \/ RerunFailed(r)
        PROVE  Replaces
    <3>1. TypeOK /\ RunsOK /\ (status' = status \/ ResolvePost(r) \/ FinishPost(r))
      BY <2>2, RunStepOK DEF GateInv
    <3>2. CASE ResolvePost(r)
      <4>1. RunOK(r) /\ pc[r] = "resolvePost" /\ Post(r, "pending")
        BY <3>1, <3>2 DEF ResolvePost, RunsOK, RunOK
      <4>2. ctx[r].head \in Heads
        BY <3>1, <4>1, PostShape
      <4>3. \A h \in Heads : h # ctx[r].head => status'[h] = status[h]
        BY <3>1, <4>1 DEF Post, TypeOK
      <4>4. status'[ctx[r].head].state = "pending"
        BY <3>1, <4>1, <4>2 DEF Post, TypeOK
      <4> QED BY <4>3, <4>4 DEF Verdict
    <3>3. CASE FinishPost(r)
      <4>1. RunOK(r) /\ pc[r] = "finishPost" /\ OwnsPending(r)
        BY <3>1, <3>3 DEF FinishPost, RunsOK, RunOK, LockInv
      <4>2. PICK state \in {"success", "failure"} : Post(r, state)
        BY <3>3 DEF FinishPost
      <4>3. ctx[r].head \in Heads
        BY <3>1, <4>1, <4>2, PostShape
      <4>4. \A h \in Heads : h # ctx[r].head => status'[h] = status[h]
        BY <3>1, <4>2 DEF Post, TypeOK
      <4>5. status'[ctx[r].head].run = r
        BY <3>1, <4>2, <4>3 DEF Post, TypeOK
      <4> QED BY <4>1, <4>4, <4>5 DEF OwnsPending
    <3> QED BY <3>1, <3>2, <3>3
  <2> QED BY <2>1, <2>2 DEF Next
<1>2. Spec => [](GateInv /\ LockInv)
  BY LockInvariant
<1> QED BY <1>1, <1>2, PTL DEF Spec, ReplacesOwnPending

-----------------------------------------------------------------------------
(***************************************************************************)
(* A publish job whose identity has moved.                                  *)
(***************************************************************************)

\* How r comes to each step of its publish job: only past the check before it.
\* Once triggered it stays so.
Checked(r) ==
  /\ pc[r] # "unused" => pc'[r] # "unused"
  /\ pc'[r] = "finishBranch" => pc[r] = "finishBranch" \/ (pc[r] = "finishPull" /\ SamePull(r))
  /\ pc'[r] = "finishStatus" => pc[r] = "finishStatus" \/ (pc[r] = "finishBranch" /\ SameTarget(r))
  /\ pc'[r] = "finishPost" => pc[r] \in {"finishStatus", "finishPost"}

LEMMA GotoUnchecked ==
  ASSUME TypeOK, NEW r \in Runs, NEW phase, Goto(r, phase),
         phase \notin {"unused", "finishBranch", "finishStatus", "finishPost"}
  PROVE  Checked(r)
BY DEF TypeOK, Goto, Checked

LEMMA JoinedUnchecked ==
  ASSUME TypeOK, NEW r \in Runs,
         \/ pc' = Joined(r, "resolveWait", "resolvePull")
         \/ pc' = Joined(r, "publishWait", "finishPull")
  PROVE  Checked(r)
BY DEF TypeOK, Joined, Checked

LEMMA StepChecked ==
  ASSUME TypeOK, NEW r \in Runs,
         RunStep(r) \/ Outage(r) \/ RerunAll(r) \/ RerunFailed(r)
  PROVE  Checked(r)
<1>1. CASE Enqueue(r)
  BY <1>1 DEF Enqueue, TypeOK, Checked
<1>2. CASE Start(r)
  BY <1>2, GotoUnchecked, JoinedUnchecked DEF Start, Goto
<1>3. CASE Acquire(r)
  BY <1>3 DEF Acquire, TypeOK, Checked
<1>4. CASE ResolvePull(r) \/ ResolveBranch(r) \/ ResolvePost(r) \/ ResolveEmit(r) \/ ListFiles(r)
  BY <1>4, GotoUnchecked DEF ResolvePull, ResolveBranch, ResolvePost, ResolveEmit, ListFiles
<1>5. ASSUME NEW answer, AfterPlan(r, answer) PROVE Checked(r)
  BY <1>5, GotoUnchecked, JoinedUnchecked DEF AfterPlan
<1>6. ASSUME NEW result, AfterVerify(r, result) PROVE Checked(r)
  BY <1>6, JoinedUnchecked DEF AfterVerify
<1>7. CASE PlanRead(r) \/ VerifyRead(r)
  BY <1>5, <1>6, <1>7, GotoUnchecked DEF PlanRead, VerifyRead, Read
<1>8. CASE PlanRecheck(r) \/ VerifyRecheck(r)
  BY <1>5, <1>6, <1>8 DEF PlanRecheck, VerifyRecheck
<1>9. CASE FinishPull(r) \/ FinishBranch(r) \/ FinishStatus(r) \/ FinishPost(r)
  BY <1>9 DEF FinishPull, FinishBranch, FinishStatus, FinishPost, Goto, TypeOK, Checked
<1>10. ASSUME NEW result, JobEnds(r, result) PROVE Checked(r)
  BY <1>5, <1>6, <1>10, GotoUnchecked DEF JobEnds
<1>11. CASE Cancelled(r) \/ Outage(r)
  BY <1>10, <1>11, GotoUnchecked DEF Cancelled, Outage
<1>12. CASE RerunAll(r) \/ RerunFailed(r)
  BY <1>12, GotoUnchecked DEF RerunAll, RerunFailed, Again
<1> QED BY <1>1, <1>2, <1>3, <1>4, <1>7, <1>8, <1>9, <1>11, <1>12 DEF RunStep

\* Nobody but r takes r past a check.
LEMMA NextChecked ==
  ASSUME GateInv, [Next]_vars, NEW r \in Runs
  PROVE  Checked(r)
<1>1. CASE UNCHANGED vars
  BY <1>1 DEF vars, Checked
<1>2. CASE Repository
  BY <1>2, RepositoryQuiet DEF GateInv, Checked
<1>3. ASSUME NEW s \in Runs, RunStep(s) \/ Outage(s) \/ RerunAll(s) \/ RerunFailed(s)
      PROVE  Checked(r)
  <2>1. CASE s = r
    BY <1>3, <2>1, StepChecked DEF GateInv
  <2>2. CASE s # r
    <3>1. Frame(r)
      BY <1>3, <2>2, RunStepOK DEF GateInv, StepOK
    <3> QED BY <3>1 DEF Frame, Checked
  <2> QED BY <2>1, <2>2
<1> QED BY <1>1, <1>2, <1>3 DEF Next

\* A run whose pull request, or whose target, has moved for good when its publish
\* job starts never comes to post a verdict (gate_status.py:95-105).
THEOREM StaleNever == Spec => StaleNeverPosts
<1>1. ASSUME NEW r \in Runs
      PROVE  Spec => [](pc[r] = "finishPull" /\ ([]PullMoved(r) \/ []TargetMoved(r))
                          => [](pc[r] # "finishPost"))
  <2> DEFINE BeforeBranch == pc[r] \notin {"finishBranch", "finishStatus", "finishPost"}
             BeforeStatus == pc[r] \notin {"finishStatus", "finishPost"}
  <2>1. GateInv /\ [Next]_vars /\ PullMoved(r) /\ BeforeBranch => BeforeBranch'
    BY NextChecked DEF PullMoved, SamePull, Checked
  <2>2. GateInv /\ [Next]_vars /\ TargetMoved(r) /\ BeforeStatus => BeforeStatus'
    BY NextChecked DEF TargetMoved, SameTarget, Checked
  <2>3. /\ pc[r] = "finishPull" => BeforeBranch /\ BeforeStatus
        /\ BeforeBranch => pc[r] # "finishPost"
        /\ BeforeStatus => pc[r] # "finishPost"
    OBVIOUS
  <2> HIDE DEF BeforeBranch, BeforeStatus
  <2> QED BY <2>1, <2>2, <2>3, GateInvariant, PTL DEF Spec
<1> QED BY <1>1 DEF StaleNeverPosts

-----------------------------------------------------------------------------
(***************************************************************************)
(* The lock when pull requests share a commit.                              *)
(***************************************************************************)

\* The status on r's head is its own pending one, or another pull request's.
Undisturbed(r) ==
  LET s == status[ctx[r].head] IN
  \/ OwnsPending(r)
  \/ s.run \in Runs /\ pc[s.run] # "unused" /\ ~SamePR(s.run, r)

SharedLockInv ==
  /\ \A r, s \in Runs : r # s /\ pc[r] \in Holding /\ pc[s] \in Holding => ~SamePR(r, s)
  /\ \A r \in Runs : pc[r] = "finishPost" => Undisturbed(r)

LEMMA UndisturbedStays ==
  ASSUME NEW r \in Runs, Undisturbed(r), pc[r] # "unused",
         ctx'[r] = ctx[r], status'[ctx[r].head] = status[ctx[r].head],
         \A s \in Runs : pc[s] # "unused" => pc'[s] # "unused" /\ trigger'[s] = trigger[s]
  PROVE  Undisturbed(r)'
BY DEF Undisturbed, OwnsPending, SamePR

LEMMA SharedLockOK ==
  ASSUME GateInv, SharedLockInv, [Next]_vars
  PROVE  SharedLockInv'
<1>1. \A s \in Runs : pc[s] # "unused" => pc'[s] # "unused"
  BY NextChecked DEF Checked
<1>2. CASE UNCHANGED vars
  BY <1>2 DEF vars, SharedLockInv, SamePR, Undisturbed, OwnsPending
<1>3. CASE Repository
  <2>1. /\ status' = status /\ ctx' = ctx
        /\ \A s \in Runs : \/ pc'[s] = pc[s] /\ (pc[s] # "unused" => trigger'[s] = trigger[s])
                           \/ pc'[s] = "triggered"
    BY <1>3, RepositoryQuiet DEF GateInv
  <2>2. \A s \in Runs : pc[s] # "unused" => trigger'[s] = trigger[s]
    <3>1. ASSUME NEW p \in PRs, PullMove(p), NEW s \in Runs, pc[s] # "unused"
          PROVE  trigger'[s] = trigger[s]
      BY <3>1 DEF PullMove, Open, Ready, Push, Retarget, Close, ManualDispatch, ResumeDispatch,
                  PullRequestEvent, Dispatch, GateInv, TypeOK
    <3>2. ASSUME NEW b \in Branches, BranchMove(b) PROVE trigger' = trigger
      BY <3>2 DEF BranchMove, Advance, Protect
    <3> QED BY <1>3, <3>1, <3>2 DEF Repository
  <2>3. ASSUME NEW r \in Runs, pc'[r] = "finishPost" PROVE Undisturbed(r)'
    BY <1>1, <2>1, <2>2, <2>3, UndisturbedStays DEF SharedLockInv
  <2>4. ASSUME NEW x \in Runs, NEW y \in Runs, x # y, pc'[x] \in Holding, pc'[y] \in Holding
        PROVE  ~SamePR(x, y)'
    BY <2>1, <2>2, <2>4 DEF SharedLockInv, SamePR
  <2> QED BY <2>3, <2>4 DEF SharedLockInv
<1>4. ASSUME NEW r \in Runs, RunStep(r) \/ Outage(r) \/ RerunAll(r) \/ RerunFailed(r)
      PROVE  SharedLockInv'
  <2>1. /\ TypeOK /\ RunsOK /\ Respects(r) /\ \A s \in Runs \ {r} : Frame(s)
        /\ status' = status \/ ResolvePost(r) \/ FinishPost(r)
        /\ trigger' = trigger
    BY <1>4, RunStepOK, StepRespects DEF GateInv, StepOK, Respects
  <2>2. ASSUME NEW x \in Runs, NEW y \in Runs, x # y, pc'[x] \in Holding, pc'[y] \in Holding
        PROVE  ~SamePR(x, y)'
    <3>1. CASE x # r /\ y # r
      BY <2>1, <2>2, <3>1 DEF SharedLockInv, Frame, SamePR
    <3>2. CASE x = r
      <4>1. pc[y] \in Holding /\ pc[y] # "unused"
        BY <2>1, <2>2, <3>2 DEF Frame
      <4> QED BY <2>1, <2>2, <3>2, <4>1 DEF SharedLockInv, Respects, Rivals, SamePR
    <3>3. CASE y = r
      <4>1. pc[x] \in Holding /\ pc[x] # "unused"
        BY <2>1, <2>2, <3>3 DEF Frame
      <4> QED BY <2>1, <2>2, <3>3, <4>1 DEF SharedLockInv, Respects, Rivals, SamePR
    <3> QED BY <3>1, <3>2, <3>3
  <2>3. ASSUME NEW x \in Runs, pc'[x] = "finishPost"
        PROVE  Undisturbed(x)'
    <3>1. CASE x = r
      BY <2>1, <2>3, <3>1 DEF Respects, OwnsPending, Undisturbed
    <3>2. CASE x # r
      <4>1. pc[x] = "finishPost" /\ ctx'[x] = ctx[x] /\ Undisturbed(x)
        BY <2>1, <2>3, <3>2 DEF Frame, SharedLockInv
      <4>2. CASE status'[ctx[x].head] = status[ctx[x].head]
        BY <1>1, <2>1, <4>1, <4>2, UndisturbedStays
      <4>3. CASE status'[ctx[x].head] # status[ctx[x].head]
        <5>1. ResolvePost(r) \/ FinishPost(r)
          BY <2>1, <4>3
        <5>2. PICK state : Post(r, state)
          BY <5>1 DEF ResolvePost, FinishPost
        <5>3. pc[r] \in {"resolvePost", "finishPost"} /\ ~SamePR(r, x)
          BY <3>2, <4>1, <5>1 DEF ResolvePost, FinishPost, SharedLockInv
        <5>4. ctx[x].head \in Heads
          BY <2>1, <4>1, GateAssumption DEF RunsOK, OutputsOK, Trigger
        <5>5. status'[ctx[x].head].run = r
          BY <2>1, <4>3, <5>2, <5>4 DEF Post, TypeOK
        <5> QED BY <1>1, <2>1, <4>1, <5>3, <5>5 DEF Undisturbed, SamePR
      <4> QED BY <4>2, <4>3
    <3> QED BY <3>1, <3>2
  <2> QED BY <2>2, <2>3 DEF SharedLockInv
<1> QED BY <1>2, <1>3, <1>4 DEF Next

\* Whatever commits pull requests share: resolve and publish jobs of one pull request
\* exclude each other, and before a verdict is posted its run's pending status has at
\* most been replaced by a run of another pull request.
THEOREM SharedLockInvariant == Spec => [](GateInv /\ SharedLockInv)
<1>1. Init => SharedLockInv
  BY DEF Init, SharedLockInv
<1>2. GateInv /\ SharedLockInv /\ [Next]_vars => (GateInv /\ SharedLockInv)'
  BY NextOK, SharedLockOK
<1> QED BY <1>1, <1>2, InitOK, PTL DEF Spec

\* A verdict never overwrites what another run of its own pull request announced or
\* decided, also when pull requests share commits (gate_status.py:106-120,
\* lean-verification.yml: the lean-status group).
THEOREM VerdictsSpareOwnPull ==
  Spec => [][\A h \in Heads : status'[h] # status[h] /\ Verdict(h)' =>
               LET old == status[h]  r == status'[h].run IN
               \/ old.state = "pending" /\ old.run = r
               \/ old.run \in Runs /\ ~SamePR(old.run, r)]_vars
<1> DEFINE Spares ==
      \A h \in Heads : status'[h] # status[h] /\ Verdict(h)' =>
        LET old == status[h]  r == status'[h].run IN
        \/ old.state = "pending" /\ old.run = r
        \/ old.run \in Runs /\ ~SamePR(old.run, r)
<1>1. GateInv /\ SharedLockInv /\ [Next]_vars => [Spares]_vars
  <2> SUFFICES ASSUME GateInv, SharedLockInv, Next,
                      NEW h \in Heads, status'[h] # status[h], Verdict(h)'
               PROVE  LET old == status[h]  r == status'[h].run IN
                      \/ old.state = "pending" /\ old.run = r
                      \/ old.run \in Runs /\ ~SamePR(old.run, r)
    BY DEF vars
  <2>1. ~Repository
    BY RepositoryQuiet DEF GateInv
  <2>2. PICK r \in Runs : RunStep(r) \/ Outage(r) \/ RerunAll(r) \/ RerunFailed(r)
    BY <2>1 DEF Next
  <2>3. TypeOK /\ RunsOK /\ RunOK(r) /\ (ResolvePost(r) \/ FinishPost(r))
    BY <2>2, RunStepOK DEF GateInv, RunsOK, RunOK
  <2>4. PICK state \in {"pending", "success", "failure"} :
          Post(r, state) /\ (ResolvePost(r) => state = "pending")
    <3>1. CASE ResolvePost(r)
      BY <3>1 DEF ResolvePost
    <3>2. CASE FinishPost(r) /\ ~ResolvePost(r)
      BY <3>2 DEF FinishPost
    <3> QED BY <2>3, <3>1, <3>2
  <2>5. pc[r] \in Resolved
    BY <2>3 DEF ResolvePost, FinishPost
  <2>6. /\ ctx[r].head = h
        /\ status'[h] = [state |-> state, run |-> r, ref |-> ctx[r].ref,
                         base |-> ctx[r].base, basis |-> basis[r]]
    <3>1. /\ ctx[r].head \in Heads
          /\ status' = [status EXCEPT ![ctx[r].head] =
               [state |-> state, run |-> r, ref |-> ctx[r].ref,
                base |-> ctx[r].base, basis |-> basis[r]]]
      BY <2>3, <2>4, <2>5, PostShape
    <3> QED BY <2>3, <3>1 DEF TypeOK
  <2>7. FinishPost(r) /\ Undisturbed(r)
    BY <2>3, <2>4, <2>6 DEF Verdict, FinishPost, SharedLockInv
  <2> QED BY <2>6, <2>7 DEF Undisturbed, OwnsPending
<1> QED BY <1>1, SharedLockInvariant, PTL DEF Spec
=============================================================================
