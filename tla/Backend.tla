------------------------------ MODULE Backend ------------------------------
(***************************************************************************)
(* The Lean backend (verifier/lean_backend.py): verify runs its stages one  *)
(* after the other, each in a container of its own that sandbox starts, reads *)
(* within limits of time and output, and removes.                           *)
(*                                                                          *)
(* The controller's loop, the docker client, the container and the clock    *)
(* take steps in any order.                                                 *)
(***************************************************************************)
EXTENDS Resources, Sequences

\* Each entry is an execution, or a preparation of sources without one.
Stages == <<"sandbox_probes", "environment_identity",
            "toolchain", "binaries", "system_packages", "trusted_targets",
            "challenge_source_preparation", "challenge_sandbox_probes", "challenge_clean_build_export",
            "solution_source_preparation", "solution_sandbox_probes", "solution_clean_build_export",
            "candidate_target_coverage", "statement_axioms_and_official_replay",
            "independent_nanoda_replay">>
Number == Len(Stages)
\* Stages whose output is examined, not only their exit code.
Parsed == {n \in 1..Number : Stages[n] \in {"environment_identity", "trusted_targets",
                                           "challenge_clean_build_export", "solution_clean_build_export"}}
Preparations == {n \in 1..Number : Stages[n] \in {"challenge_source_preparation", "solution_source_preparation"}}

Streams == {"stdout", "stderr"}

VARIABLES
  files,        \* number of files of the challenge and of the solution
  at,           \* stage verify is at
  phase,        \* where the controller is
  client,       \* the docker client process
  code,         \* its exit code, by class
  box,          \* the container
  sent, got,    \* output of each stream: produced, read
  todo,         \* streams the selector waits for
  content,      \* whether the output is what its examination asks for
  clock, until, \* time since the execution began, and when the wait for the exit ends
  error,        \* an exception is on its way
  result,       \* machine_status and failure_status, "none" before the end
  answer        \* history: what each stage really answered

execution == <<client, code, sent, got, todo, content, clock, until>>
bvars == <<files, at, phase, execution, box, error, result, answer>>

Zero == [s \in Streams |-> 0]
Closed == client \in {"closed", "exited"}
End(verdict) == phase' = "end" /\ result' = verdict

\* verify: its arguments, and the directory of the evidence is new.
Verify(challenge, solution) ==
  /\ phase = "idle"
  /\ files' = [challenge |-> challenge, solution |-> solution]
  /\ phase' = "enter"
  /\ UNCHANGED <<at, execution, box, error, result, answer>>

(***************************************************************************)
(* The sandbox.                                                             *)
(***************************************************************************)
Popen ==
  /\ phase = "enter" /\ at \notin Preparations
  /\ \/ client' = "starting" /\ todo' = Streams /\ phase' = "read" /\ UNCHANGED result
     \/ End("infrastructure_error") /\ UNCHANGED <<client, todo>>
  /\ UNCHANGED <<files, at, code, sent, got, content, clock, until, box, error, answer>>

Raise == error' = TRUE /\ phase' = "cleanup"
Loop == phase = "read" /\ todo # {}

\* Mutated form: the loop ends at the deadline, and the exit code is waited for.
DeadlineBreaks ==
  /\ Loop /\ clock >= Timeout
  /\ todo' = {}
  /\ UNCHANGED <<files, at, phase, client, code, sent, got, content, clock, until, box, error, result, answer>>
Deadline ==
  /\ Loop /\ clock >= Timeout
  /\ Raise
  /\ UNCHANGED <<files, at, execution, box, result, answer>>

Ready == {s \in todo : got[s] < sent[s] \/ Closed}

\* Every stream that select returns is read once; a read of nothing is its end.
Select ==
  LET ends == {s \in Ready : got[s] = sent[s]} IN
  /\ Loop /\ clock < Timeout /\ Ready # {}
  /\ got' = [s \in Streams |-> IF s \in Ready \ ends THEN got[s] + 1 ELSE got[s]]
  /\ todo' = todo \ ends
  /\ IF \E s \in Streams : got'[s] > Limit THEN Raise ELSE UNCHANGED <<phase, error>>
  /\ UNCHANGED <<files, at, client, code, sent, content, clock, until, box, result, answer>>

\* The wait for the exit gets what is left of the time, and at least one tick.
Drained ==
  /\ phase = "read" /\ todo = {}
  /\ phase' = "wait"
  /\ until' = IF clock < Timeout THEN Timeout ELSE clock + 1
  /\ UNCHANGED <<files, at, client, code, sent, got, todo, content, clock, box, error, result, answer>>

\* Mutated form: the wait has no timeout.
ExpiredNever == FALSE
Expired == clock >= until

Wait ==
  /\ phase = "wait"
  /\ \/ client = "exited" /\ phase' = "cleanup" /\ UNCHANGED error
     \/ client # "exited" /\ Expired /\ Raise
  /\ UNCHANGED <<files, at, execution, box, result, answer>>

\* finally: the client is killed if it still runs; the container is removed, or the
\* removal fails, which is ignored, or it takes too long, which is an exception.
Cleanup ==
  /\ phase = "cleanup"
  /\ client' = IF client = "exited" THEN "exited" ELSE "killed"
  /\ \/ box' = "none" /\ UNCHANGED error
     \/ UNCHANGED <<box, error>>
     \/ error' = TRUE /\ UNCHANGED box
  /\ phase' = "judge"
  /\ UNCHANGED <<files, at, code, sent, got, todo, content, clock, until, result, answer>>

(***************************************************************************)
(* execute and verify.                                                      *)
(***************************************************************************)
\* Mutated form: every exit code that is not zero is a failure.
StatusPlain(c) == "failed"
\* 125, 126, 127, 137 and signals are the runtime's, not the stage's.
Status(c) == IF c = "runtime" THEN "infrastructure_error" ELSE "failed"

Refused == at \in Parsed /\ content = "bad"

\* What the container really said: lost unless it ended and all it wrote was read.
Said == IF client # "exited" \/ code = "runtime" \/ got # sent THEN "open"
        ELSE IF code = "reject" \/ Refused THEN "rejected" ELSE "accepted"

\* Mutated form: the second kernel is not waited for.
AdvanceEarly ==
  IF at >= Number - 1 THEN End("passed") /\ UNCHANGED at
  ELSE at' = at + 1 /\ phase' = "enter" /\ UNCHANGED result
Advance ==
  IF at = Number THEN End("passed") /\ UNCHANGED at
  ELSE at' = at + 1 /\ phase' = "enter" /\ UNCHANGED result

Judge ==
  /\ phase = "judge"
  /\ \/ error /\ End("infrastructure_error") /\ UNCHANGED <<at, answer>>
     \/ ~error /\ code # "ok" /\ End(Status(code)) /\ UNCHANGED at
        /\ answer' = [answer EXCEPT ![at] = Said]
     \/ ~error /\ code = "ok" /\ Refused /\ End("failed") /\ UNCHANGED at
        /\ answer' = [answer EXCEPT ![at] = Said]
     \/ ~error /\ code = "ok" /\ ~Refused /\ Advance
        /\ answer' = [answer EXCEPT ![at] = Said]
  /\ client' = "none" /\ code' = "none" /\ sent' = Zero /\ got' = Zero /\ todo' = {}
  /\ content' = "good" /\ clock' = 0 /\ until' = 0 /\ error' = FALSE
  /\ UNCHANGED <<files, box>>

\* copy_sources counts what it is given.
Fits == (IF Stages[at] = "challenge_source_preparation" THEN files.challenge ELSE files.solution) <= MaxFiles
Prepare ==
  /\ phase = "enter" /\ at \in Preparations
  /\ \/ Fits /\ Advance /\ answer' = [answer EXCEPT ![at] = "accepted"]
     \/ ~Fits /\ End("failed") /\ UNCHANGED at /\ answer' = [answer EXCEPT ![at] = "rejected"]
     \/ End("infrastructure_error") /\ UNCHANGED <<at, answer>>
  /\ UNCHANGED <<files, execution, box, error>>

(***************************************************************************)
(* The docker client, the container and the clock.                          *)
(***************************************************************************)
World == UNCHANGED <<files, at, phase, got, todo, until, error, result, answer>>

Create ==
  /\ client = "starting"
  /\ client' = "running" /\ box' = "running"
  /\ UNCHANGED <<code, sent, content, clock>> /\ World

Emit(s) ==
  /\ client = "running" /\ box = "running" /\ sent[s] <= Limit
  /\ sent' = [sent EXCEPT ![s] = @ + 1]
  /\ UNCHANGED <<client, code, content, clock, box>> /\ World

\* The container ends and is removed (--rm); the client passes its exit code on.
Finish(c, good) ==
  /\ client = "running" /\ box = "running"
  /\ good # "bad" \/ at \in Parsed
  /\ box' = "none" /\ client' = "closed" /\ code' = c /\ content' = good
  /\ UNCHANGED <<sent, clock>> /\ World

\* The client fails on its own; the container, if it was started, runs on.
Break ==
  /\ client \in {"starting", "running"}
  /\ client' = "closed" /\ code' = "runtime"
  /\ UNCHANGED <<sent, content, clock, box>> /\ World

\* The client's process ends after its streams.
Exit ==
  /\ client = "closed" /\ phase \in {"read", "wait"}
  /\ client' = "exited"
  /\ UNCHANGED <<code, sent, content, clock, box>> /\ World

Tick ==
  /\ \/ phase = "read" /\ clock < Timeout
     \/ phase = "wait" /\ clock < until
  /\ clock' = clock + 1
  /\ UNCHANGED <<client, code, sent, content, box>> /\ World
-----------------------------------------------------------------------------
BInit ==
  /\ files = [challenge |-> 0, solution |-> 0]
  /\ at = 1 /\ phase = "idle"
  /\ client = "none" /\ code = "none" /\ box = "none"
  /\ sent = Zero /\ got = Zero /\ todo = {}
  /\ content = "good" /\ clock = 0 /\ until = 0
  /\ error = FALSE /\ result = "none"
  /\ answer = [n \in 1..Number |-> "open"]

Controller ==
  \/ Popen \/ Deadline \/ Select \/ Drained \/ Wait \/ Cleanup \/ Judge \/ Prepare

Environment ==
  \/ Create \/ Break \/ Exit
  \/ \E s \in Streams : Emit(s)
  \/ \E c \in {"ok", "reject", "runtime"}, good \in {"good", "bad"} : Finish(c, good)
-----------------------------------------------------------------------------
BTypeOK ==
  /\ files \in [challenge : Nat, solution : Nat]
  /\ at \in 1..Number
  /\ phase \in {"idle", "enter", "read", "wait", "cleanup", "judge", "end"}
  /\ client \in {"none", "starting", "running", "closed", "exited", "killed"}
  /\ code \in {"none", "ok", "reject", "runtime"}
  /\ box \in {"none", "running"}
  /\ sent \in [Streams -> 0..(Limit + 1)] /\ got \in [Streams -> 0..(Limit + 1)]
  /\ \A s \in Streams : got[s] <= sent[s]
  /\ todo \subseteq Streams /\ content \in {"good", "bad"}
  /\ clock \in 0..(Timeout + 1) /\ until \in 0..(Timeout + 1)
  /\ error \in BOOLEAN
  /\ result \in {"none", "passed", "failed", "infrastructure_error"}
  /\ answer \in [1..Number -> {"open", "accepted", "rejected"}]

\* The backend implements its verdict: the stages are answered in order, a pass needs
\* every answer, whole and from a container that ended by itself in time, and a
\* failure a rejection; a truncated or late output never decides (lean_backend.py:56-71,
\* 130-152, 213-217; docs/design.md:106).
V == INSTANCE Verdict WITH Last <- Number
Judges == V!Spec

\* A container is left behind only by an infrastructure error: never beside the next
\* stage, nor after a verdict on the proof (lean_backend.py:72-80).
Alone == (phase = "enter" \/ result \in {"passed", "failed"}) => box = "none"
=============================================================================
