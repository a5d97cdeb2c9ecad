------------------------- MODULE ExecutorSupervisor -------------------------
(***************************************************************************)
(* ExecutorSupervisor of packages/qvac-executor/src/supervisor.ts: the     *)
(* parent-side state machine that listens to one executor child, bounds it *)
(* with timers, ends its process group and turns what it saw into the      *)
(* events of a runner.                                                     *)
(*                                                                         *)
(* The module leaves its environment open: any message may arrive at any   *)
(* time, the root may exit in any way, any armed timer may fire, and the   *)
(* final sweep may or may not find survivors.  ExecutorRun closes it with  *)
(* the real child, the process group and the caller.                       *)
(***************************************************************************)
EXTENDS ReportContract

CONSTANT MaxEvents              \* limits.maxEvents

ASSUME MaxEventsAssumption == MaxEvents \in Nat

(***************************************************************************)
(* A message is what parseChildEvent makes of it.  "invalid" stands for    *)
(* everything it rejects, and for a message that is too large or cannot be *)
(* serialised.                                                             *)
(***************************************************************************)
PhaseMessage(p, s, n) == [type |-> "phase", phase |-> p, state |-> s, sequence |-> n]
BackendMessage(b, n) == [type |-> "backend", backend |-> b, sequence |-> n]
InvalidMessage == [type |-> "invalid"]

Message ==
  [type : {"phase"}, phase : Phase, state : {"started", "succeeded", "failed"},
   sequence : 0 .. MaxEvents]
    \cup [type : {"backend"}, backend : Backend, sequence : 0 .. MaxEvents]
    \cup {InvalidMessage}

(* How a root ends: a code or a signal.  SIGHUP stands for the signals a   *)
(* report does not name.                                                   *)
ExitBy(code, signal) == [code |-> code, signal |-> signal]
NoExit == ExitBy(NoCode, NoSignal)              \* finalize(null, null)
RootExit == {ExitBy(0, NoSignal), ExitBy(1, NoSignal)}
              \cup {ExitBy(NoCode, s) : s \in {"SIGSEGV", "SIGTERM", "SIGKILL", "SIGHUP"}}

VARIABLES
  attached,             \* #child is set
  expectedPhase,        \* LIFECYCLE_PHASES[#expectedPhaseIndex]
  openPhase,            \* #openPhase
  phases,               \* #phases
  firstFailure,         \* #firstFailure
  backend,              \* #backend
  nextSequence,         \* #nextSequence, equal to #eventCount until a failure
  lifecycleTerminal,    \* #lifecycleTerminal
  override,             \* #override with #timeoutPhase, #timeoutAfterFailure, #protocolPhase
  terminating,          \* #terminating
  abortRequested,       \* #abortRequested
  disposed,             \* #disposed
  timers,               \* the timers that are armed
  signalled,            \* the strongest signal sent to the process group
  stage,                \* "open", then the steps of #finalize
  exit,                 \* the arguments of #finalize
  completion,           \* the state of the promise wait() returns
  verdict               \* the events it resolves with

lifecycle == <<expectedPhase, openPhase, phases, firstFailure, backend,
               nextSequence, lifecycleTerminal>>
ending == <<stage, exit, completion, verdict>>
supervisorVars == <<attached, lifecycle, override, terminating, abortRequested,
                    disposed, timers, signalled, ending>>

NoOverride == [kind |-> "none", phase |-> None, afterFailure |-> FALSE]
NoVerdict == [phases |-> <<>>, backend |-> NoBackend,
              termination |-> TerminationEvent("unknown", NoCode, NoSignal, None),
              result |-> ResultEvent("unknown", FALSE, "unknown", None, "")]

SupervisorInit ==
  /\ attached = FALSE
  /\ expectedPhase = QvacImport
  /\ openPhase = None
  /\ phases = <<>>
  /\ firstFailure = None
  /\ backend = NoBackend
  /\ nextSequence = 0
  /\ lifecycleTerminal = FALSE
  /\ override = NoOverride
  /\ terminating = FALSE
  /\ abortRequested = FALSE
  /\ disposed = FALSE
  /\ timers = {}
  /\ signalled = "none"
  /\ stage = "open"
  /\ exit = NoExit
  /\ completion = "pending"
  /\ verdict = NoVerdict

Finalized == stage # "open"
CurrentPhase == IF openPhase # None THEN openPhase ELSE expectedPhase
AfterTerm == IF signalled = "KILL" THEN "KILL" ELSE "TERM"

(***************************************************************************)
(* #terminate, once: TERM to the group and the kill timer.  `armed' are    *)
(* the timers its caller leaves armed.                                     *)
(***************************************************************************)
Terminate_NoKillTimer(armed) ==         \* mutant: TERM, but no escalation
  IF terminating
    THEN timers' = armed /\ UNCHANGED <<terminating, signalled>>
    ELSE terminating' = TRUE /\ timers' = armed \ {"phase"} /\ signalled' = AfterTerm

Terminate(armed) ==
  IF terminating
    THEN timers' = armed /\ UNCHANGED <<terminating, signalled>>
    ELSE /\ terminating' = TRUE
         /\ timers' = (armed \ {"phase"}) \cup {"kill"}
         /\ signalled' = AfterTerm

Attach ==
  /\ ~attached /\ ~disposed /\ ~Finalized
  /\ attached' = TRUE
  /\ IF abortRequested THEN Terminate({"overall", "phase"})
     ELSE /\ timers' = {"overall", "phase"}
          /\ UNCHANGED <<terminating, signalled>>
  /\ UNCHANGED <<lifecycle, override, abortRequested, disposed, ending>>

Abort ==
  /\ ~Finalized /\ ~disposed
  /\ abortRequested' = TRUE
  /\ IF attached THEN Terminate(timers)
     ELSE UNCHANGED <<terminating, timers, signalled>>
  /\ UNCHANGED <<attached, lifecycle, override, disposed, ending>>

DisposeAfterLaunchFailure ==
  /\ ~attached
  /\ disposed' = TRUE
  /\ timers' = {}
  /\ UNCHANGED <<attached, lifecycle, override, terminating, abortRequested,
                 signalled, ending>>

(***************************************************************************)
(* #onMessage.  A message is ignored, rejected or accepted.                *)
(***************************************************************************)
Listening == attached /\ ~Finalized /\ ~disposed
Deaf == ~Listening \/ override.kind # "none"

Starts(m) == /\ m.type = "phase" /\ m.state = "started"
             /\ openPhase = None /\ m.phase = expectedPhase
Ends(m) == /\ m.type = "phase" /\ m.state # "started"
           /\ openPhase = m.phase /\ m.phase = expectedPhase
Observes(m) == m.type = "backend" /\ openPhase = Inference /\ backend = NoBackend

Acceptable(m) ==
  /\ ~lifecycleTerminal
  /\ nextSequence < MaxEvents
  /\ m.type # "invalid" /\ m.sequence = nextSequence
  /\ Starts(m) \/ Ends(m) \/ Observes(m)

IgnoreMessage == Deaf /\ UNCHANGED supervisorVars

(* #protocolFailure.  The counters are dead once the override is set. *)
RejectMessage(m) ==
  /\ ~Deaf /\ ~Acceptable(m)
  /\ override' = [kind |-> "protocol", phase |-> CurrentPhase, afterFailure |-> FALSE]
  /\ Terminate(timers)
  /\ UNCHANGED <<attached, lifecycle, abortRequested, disposed, ending>>

AcceptStart(m) ==
  /\ ~Deaf /\ Acceptable(m) /\ Starts(m)
  /\ openPhase' = m.phase
  /\ nextSequence' = nextSequence + 1
  /\ timers' = timers \cup {"phase"}
  /\ UNCHANGED <<attached, expectedPhase, phases, firstFailure, backend,
                 lifecycleTerminal, override, terminating, abortRequested,
                 disposed, signalled, ending>>

AcceptBackend(m) ==
  /\ ~Deaf /\ Acceptable(m) /\ Observes(m)
  /\ backend' = m.backend
  /\ nextSequence' = nextSequence + 1
  /\ UNCHANGED <<attached, expectedPhase, openPhase, phases, firstFailure,
                 lifecycleTerminal, override, terminating, abortRequested,
                 disposed, timers, signalled, ending>>

(* The first failure sends the expectation straight to clean-shutdown. *)
PhaseAfter_NoJump(m) ==                 \* mutant: a failure goes to the next phase
  IF m.phase = CleanShutdown THEN CleanShutdown ELSE expectedPhase + 1

PhaseAfter(m) ==
  IF m.state = "failed" /\ firstFailure = None THEN CleanShutdown
  ELSE IF m.phase = CleanShutdown THEN CleanShutdown ELSE expectedPhase + 1

FailureAfter_Last(m) ==                 \* mutant: the last failure wins
  IF m.state = "failed" THEN m.phase ELSE firstFailure

FailureAfter(m) ==
  IF m.state = "failed" /\ firstFailure = None THEN m.phase ELSE firstFailure

AcceptEnd(m) ==
  /\ ~Deaf /\ Acceptable(m) /\ Ends(m)
  /\ nextSequence' = nextSequence + 1
  /\ phases' = Append(phases, PhaseEvent(m.phase, IF m.state = "succeeded"
                                                     THEN "passed" ELSE "failed"))
  /\ openPhase' = None
  /\ firstFailure' = FailureAfter(m)
  /\ expectedPhase' = PhaseAfter(m)
  /\ lifecycleTerminal' = (m.phase = CleanShutdown)
  /\ timers' = IF m.phase = CleanShutdown THEN timers \ {"phase"}
               ELSE timers \cup {"phase"}
  /\ UNCHANGED <<attached, backend, override, terminating, abortRequested,
                 disposed, signalled, ending>>

OnMessage(m) ==
  \/ IgnoreMessage
  \/ RejectMessage(m)
  \/ AcceptStart(m)
  \/ AcceptBackend(m)
  \/ AcceptEnd(m)

(***************************************************************************)
(* The timers.  The phase and the overall timer share #timeout, which does *)
(* nothing once an override is set.                                        *)
(***************************************************************************)
Timeout(timer) ==
  /\ timer \in timers
  /\ IF override.kind # "none"
       THEN /\ timers' = timers \ {timer}
            /\ UNCHANGED <<override, terminating, signalled>>
       ELSE /\ override' = [kind |-> "timeout", phase |-> CurrentPhase,
                            afterFailure |-> firstFailure # None]
            /\ Terminate(timers \ {timer})
  /\ UNCHANGED <<attached, lifecycle, abortRequested, disposed, ending>>

PhaseTimer == Timeout("phase")
OverallTimer == Timeout("overall")

KillTimer ==
  /\ "kill" \in timers
  /\ timers' = (timers \ {"kill"}) \cup {"settle"}
  /\ signalled' = "KILL"
  /\ UNCHANGED <<attached, lifecycle, override, terminating, abortRequested,
                 disposed, ending>>

(***************************************************************************)
(* #finalize: stop every timer, TERM, a short delay, KILL, and a bounded   *)
(* wait for the group to be empty.                                         *)
(***************************************************************************)
Finalize(e) ==
  /\ attached /\ ~Finalized /\ ~disposed
  /\ stage' = "grace"
  /\ exit' = e
  /\ timers' = {}
  /\ signalled' = AfterTerm
  /\ UNCHANGED <<attached, lifecycle, override, terminating, abortRequested,
                 disposed, completion, verdict>>

OnExit(e) == Finalize(e)
SettleTimer == "settle" \in timers /\ Finalize(NoExit)

SweepKill ==
  /\ stage = "grace"
  /\ stage' = "sweeping"
  /\ signalled' = "KILL"
  /\ UNCHANGED <<attached, lifecycle, override, terminating, abortRequested,
                 disposed, timers, exit, completion, verdict>>

(***************************************************************************)
(* #ensureTerminalPhase: the phase under way at the end is recorded as     *)
(* failed, or as unknown when nothing shows that it failed.                *)
(***************************************************************************)
Recorded(p) == \E i \in DOMAIN phases : phases[i].name = p
CleanlyUnfinished ==
  exit.code = 0 /\ override.kind = "none" /\ ~lifecycleTerminal /\ firstFailure = None

EndingPhase == IF override.kind = "none" THEN CurrentPhase ELSE override.phase
EndingStatus ==
  IF Recorded(EndingPhase) THEN "recorded"
  ELSE IF override.kind = "protocol" \/ CleanlyUnfinished THEN "unknown"
  ELSE IF firstFailure = None THEN "failed" ELSE "omitted"

ClosedPhases ==
  IF EndingStatus \in {"failed", "unknown"}
    THEN Append(phases, PhaseEvent(EndingPhase, EndingStatus)) ELSE phases
ClosedFailure == IF EndingStatus = "failed" THEN EndingPhase ELSE firstFailure

(***************************************************************************)
(* #buildEvents.                                                           *)
(***************************************************************************)
LastCompletedPhase ==
  Cardinality({p \in Phase : \A q \in 1 .. p : StatusOf(ClosedPhases, q) = "passed"})

ReportedPhases_All == ClosedPhases      \* mutant: cleanup after a failure is reported

ReportedPhases ==
  IF ClosedFailure = None THEN ClosedPhases
  ELSE KeepAt(ClosedPhases, {i \in DOMAIN ClosedPhases : ClosedPhases[i].name <= ClosedFailure})

AllPassed_Completion ==                 \* mutant: a completion is enough
  /\ ClosedFailure = None
  /\ \E i \in DOMAIN ClosedPhases : ClosedPhases[i] = PhaseEvent(Inference, "passed")

AllPassed ==
  /\ ClosedFailure = None
  /\ \A p \in Phase : \E i \in DOMAIN ClosedPhases : ClosedPhases[i] = PhaseEvent(p, "passed")

NormalizedSignal(s) == IF s = "SIGHUP" THEN "UNKNOWN" ELSE s

Termination ==
  LET Ended(kind, code, signal) == TerminationEvent(kind, code, signal, LastCompletedPhase) IN
    CASE override.kind = "timeout" -> Ended("timeout", NoCode, NoSignal)
      [] override.kind = "protocol" \/ (override.kind = "none" /\ exit = NoExit) ->
           Ended("unknown", NoCode, NoSignal)
      [] override.kind = "none" /\ exit.signal # NoSignal ->
           Ended("signal", NoCode, NormalizedSignal(exit.signal))
      [] override.kind = "none" /\ exit.code = 0 -> Ended("clean-exit", 0, NoSignal)
      [] override.kind = "none" /\ exit.code > 0 -> Ended("exit-code", exit.code, NoSignal)

Inconclusive(p, code) == ResultEvent("unknown", FALSE, "unknown", p, code)
Failed(category, p, code) == ResultEvent("failed", FALSE, category, p, code)

TimeoutResult ==
  IF override.afterFailure THEN Inconclusive(ClosedFailure, "CLEANUP_TIMEOUT_AFTER_FAILURE")
  ELSE IF AllPassed THEN Inconclusive(CleanShutdown, "TIMEOUT_AFTER_LIFECYCLE")
  ELSE Failed("timeout", override.phase, "PHASE_TIMEOUT")

SignalResult ==
  LET p == IF ClosedFailure # None THEN ClosedFailure ELSE openPhase IN
    IF p = None THEN Inconclusive(CleanShutdown, "SIGNAL_AFTER_LIFECYCLE")
    ELSE Failed("worker-crash", p, "WORKER_SIGNAL")

ExitResult_AnyExit ==                   \* mutant: the exit is not looked at
  IF AllPassed THEN ResultEvent("passed", TRUE, "none", None, "")
  ELSE IF exit.signal # NoSignal THEN SignalResult
  ELSE Inconclusive(CurrentPhase, "RUNNER_EXIT_UNEXPECTED")

ExitResult_NoImportCase ==              \* mutant: a failed import that exits with 0
  IF AllPassed /\ exit.code = 0 THEN ResultEvent("passed", TRUE, "none", None, "")
  ELSE IF exit.signal # NoSignal THEN SignalResult
  ELSE IF ClosedFailure = None THEN Inconclusive(CurrentPhase, "RUNNER_EXIT_UNEXPECTED")
  ELSE Failed(IF ClosedFailure = QvacImport THEN "native-runtime" ELSE "workload-failed",
              ClosedFailure, "PHASE_FAILED")

ExitResult ==
  IF AllPassed /\ exit.code = 0 THEN ResultEvent("passed", TRUE, "none", None, "")
  ELSE IF exit.signal # NoSignal THEN SignalResult
  ELSE IF ClosedFailure = None \/ (exit.code = 0 /\ ClosedFailure = QvacImport)
    THEN Inconclusive(IF ClosedFailure = None THEN CurrentPhase ELSE ClosedFailure,
                      "RUNNER_EXIT_UNEXPECTED")
  ELSE Failed(IF ClosedFailure = QvacImport THEN "native-runtime" ELSE "workload-failed",
              ClosedFailure, "PHASE_FAILED")

Result ==
  CASE override.kind = "timeout" -> TimeoutResult
    [] override.kind = "protocol" -> Inconclusive(override.phase, "RUNNER_PROTOCOL_INVALID")
    [] override.kind = "none" -> ExitResult

Verdict ==
  [phases |-> ReportedPhases,
   backend |-> IF InferenceAttempted(ReportedPhases) THEN backend ELSE NoBackend,
   termination |-> Termination,
   result |-> Result]

(* The flat list that #buildEvents returns. *)
Events(v) ==
  v.phases \o (IF v.backend = NoBackend THEN <<>> ELSE <<BackendEvent(v.backend)>>)
           \o <<v.termination, v.result>>

(* The end of #finalize: the sweep found the group empty, or gave up. *)
SweepDone_Resolves(survivors) ==        \* mutant: survivors are not reported
  /\ stage = "sweeping"
  /\ stage' = "settled"
  /\ completion' = "resolved"
  /\ phases' = ClosedPhases
  /\ firstFailure' = ClosedFailure
  /\ verdict' = Verdict
  /\ UNCHANGED <<attached, expectedPhase, openPhase, backend, nextSequence,
                 lifecycleTerminal, override, terminating, abortRequested,
                 disposed, timers, signalled, exit>>

SweepDone(survivors) ==
  /\ stage = "sweeping"
  /\ stage' = "settled"
  /\ IF survivors
       THEN completion' = "rejected" /\ UNCHANGED <<verdict, phases, firstFailure>>
       ELSE /\ completion' = "resolved"
            /\ phases' = ClosedPhases
            /\ firstFailure' = ClosedFailure
            /\ verdict' = Verdict
  /\ UNCHANGED <<attached, expectedPhase, openPhase, backend, nextSequence,
                 lifecycleTerminal, override, terminating, abortRequested,
                 disposed, timers, signalled, exit>>

(***************************************************************************)
(* The supervisor in an open environment.                                  *)
(***************************************************************************)
Init == SupervisorInit

Next ==
  \/ Attach
  \/ Abort
  \/ DisposeAfterLaunchFailure
  \/ \E m \in Message : OnMessage(m)
  \/ \E e \in RootExit : OnExit(e)
  \/ PhaseTimer
  \/ OverallTimer
  \/ KillTimer
  \/ SettleTimer
  \/ SweepKill
  \/ \E survivors \in BOOLEAN : SweepDone(survivors)

(* Node runs an armed timer, and the bounded wait of the sweep, eventually. *)
(* Nothing is assumed of the child, nor of the phase timer, which a child   *)
(* can have cleared and armed again.                                        *)
Fairness ==
  /\ WF_supervisorVars(OverallTimer)
  /\ WF_supervisorVars(KillTimer)
  /\ WF_supervisorVars(SettleTimer)
  /\ WF_supervisorVars(SweepKill)
  /\ WF_supervisorVars(\E survivors \in BOOLEAN : SweepDone(survivors))

Spec == Init /\ [][Next]_supervisorVars
FairSpec == Spec /\ Fairness

(***************************************************************************)
(* Properties.                                                             *)
(***************************************************************************)
PhaseRecord == [type : {"phase"}, name : Phase, status : {"passed", "failed", "unknown"}]
Override == [kind : {"none", "timeout", "protocol"}, phase : Phase \cup {None},
             afterFailure : BOOLEAN]

(* The type of every variable of the supervisor. *)
TypeOK ==
  /\ attached \in BOOLEAN
  /\ expectedPhase \in Phase
  /\ openPhase \in Phase \cup {None}
  /\ phases \in Seq(PhaseRecord)
  /\ firstFailure \in Phase \cup {None}
  /\ backend \in Backend \cup {NoBackend}
  /\ nextSequence \in 0 .. MaxEvents
  /\ lifecycleTerminal \in BOOLEAN
  /\ override \in Override
  /\ terminating \in BOOLEAN
  /\ abortRequested \in BOOLEAN
  /\ disposed \in BOOLEAN
  /\ timers \subseteq {"overall", "phase", "kill", "settle"}
  /\ signalled \in {"none", "TERM", "KILL"}
  /\ stage \in {"open", "grace", "sweeping", "settled"}
  /\ exit \in RootExit \cup {NoExit}
  /\ completion \in {"pending", "rejected", "resolved"}

(* Whatever the child sends and however it ends, the events of a run that  *)
(* was not aborted pass the adapter's shape rules and the V1 contract: no  *)
(* combination of timeout, protocol failure, exit and recorded phases      *)
(* makes a report the validator would refuse (#ensureTerminalPhase and     *)
(* #buildEvents against evidence.js and validate.js).                      *)
ContractHonoured ==
  completion = "resolved" =>
    /\ WellShaped(Events(verdict))
    /\ ~abortRequested => Admitted(Adapt(Events(verdict)))

(* A passed verdict has consumed the whole grammar: ten phase messages and *)
(* the backend message if one is reported, no override and a root that     *)
(* exited with code 0.                                                     *)
PassIsEarned ==
  completion = "resolved" /\ verdict.result.workload_status = "passed" =>
    /\ nextSequence = 2 * CleanShutdown + (IF verdict.backend = NoBackend THEN 0 ELSE 1)
    /\ override.kind = "none" /\ exit = ExitBy(0, NoSignal)

(* The first failed phase is the one a report keeps: its record is there,  *)
(* nothing after it is, and the result names it unless the child broke the *)
(* protocol (#firstFailure and #reportedPhases).                           *)
FirstFailureReported ==
  completion = "resolved" /\ firstFailure # None =>
    /\ StatusOf(verdict.phases, firstFailure) = "failed"
    /\ \A p \in Phase : p > firstFailure => StatusOf(verdict.phases, p) = "absent"
    /\ override.kind # "protocol" => verdict.result.failure.phase = firstFailure

(* No later message, timer, abort or exit replaces the first failure or    *)
(* the override once it is set.                                            *)
FirstCauseStands ==
  [][/\ firstFailure # None => firstFailure' = firstFailure
     /\ override.kind # "none" => override' = override]_supervisorVars

(* Until #finalize, a supervised child is always under a timer that ends   *)
(* it: the overall deadline, or the escalation that #terminate started.    *)
WatchdogArmed ==
  Listening =>
    /\ timers \cap {"overall", "kill", "settle"} # {}
    /\ terminating => timers \cap {"kill", "settle"} # {}
    /\ override.kind # "none" => terminating

(* wait() settles: no stream of messages, no abort and no root that refuses *)
(* to exit keeps an attached supervisor pending.                            *)
Settles == attached ~> completion # "pending"
=============================================================================
