----------------------------- MODULE ExecutorRun -----------------------------
(***************************************************************************)
(* One execution of the workload, with every process that takes part:      *)
(*   - the coordinator and the executor in the parent (real-coordinator.ts *)
(*     runWorkload, executor.ts, launch.ts of the resolver),               *)
(*   - the supervisor (module ExecutorSupervisor),                         *)
(*   - the executor child (child-runner.ts, parent-disconnect.ts),         *)
(*   - the process group of the child, with one worker that the SDK        *)
(*     starts, and the IPC channel from the child to the parent,           *)
(*   - a caller who may abort, and a parent that may be lost.              *)
(***************************************************************************)
EXTENDS ExecutorSupervisor

CONSTANTS
  MaxInFlight,          \* messages the channel holds; a bound of the model
  DrainFirst,           \* TRUE: 'exit' is seen after every message sent
  CrashExits,           \* how native code may end the root in mid-phase
  SdkBackends           \* the devices the SDK may report

ASSUME MaxInFlightAssumption == MaxInFlight \in Nat \ {0}
ASSUME DrainFirstAssumption == DrainFirst \in BOOLEAN
ASSUME CrashExitsAssumption == CrashExits \subseteq RootExit
ASSUME SdkBackendsAssumption == SdkBackends \subseteq Backend

VARIABLES
  \* the parent
  parentAlive, signalAborted, grant, executorPc, tempCwd, raw, outcome,
  \* the process group
  root, rootExit, worker, channel,
  \* the child
  childPc, activePhase, childSequence, sdk, workloadFailed, armed, succeeded

callerVars == <<parentAlive, signalAborted>>
executorVars == <<grant, executorPc, tempCwd, raw, outcome>>
groupVars == <<root, rootExit, worker>>
childVars == <<childPc, activePhase, childSequence, sdk, workloadFailed, armed, succeeded>>
vars == <<supervisorVars, callerVars, executorVars, groupVars, channel, childVars>>

RunInit ==
  /\ SupervisorInit
  /\ parentAlive = TRUE
  /\ signalAborted = FALSE
  /\ grant \in {"issued", "consumed"}
  /\ executorPc = "idle"
  /\ tempCwd = "none"
  /\ raw = "none"
  /\ outcome = "pending"
  /\ root = "none"
  /\ rootExit = NoExit
  /\ worker = FALSE
  /\ channel = <<>>
  /\ childPc = "none"
  /\ activePhase = QvacImport
  /\ childSequence = 0
  /\ sdk = FALSE
  /\ workloadFailed = FALSE
  /\ armed = "no"
  /\ succeeded = {}

(* A root that exited is a member of its group until the parent reaps it. *)
GroupEmpty == root \notin {"running", "exited"} /\ ~worker
Connected == parentAlive /\ childPc # "exiting"

(***************************************************************************)
(* The executor: execute() and launchResolvedSdkChild().                   *)
(***************************************************************************)
ExecutorAt(pc) == parentAlive /\ executorPc = pc

(* The finally block: the temporary cwd goes, the abort listener with it. *)
Return(r) ==
  /\ executorPc' = "returned"
  /\ raw' = r
  /\ tempCwd' = IF tempCwd = "present" THEN "removed" ELSE tempCwd

Execute ==
  /\ ExecutorAt("idle")
  /\ IF signalAborted \/ grant = "consumed"
       THEN /\ Return("not-started")
            /\ grant' = IF signalAborted THEN grant ELSE "consumed"
       ELSE /\ grant' = "consumed"
            /\ executorPc' = "tempdir"
            /\ UNCHANGED <<raw, tempCwd>>
  /\ UNCHANGED <<supervisorVars, callerVars, outcome, groupVars, channel, childVars>>

MakeTempCwd ==
  /\ ExecutorAt("tempdir")
  /\ \/ ~signalAborted /\ executorPc' = "launching" /\ tempCwd' = "present" /\ UNCHANGED raw
     \/ signalAborted /\ Return("not-started")
     \/ Return("error")                                 \* mkdtemp rejects
  /\ UNCHANGED <<supervisorVars, callerVars, grant, outcome, groupVars, channel, childVars>>

(* Nothing was spawned: the abort, the runner or the cwd was refused, or   *)
(* fork gave no pid.                                                       *)
LaunchFails ==
  /\ ExecutorAt("launching")
  /\ DisposeAfterLaunchFailure
  /\ Return("not-started")
  /\ UNCHANGED <<callerVars, grant, outcome, groupVars, channel, childVars>>

Fork ==
  /\ ExecutorAt("launching") /\ ~signalAborted
  /\ Attach
  /\ root' = "running"
  /\ childPc' = "boot"
  /\ executorPc' = "sdk-send"
  /\ UNCHANGED <<callerVars, grant, tempCwd, raw, outcome, rootExit, worker, channel,
                 activePhase, childSequence, sdk, workloadFailed, armed, succeeded>>

(* Each bootstrap send may fail, and the abort is looked at around it. *)
SendBootstrap(pc, next) ==
  /\ ExecutorAt(pc)
  /\ \/ ~signalAborted /\ executorPc' = next /\ UNCHANGED <<signalled>>
     \/ executorPc' = "bootstrap-failed" /\ signalled' = AfterTerm
  /\ UNCHANGED <<attached, lifecycle, override, terminating, abortRequested,
                 disposed, timers, ending, callerVars, grant, tempCwd, raw,
                 outcome, groupVars, channel, childVars>>

SendSdk == SendBootstrap("sdk-send", "artifact-send")
SendArtifact == SendBootstrap("artifact-send", "supervised")

(* terminateFailedBootstrap after the grace: KILL, then a bounded wait for *)
(* the root unless it was already reaped.                                  *)
BootstrapKill ==
  /\ ExecutorAt("bootstrap-failed")
  /\ signalled' = "KILL"
  /\ executorPc' = "bootstrap-killed"
  /\ UNCHANGED <<attached, lifecycle, override, terminating, abortRequested,
                 disposed, timers, ending, callerVars, grant, tempCwd, raw,
                 outcome, groupVars, channel, childVars>>

(* The catch of execute(): abort the attached supervisor and await it. *)
Abandon ==
  /\ ExecutorAt("bootstrap-killed")
  /\ IF Finalized THEN UNCHANGED supervisorVars ELSE Abort
  /\ executorPc' = "abandoned"
  /\ UNCHANGED <<callerVars, grant, tempCwd, raw, outcome, groupVars, channel, childVars>>

AwaitSupervised_NotWhenAbandoned ==     \* mutant: a failed launch returns at once
  /\ parentAlive /\ executorPc \in {"supervised", "abandoned"}
  /\ executorPc = "supervised" => completion # "pending"
  /\ Return(IF completion = "rejected" THEN "cleanup-failed"
            ELSE IF executorPc = "supervised" THEN "events" ELSE "not-started")
  /\ UNCHANGED <<supervisorVars, callerVars, grant, outcome, groupVars, channel, childVars>>

AwaitSupervised ==
  /\ parentAlive /\ executorPc \in {"supervised", "abandoned"}
  /\ completion # "pending"
  /\ Return(IF completion = "rejected" THEN "cleanup-failed"
            ELSE IF executorPc = "supervised" THEN "events" ELSE "not-started")
  /\ UNCHANGED <<supervisorVars, callerVars, grant, outcome, groupVars, channel, childVars>>

(* The coordinator's use of what execute() gave: an abort discards it. *)
Decision_IgnoresAbort ==                \* mutant: no check of the signal afterwards
  IF raw = "cleanup-failed" THEN "preflight-failed"
  ELSE IF raw = "events" THEN "executed" ELSE "preflight-failed"

Decision ==
  IF raw = "cleanup-failed" THEN "preflight-failed"
  ELSE IF signalAborted THEN "aborted"
  ELSE IF raw = "events" THEN "executed" ELSE "preflight-failed"

Decide ==
  /\ ExecutorAt("returned") /\ outcome = "pending"
  /\ outcome' = Decision
  /\ UNCHANGED <<supervisorVars, callerVars, grant, executorPc, tempCwd, raw,
                 groupVars, channel, childVars>>

(***************************************************************************)
(* The caller aborts, at any time; the listener of execute() forwards it.  *)
(***************************************************************************)
CallerAborts ==
  /\ parentAlive /\ ~signalAborted
  /\ signalAborted' = TRUE
  /\ IF executorPc \in {"idle", "returned"} \/ Finalized \/ disposed
       THEN UNCHANGED supervisorVars ELSE Abort
  /\ UNCHANGED <<parentAlive, executorVars, groupVars, channel, childVars>>

ParentDies ==
  /\ parentAlive
  /\ parentAlive' = FALSE
  /\ armed' = IF armed = "listening" THEN "disconnected" ELSE armed
  /\ UNCHANGED <<supervisorVars, signalAborted, executorVars, groupVars, channel,
                 childPc, activePhase, childSequence, sdk, workloadFailed, succeeded>>

(***************************************************************************)
(* The events the parent's loop delivers to the supervisor.                *)
(***************************************************************************)
Deliver ==
  /\ parentAlive /\ channel # <<>>
  /\ OnMessage(Head(channel))
  /\ channel' = Tail(channel)
  /\ UNCHANGED <<callerVars, executorVars, groupVars, childVars>>

Reap ==
  /\ parentAlive /\ root = "exited"
  /\ DrainFirst => channel = <<>>
  /\ root' = "reaped"
  /\ IF Finalized THEN UNCHANGED supervisorVars ELSE OnExit(rootExit)
  /\ UNCHANGED <<callerVars, executorVars, rootExit, worker, channel, childVars>>

(* A step of the supervisor alone. *)
SupervisorStep(step) ==
  /\ parentAlive
  /\ step
  /\ UNCHANGED <<callerVars, executorVars, groupVars, channel, childVars>>

Sweep == SupervisorStep(SweepKill \/ SweepDone(~GroupEmpty))

(***************************************************************************)
(* The child.  A group that was sent SIGKILL runs no more of its own code. *)
(***************************************************************************)
ChildAt(pc) == root = "running" /\ signalled # "KILL" /\ childPc = pc

(* emit(): nothing is sent, and no sequence number used, once IPC is gone. *)
Emit(messages) ==
  IF Connected
    THEN /\ Len(channel) < MaxInFlight
         /\ channel' = channel \o messages
         /\ childSequence' = childSequence + Len(messages)
    ELSE UNCHANGED <<channel, childSequence>>

KillGroup ==
  /\ root' = "exited"
  /\ rootExit' = ExitBy(NoCode, "SIGKILL")
  /\ worker' = FALSE

(* installParentDisconnectFailSafe: the listener first, then the check. *)
Arm_NoCheck ==                          \* mutant: no look at host.connected
  /\ ChildAt("boot")
  /\ childPc' = "enter"
  /\ armed' = "listening" /\ UNCHANGED groupVars
  /\ UNCHANGED <<supervisorVars, callerVars, executorVars, channel, activePhase,
                 childSequence, sdk, workloadFailed, succeeded>>

Arm ==
  /\ ChildAt("boot")
  /\ childPc' = "enter"
  /\ IF parentAlive THEN armed' = "listening" /\ UNCHANGED groupVars
     ELSE armed' = "disarmed" /\ KillGroup
  /\ UNCHANGED <<supervisorVars, callerVars, executorVars, channel, activePhase,
                 childSequence, sdk, workloadFailed, succeeded>>

FailSafe ==
  /\ root = "running" /\ signalled # "KILL" /\ armed = "disconnected"
  /\ armed' = "disarmed"
  /\ KillGroup
  /\ UNCHANGED <<supervisorVars, callerVars, executorVars, channel, childPc,
                 activePhase, childSequence, sdk, workloadFailed, succeeded>>

EnterPhase ==
  /\ ChildAt("enter")
  /\ Emit(<<PhaseMessage(activePhase, "started", childSequence)>>)
  /\ childPc' = "work"
  /\ UNCHANGED <<supervisorVars, callerVars, executorVars, groupVars, activePhase,
                 sdk, workloadFailed, armed, succeeded>>

(* stats.backendDevice of the final completion, when the SDK gives one. *)
ReportBackend ==
  /\ ChildAt("work") /\ activePhase = Inference
  /\ \E b \in SdkBackends : Emit(<<BackendMessage(b, childSequence)>>)
  /\ childPc' = "reported"
  /\ UNCHANGED <<supervisorVars, callerVars, executorVars, groupVars, activePhase,
                 sdk, workloadFailed, armed, succeeded>>

(* The import needs both bootstraps; every later phase needs the SDK. *)
PhaseSucceeds ==
  /\ ChildAt("work") \/ ChildAt("reported")
  /\ activePhase = QvacImport => executorPc \notin {"sdk-send", "artifact-send"}
  /\ Emit(<<PhaseMessage(activePhase, "succeeded", childSequence)>>)
  /\ succeeded' = succeeded \cup {activePhase}
  /\ sdk' = (sdk \/ activePhase = QvacImport)
  /\ IF activePhase = CleanShutdown
       THEN childPc' = "finish" /\ UNCHANGED activePhase
       ELSE childPc' = "enter" /\ activePhase' = activePhase + 1
  /\ UNCHANGED <<supervisorVars, callerVars, executorVars, groupVars, workloadFailed, armed>>

(* The catch of the lifecycle, which goes on to clean-shutdown.  The SDK   *)
(* may have been imported although the artifact bootstrap failed.          *)
PhaseFails ==
  /\ ChildAt("work") /\ activePhase # CleanShutdown
  /\ Emit(<<PhaseMessage(activePhase, "failed", childSequence)>>)
  /\ workloadFailed' = TRUE
  /\ sdk' \in IF activePhase = QvacImport /\ executorPc # "sdk-send" THEN BOOLEAN ELSE {sdk}
  /\ childPc' = "enter"
  /\ activePhase' = CleanShutdown
  /\ UNCHANGED <<supervisorVars, callerVars, executorVars, groupVars, armed, succeeded>>

(* unloadModel, close or the second verification of the artifact fails. *)
CleanupFails ==
  /\ ChildAt("work") /\ activePhase = CleanShutdown /\ sdk
  /\ Emit(<<PhaseMessage(CleanShutdown, "failed", childSequence)>>)
  /\ workloadFailed' = TRUE
  /\ childPc' = "finish"
  /\ UNCHANGED <<supervisorVars, callerVars, executorVars, groupVars, activePhase,
                 sdk, armed, succeeded>>

(* The last statements: disarm, disconnect, set the exit code. *)
Disconnect ==
  /\ ChildAt("finish")
  /\ armed' = "disarmed"
  /\ childPc' = "exiting"
  /\ UNCHANGED <<supervisorVars, callerVars, executorVars, groupVars, channel,
                 activePhase, childSequence, sdk, workloadFailed, succeeded>>

(***************************************************************************)
(* The operating system and the SDK's native code.                         *)
(***************************************************************************)
RootEnds(e) ==
  /\ root = "running"
  /\ root' = "exited"
  /\ rootExit' = e
  /\ UNCHANGED <<supervisorVars, callerVars, executorVars, worker, channel, childVars>>

(* The event loop is empty.  An SDK handle may keep it alive for ever. *)
ExitNormally ==
  ChildAt("exiting") /\ RootEnds(ExitBy(IF workloadFailed THEN 1 ELSE 0, NoSignal))

(* The SDK can end the process at any moment of a phase, even with code 0. *)
Crash ==
  /\ ChildAt("work") \/ ChildAt("reported")
  /\ \E e \in CrashExits : RootEnds(e)

RootTerminated == signalled = "TERM" /\ RootEnds(ExitBy(NoCode, "SIGTERM"))
RootKilled == signalled = "KILL" /\ RootEnds(ExitBy(NoCode, "SIGKILL"))

(* The SDK starts a worker that outlives the root unless it is signalled. *)
WorkerStarts ==
  /\ ChildAt("work") /\ activePhase \in {WorkerStart, ModelLoad}
  /\ ~worker /\ worker' = TRUE
  /\ UNCHANGED <<supervisorVars, callerVars, executorVars, root, rootExit, channel, childVars>>

WorkerDies ==
  /\ worker /\ worker' = FALSE
  /\ UNCHANGED <<supervisorVars, callerVars, executorVars, root, rootExit, channel, childVars>>

RunNext ==
  \/ Execute \/ MakeTempCwd \/ LaunchFails \/ Fork \/ SendSdk \/ SendArtifact
  \/ BootstrapKill \/ Abandon \/ AwaitSupervised \/ Decide
  \/ CallerAborts \/ ParentDies
  \/ Deliver \/ Reap \/ Sweep
  \/ SupervisorStep(PhaseTimer) \/ SupervisorStep(OverallTimer)
  \/ SupervisorStep(KillTimer) \/ SupervisorStep(SettleTimer)
  \/ Arm \/ FailSafe \/ EnterPhase \/ ReportBackend \/ PhaseSucceeds \/ PhaseFails
  \/ CleanupFails \/ Disconnect
  \/ ExitNormally \/ Crash \/ RootTerminated \/ RootKilled \/ WorkerStarts \/ WorkerDies

(* Only Node's own scheduling in the parent, and in the child the start of *)
(* the runner and the disconnect event, are taken to be fair: nothing is   *)
(* assumed of the SDK, of the operating system's kills or of the caller.   *)
RunFairness ==
  /\ WF_vars(MakeTempCwd) /\ WF_vars(Fork \/ LaunchFails)
  /\ WF_vars(SendSdk) /\ WF_vars(SendArtifact)
  /\ WF_vars(BootstrapKill) /\ WF_vars(Abandon)
  /\ WF_vars(AwaitSupervised) /\ WF_vars(Decide) /\ WF_vars(Sweep)
  /\ WF_vars(SupervisorStep(OverallTimer))
  /\ WF_vars(SupervisorStep(KillTimer)) /\ WF_vars(SupervisorStep(SettleTimer))
  /\ WF_vars(Arm) /\ WF_vars(FailSafe)

RunSpec == RunInit /\ [][RunNext]_vars
FairRunSpec == RunSpec /\ RunFairness

(* With an operating system that delivers every SIGKILL it accepted. *)
KillFairness ==
  /\ WF_vars(RootKilled)
  /\ WF_vars(signalled = "KILL" /\ WorkerDies)

KillingRunSpec == FairRunSpec /\ KillFairness

(***************************************************************************)
(* Properties.                                                             *)
(***************************************************************************)
(* The phases the child completed before the first one it did not. *)
CompletedPhases == Cardinality({p \in Phase : \A q \in 1 .. p : q \in succeeded})
Report == Adapt(Events(verdict))

(* The runner Atlas ships never trips the protocol check, in any of its    *)
(* failure paths and however late its messages are read: the supervisor's  *)
(* grammar and its budget of events admit every lifecycle of child-runner. *)
HonestRunnerAccepted == override.kind # "protocol"

(* What is reported, and later claimed in the catalog, did happen in the   *)
(* child: a workload that is reported as passed passed all five phases,    *)
(* with a root that left with code 0 on its own; and of such a run no      *)
(* observed failure is claimed, however its messages, its exit and an      *)
(* abort were ordered, unless it was too late for its deadline.            *)
Succeeded == succeeded = Phase /\ rootExit = ExitBy(0, NoSignal) /\ ~workloadFailed
ClaimIsReal ==
  outcome = "executed" =>
    /\ Report.result.workload_status = "passed" => Succeeded
    /\ ReportClaim(Report) = "observed-failure" =>
         ~Succeeded \/ Report.result.failure.category = "timeout"

(* Whatever the coordinator hands on as executed is evidence the V1        *)
(* contract admits: the verdicts of aborted runs, which it does not admit, *)
(* are discarded by the check after execute().                             *)
ExecutedIsAdmitted == outcome = "executed" => Admitted(Report)

(* The temporary cwd is removed from under no process. *)
CwdOutlivesChild == tempCwd = "removed" => GroupEmpty \/ completion = "rejected"

(* A defined failure never blames a phase the child had not reached; one   *)
(* that is not a timeout names the first phase the child did not complete, *)
(* if every message the child sent was read before its exit was seen.      *)
FailureNamesFrontier ==
  outcome = "executed" /\ Report.result.workload_status = "failed" =>
    LET p == Report.result.failure.phase IN
      /\ p <= CompletedPhases + 1
      /\ nextSequence = childSequence /\ Report.result.failure.category # "timeout" => p = CompletedPhases + 1

(* runWorkload() answers: no child, worker or message can keep it waiting. *)
Decides == executorPc # "idle" ~> outcome # "pending" \/ ~parentAlive

(* A runner that loses its parent does not outlive it, wherever it is: in  *)
(* an SDK call that never settles, or so early that the parent is gone     *)
(* before the fail-safe is there; at the latest it exits by itself once it *)
(* has disarmed.  On a system that delivers every SIGKILL it accepted.     *)
OrphanEnds ==
  KillFairness =>
    (~parentAlive /\ root = "running" ~> root # "running" \/ childPc = "exiting")

(* The run implements the contained run that the pipeline relies on. *)
Conclusion ==
  IF outcome = "pending" THEN "none"
  ELSE IF raw = "cleanup-failed" THEN "cleanup-failed"
  ELSE IF outcome = "executed" /\ Report.result.workload_status \in {"passed", "failed"}
    THEN Report.result.workload_status ELSE "inconclusive"

Contained == INSTANCE ContainedRun
  WITH LastPhase <- CleanShutdown, begun <- root # "none", members <- ~GroupEmpty,
       done <- CompletedPhases, conclusion <- Conclusion

ImplementsContainedRun == Contained!Spec

(* docs/architecture/qvac-executor.md: "Unexpected supervisor loss sends   *)
(* SIGKILL to the complete detached POSIX process group so the QVAC/Bare   *)
(* descendants cannot continue without their owner."                       *)
DescendantsEndWithOwner == ~parentAlive ~> ~worker
=============================================================================
