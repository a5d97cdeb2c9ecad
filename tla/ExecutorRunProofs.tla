--------------------------- MODULE ExecutorRunProofs ---------------------------
(***************************************************************************)
(* Theorems about one execution with all its processes, for every budget   *)
(* of messages, every channel and everything native code may do.  They use *)
(* the invariant of the supervisor, which every step of a run preserves.   *)
(***************************************************************************)
EXTENDS ExecutorRun, ExecutorSupervisorProofs

(***************************************************************************)
(* What a run does to the supervisor: a step of its module, or a signal of *)
(* the bootstrap that the supervisor does not know of.                     *)
(***************************************************************************)
ChildMessage ==
  [type : {"phase"}, phase : Phase, state : {"started", "succeeded", "failed"}, sequence : Nat]
    \cup [type : {"backend"}, backend : Backend, sequence : Nat]

OnlySignalled ==
  /\ signalled' \in {"TERM", "KILL"}
  /\ UNCHANGED <<attached, lifecycle, override, terminating, abortRequested,
                 disposed, timers, ending>>

SupervisorMoves == [Next]_supervisorVars \/ OnlySignalled

(* A message beyond the budget is refused like one that is no message.     *)
LEMMA AnyMessage ==
  ASSUME TypeInv, NEW m \in ChildMessage, OnMessage(m)
  PROVE  \E n \in Message : OnMessage(n)
<1>1. InvalidMessage \in Message /\ ~Acceptable(InvalidMessage)
  BY DEF Message, Acceptable, InvalidMessage
<1>2. CASE IgnoreMessage
  BY <1>1, <1>2 DEF OnMessage
<1>3. CASE RejectMessage(m)
  BY <1>1, <1>3 DEF OnMessage, RejectMessage
<1>4. CASE AcceptStart(m) \/ AcceptBackend(m) \/ AcceptEnd(m)
  <2>1. m.sequence = nextSequence /\ nextSequence < MaxEvents /\ nextSequence \in Nat
    BY <1>4 DEF AcceptStart, AcceptBackend, AcceptEnd, Acceptable, TypeInv, TypeOK
  <2>2. m.sequence \in 0 .. MaxEvents
    BY <2>1, MaxEventsAssumption
  <2>3. m \in Message
    BY <2>2 DEF ChildMessage, Message
  <2> QED  BY <2>3
<1> QED  BY <1>2, <1>3, <1>4 DEF OnMessage

LEMMA SignalKeepsInv == ASSUME SupervisorInv, OnlySignalled PROVE SupervisorInv'
<1> USE DEF OnlySignalled, lifecycle, ending
<1>1. TypeInv'
  BY DEF SupervisorInv, TypeInv, TypeOK, OverridePhaseOK
<1>2. WatchInv'
  BY DEF SupervisorInv, WatchInv, TimersWhileListening, DisposedUnattached, FinalizedAttached,
         QuietUntilAttached, EscalationArmed, DeadlineArmed, OverrideTerminates, Listening, Finalized
<1>3. GrammarInv'
  BY DEF SupervisorInv, GrammarInv, Grammar, PhasesInOrder, PhasesCounted, MessagesCounted,
         OpenPhaseExpected
<1>4. PassInv' /\ VerdictInv'
  BY DEF SupervisorInv, PassInv, PassIsEarned, VerdictInv, ContractHonoured, FirstFailureReported
<1>5. FailureInv'
  BY DEF SupervisorInv, FailureInv, Broken, OpenPhaseExpected
<1>6. CauseInv'
  BY DEF SupervisorInv, CauseInv, CurrentPhase, Finalized
<1> QED  BY <1>1, <1>2, <1>3, <1>4, <1>5, <1>6 DEF SupervisorInv

LEMMA MovesKeepInv == ASSUME SupervisorInv, SupervisorMoves PROVE SupervisorInv'
  BY NextSupervisorInv, SignalKeepsInv DEF SupervisorMoves

LEMMA SettledMoves ==
  ASSUME SupervisorInv, SupervisorMoves, stage = "settled"
  PROVE  UNCHANGED <<attached, lifecycle, override, terminating, abortRequested,
                     disposed, timers, ending>>
  BY SettledStands DEF SupervisorInv, SupervisorMoves, OnlySignalled, supervisorVars

(* The types of a run, and that a root that ended ended somehow.           *)
RunTypeOK ==
  /\ parentAlive \in BOOLEAN /\ signalAborted \in BOOLEAN
  /\ grant \in {"issued", "consumed"}
  /\ executorPc \in {"idle", "tempdir", "launching", "sdk-send", "artifact-send", "supervised",
                     "bootstrap-failed", "bootstrap-killed", "abandoned", "returned"}
  /\ tempCwd \in {"none", "present", "removed"}
  /\ raw \in {"none", "not-started", "error", "cleanup-failed", "events"}
  /\ outcome \in {"pending", "aborted", "preflight-failed", "executed"}
  /\ root \in {"none", "running", "exited", "reaped"}
  /\ rootExit \in RootExit \cup {NoExit}
  /\ root \in {"exited", "reaped"} => rootExit \in RootExit
  /\ worker \in BOOLEAN
  /\ channel \in Seq(ChildMessage)
  /\ childPc \in {"none", "boot", "enter", "work", "reported", "finish", "exiting"}
  /\ activePhase \in Phase
  /\ childSequence \in Nat
  /\ sdk \in BOOLEAN /\ workloadFailed \in BOOLEAN
  /\ armed \in {"no", "listening", "disconnected", "disarmed"}
  /\ succeeded \subseteq Phase

LEMMA RunMovesSupervisor ==
  ASSUME TypeInv, RunTypeOK, [RunNext]_vars
  PROVE  SupervisorMoves
<1> USE DEF SupervisorMoves
<1>1. CASE Execute \/ MakeTempCwd \/ AwaitSupervised \/ Decide \/ ParentDies
  BY <1>1 DEF Execute, MakeTempCwd, AwaitSupervised, Decide, ParentDies
<1>2. CASE LaunchFails \/ Fork
  BY <1>2 DEF LaunchFails, Fork, Next
<1>3. CASE SendSdk \/ SendArtifact
  BY <1>3 DEF SendSdk, SendArtifact, SendBootstrap, AfterTerm, OnlySignalled, supervisorVars
<1>4. CASE BootstrapKill
  BY <1>4 DEF BootstrapKill, OnlySignalled
<1>5. CASE Abandon \/ CallerAborts
  BY <1>5 DEF Abandon, CallerAborts, Next
<1>6. CASE Deliver
  <2>1. Head(channel) \in ChildMessage /\ OnMessage(Head(channel))
    BY <1>6 DEF Deliver, RunTypeOK
  <2> QED  BY <2>1, AnyMessage DEF Next
<1>7. CASE Reap
  BY <1>7 DEF Reap, Next, RunTypeOK
<1>8. CASE Sweep
  <2>1. (~GroupEmpty) \in BOOLEAN
    BY DEF GroupEmpty
  <2> QED  BY <1>8, <2>1 DEF Sweep, SupervisorStep, Next
<1>9. CASE SupervisorStep(PhaseTimer) \/ SupervisorStep(OverallTimer)
             \/ SupervisorStep(KillTimer) \/ SupervisorStep(SettleTimer)
  BY <1>9 DEF SupervisorStep, Next
<1>10. CASE Arm \/ FailSafe \/ EnterPhase \/ ReportBackend \/ PhaseSucceeds \/ PhaseFails
              \/ CleanupFails \/ Disconnect
  BY <1>10 DEF Arm, FailSafe, EnterPhase, ReportBackend, PhaseSucceeds, PhaseFails, CleanupFails,
               Disconnect
<1>11. CASE ExitNormally \/ Crash \/ RootTerminated \/ RootKilled \/ WorkerStarts \/ WorkerDies
  BY <1>11 DEF ExitNormally, Crash, RootTerminated, RootKilled, RootEnds, WorkerStarts, WorkerDies
<1>12. CASE UNCHANGED vars
  BY <1>12 DEF vars
<1> QED  BY <1>1, <1>2, <1>3, <1>4, <1>5, <1>6, <1>7, <1>8, <1>9, <1>10, <1>11, <1>12 DEF RunNext

LEMMA InitRunType == RunInit => RunTypeOK
<1>1. QvacImport \in Phase /\ <<>> \in Seq(ChildMessage) /\ 0 \in Nat
  BY DEF Phase, QvacImport, CleanShutdown
<1> QED  BY <1>1 DEF RunInit, RunTypeOK

LEMMA EmitType ==
  ASSUME RunTypeOK, NEW m \in ChildMessage, Emit(<<m>>)
  PROVE  /\ channel' \in Seq(ChildMessage) /\ childSequence' \in Nat
         /\ Connected => channel' = Append(channel, m) /\ childSequence' = childSequence + 1
         /\ ~Connected => channel' = channel /\ childSequence' = childSequence
<1>1. Len(<<m>>) = 1 /\ channel \o <<m>> = Append(channel, m)
  BY DEF RunTypeOK
<1>2. channel \in Seq(ChildMessage) /\ childSequence \in Nat
  BY DEF RunTypeOK
<1>3. CASE Connected
  <2>1. channel' = Append(channel, m) /\ childSequence' = childSequence + 1
    BY <1>1, <1>3 DEF Emit
  <2>2. Append(channel, m) \in Seq(ChildMessage) /\ childSequence + 1 \in Nat
    BY <1>2
  <2> QED  BY <1>3, <2>1, <2>2
<1>4. CASE ~Connected
  BY <1>2, <1>4 DEF Emit
<1> QED  BY <1>3, <1>4

LEMMA SentMessage ==
  ASSUME RunTypeOK
  PROVE  /\ \A s \in {"started", "succeeded", "failed"} :
               PhaseMessage(activePhase, s, childSequence) \in ChildMessage
         /\ PhaseMessage(CleanShutdown, "failed", childSequence) \in ChildMessage
         /\ \A b \in SdkBackends : BackendMessage(b, childSequence) \in ChildMessage
  BY SdkBackendsAssumption
  DEF RunTypeOK, PhaseMessage, BackendMessage, ChildMessage, Phase, QvacImport, CleanShutdown

LEMMA NextRunType == RunTypeOK /\ [RunNext]_vars => RunTypeOK'
<1> SUFFICES ASSUME RunTypeOK, [RunNext]_vars PROVE RunTypeOK'
  OBVIOUS
<1> USE DEF RunTypeOK, vars, callerVars, executorVars, groupVars, childVars
<1>1. CASE Execute
  BY <1>1 DEF Execute, Return
<1>2. CASE MakeTempCwd
  BY <1>2 DEF MakeTempCwd, Return
<1>3. CASE LaunchFails
  BY <1>3 DEF LaunchFails, Return
<1>4. CASE Fork
  BY <1>4 DEF Fork
<1>5. CASE SendSdk \/ SendArtifact
  BY <1>5 DEF SendSdk, SendArtifact, SendBootstrap
<1>6. CASE BootstrapKill \/ Abandon
  BY <1>6 DEF BootstrapKill, Abandon
<1>7. CASE AwaitSupervised
  BY <1>7 DEF AwaitSupervised, Return
<1>8. CASE Decide
  BY <1>8 DEF Decide, Decision
<1>9. CASE CallerAborts \/ ParentDies
  BY <1>9 DEF CallerAborts, ParentDies
<1>10. CASE Deliver
  <2>1. channel' \in Seq(ChildMessage)
    BY <1>10 DEF Deliver
  <2> QED  BY <1>10, <2>1 DEF Deliver
<1>11. CASE Reap
  BY <1>11 DEF Reap
<1>12. CASE Sweep \/ SupervisorStep(PhaseTimer) \/ SupervisorStep(OverallTimer)
             \/ SupervisorStep(KillTimer) \/ SupervisorStep(SettleTimer)
  BY <1>12 DEF Sweep, SupervisorStep
<1>13. ExitBy(NoCode, "SIGKILL") \in RootExit /\ ExitBy(NoCode, "SIGTERM") \in RootExit
       /\ ExitBy(0, NoSignal) \in RootExit /\ ExitBy(1, NoSignal) \in RootExit
  BY DEF RootExit
<1>14. CASE Arm \/ FailSafe
  BY <1>13, <1>14 DEF Arm, FailSafe, KillGroup
<1>15. CASE EnterPhase
  BY <1>15, EmitType, SentMessage DEF EnterPhase
<1>16. CASE ReportBackend
  <2>1. PICK b \in SdkBackends : Emit(<<BackendMessage(b, childSequence)>>)
    BY <1>16 DEF ReportBackend
  <2>2. channel' \in Seq(ChildMessage) /\ childSequence' \in Nat
    BY <2>1, EmitType, SentMessage
  <2> QED  BY <1>16, <2>2 DEF ReportBackend
<1>17. CASE PhaseSucceeds
  <2>1. channel' \in Seq(ChildMessage) /\ childSequence' \in Nat
    BY <1>17, EmitType, SentMessage DEF PhaseSucceeds
  <2>2. activePhase' \in Phase /\ succeeded' \subseteq Phase /\ sdk' \in BOOLEAN
        /\ childPc' \in {"finish", "enter"}
    BY <1>17 DEF PhaseSucceeds, Phase, QvacImport, CleanShutdown
  <2> QED  BY <1>17, <2>1, <2>2 DEF PhaseSucceeds
<1>18. CASE PhaseFails
  <2>1. channel' \in Seq(ChildMessage) /\ childSequence' \in Nat
    BY <1>18, EmitType, SentMessage DEF PhaseFails
  <2>2. sdk' \in BOOLEAN
    BY <1>18 DEF PhaseFails
  <2>3. activePhase' \in Phase
    BY <1>18 DEF PhaseFails, Phase, QvacImport, CleanShutdown
  <2> QED  BY <1>18, <2>1, <2>2, <2>3 DEF PhaseFails
<1>19. CASE CleanupFails
  <2>1. channel' \in Seq(ChildMessage) /\ childSequence' \in Nat
    BY <1>19, EmitType, SentMessage DEF CleanupFails
  <2> QED  BY <1>19, <2>1 DEF CleanupFails
<1>20. CASE Disconnect
  BY <1>20 DEF Disconnect
<1>21. ASSUME NEW e \in RootExit, RootEnds(e) PROVE RunTypeOK'
  BY <1>21 DEF RootEnds
<1>22. CASE ExitNormally \/ Crash \/ RootTerminated \/ RootKilled
  BY <1>13, <1>21, <1>22, CrashExitsAssumption DEF ExitNormally, Crash, RootTerminated, RootKilled
<1>23. CASE WorkerStarts \/ WorkerDies
  BY <1>23 DEF WorkerStarts, WorkerDies
<1>24. CASE UNCHANGED vars
  BY <1>24
<1> QED
  BY <1>1, <1>2, <1>3, <1>4, <1>5, <1>6, <1>7, <1>8, <1>9, <1>10, <1>11, <1>12, <1>14, <1>15,
     <1>16, <1>17, <1>18, <1>19, <1>20, <1>22, <1>23, <1>24
  DEF RunNext

(***************************************************************************)
(* The process group, as far as the supervisor is about it.                *)
(***************************************************************************)
GroupInv ==
  /\ root = "none" <=> ~attached
  /\ root = "none" => ~worker /\ childPc = "none" /\ channel = <<>>
  /\ exit # NoExit => root = "reaped" /\ exit = rootExit /\ stage # "open"
  /\ completion = "resolved" => GroupEmpty
  /\ completion # "pending" => stage = "settled"

LEMMA MessageLeaves ==
  ASSUME NEW m, OnMessage(m)  PROVE UNCHANGED <<attached, abortRequested, disposed, ending>>
  BY DEF OnMessage, IgnoreMessage, RejectMessage, AcceptStart, AcceptBackend, AcceptEnd,
         supervisorVars

LEMMA TimerLeaves ==
  ASSUME PhaseTimer \/ OverallTimer \/ KillTimer
  PROVE  UNCHANGED <<attached, abortRequested, disposed, ending>>
  BY DEF PhaseTimer, OverallTimer, Timeout, KillTimer

LEMMA InitGroupInv == RunInit => GroupInv
  BY DEF RunInit, SupervisorInit, GroupInv, GroupEmpty, NoExit

LEMMA NextGroupInv ==
  SupervisorInv /\ RunTypeOK /\ GroupInv /\ [RunNext]_vars => GroupInv'
<1> SUFFICES ASSUME SupervisorInv, RunTypeOK, GroupInv, [RunNext]_vars PROVE GroupInv'
  OBVIOUS
<1> USE DEF GroupInv, GroupEmpty, callerVars, executorVars, groupVars, childVars, supervisorVars, ending
<1>1. CASE Execute \/ MakeTempCwd \/ AwaitSupervised \/ Decide \/ ParentDies
  BY <1>1 DEF Execute, MakeTempCwd, AwaitSupervised, Decide, ParentDies
<1>2. CASE LaunchFails
  BY <1>2 DEF LaunchFails, DisposeAfterLaunchFailure
<1>3. CASE Fork
  <2>1. stage = "open" /\ completion = "pending" /\ exit = NoExit
    BY <1>3 DEF Fork, Attach, Finalized
  <2> QED  BY <1>3, <2>1 DEF Fork, Attach
<1>4. CASE SendSdk \/ SendArtifact \/ BootstrapKill
  BY <1>4 DEF SendSdk, SendArtifact, SendBootstrap, BootstrapKill
<1>5. CASE Abandon \/ CallerAborts
  BY <1>5 DEF Abandon, CallerAborts, Abort
<1>6. CASE Deliver
  <2>1. UNCHANGED <<attached, ending, groupVars, childPc>> /\ channel # <<>>
    BY <1>6, MessageLeaves DEF Deliver
  <2> QED  BY <2>1
<1>7. CASE Reap
  <2>1. attached /\ root' = "reaped" /\ rootExit' = rootExit /\ UNCHANGED <<worker, attached, completion>>
    BY <1>7 DEF Reap, OnExit, Finalize
  <2>2. completion # "resolved" /\ (completion # "pending" => stage' = "settled")
    BY <1>7 DEF Reap, OnExit, Finalize, Finalized
  <2>3. exit' # NoExit => exit' = rootExit /\ stage' # "open"
    BY <1>7 DEF Reap, OnExit, Finalize
  <2> QED  BY <2>1, <2>2, <2>3
<1>8. CASE Sweep
  <2>1. UNCHANGED <<attached, exit, groupVars, channel, childPc>>
    BY <1>8 DEF Sweep, SupervisorStep, SweepKill, SweepDone
  <2>2. completion' # "pending" => stage' = "settled"
    BY <1>8 DEF Sweep, SupervisorStep, SweepKill, SweepDone
  <2>3. stage' # "open" /\ (completion' = "resolved" => GroupEmpty)
    BY <1>8 DEF Sweep, SupervisorStep, SweepKill, SweepDone
  <2> QED  BY <2>1, <2>2, <2>3
<1>9. CASE SupervisorStep(PhaseTimer) \/ SupervisorStep(OverallTimer) \/ SupervisorStep(KillTimer)
  <2>1. UNCHANGED <<attached, ending, groupVars, channel, childPc>>
    BY <1>9, TimerLeaves DEF SupervisorStep
  <2> QED  BY <2>1
<1>10. CASE SupervisorStep(SettleTimer)
  BY <1>10 DEF SupervisorStep, SettleTimer, Finalize, Finalized
<1>11. root = "running" => attached /\ completion # "resolved" /\ exit = NoExit
  OBVIOUS
<1>12. CASE Arm \/ FailSafe \/ EnterPhase \/ ReportBackend \/ PhaseSucceeds \/ PhaseFails
              \/ CleanupFails \/ Disconnect
  <2>1. UNCHANGED <<attached, ending>> /\ root = "running" /\ root' \in {"running", "exited"}
    BY <1>12 DEF Arm, FailSafe, EnterPhase, ReportBackend, PhaseSucceeds, PhaseFails, CleanupFails,
                 Disconnect, ChildAt, KillGroup
  <2> QED  BY <1>11, <2>1
<1>13. CASE ExitNormally \/ Crash \/ RootTerminated \/ RootKilled
  <2>1. UNCHANGED <<attached, ending>> /\ root = "running" /\ root' = "exited"
    BY <1>13 DEF ExitNormally, Crash, RootTerminated, RootKilled, RootEnds
  <2> QED  BY <1>11, <2>1
<1>14. CASE WorkerStarts \/ WorkerDies
  BY <1>11, <1>14 DEF WorkerStarts, WorkerDies, ChildAt
<1>15. CASE UNCHANGED vars
  BY <1>15 DEF vars
<1> QED
  BY <1>1, <1>2, <1>3, <1>4, <1>5, <1>6, <1>7, <1>8, <1>9, <1>10, <1>12, <1>13, <1>14, <1>15
  DEF RunNext

(***************************************************************************)
(* The executor: what it returns is what the supervisor settled with, and  *)
(* an abort that reached the supervisor reaches the decision.              *)
(***************************************************************************)
ExecutorInv ==
  /\ executorPc \in {"idle", "tempdir", "launching"} => ~attached /\ ~disposed
  /\ executorPc \notin {"idle", "tempdir", "launching", "returned"} => attached
  /\ raw = "none" <=> executorPc # "returned"
  /\ tempCwd = "removed" => executorPc = "returned"
  /\ outcome # "pending" => executorPc = "returned"
  /\ raw = "events" => completion = "resolved"
  /\ raw = "cleanup-failed" => completion = "rejected"
  /\ raw \in {"not-started", "error"} => ~attached \/ completion = "resolved"
  /\ abortRequested => signalAborted \/ executorPc = "abandoned"
                         \/ raw \in {"not-started", "cleanup-failed"}
  /\ outcome = "executed" => raw = "events" /\ ~abortRequested

LEMMA InitExecutorInv == RunInit => ExecutorInv
  BY DEF RunInit, SupervisorInit, ExecutorInv

LEMMA NextExecutorInv ==
  SupervisorInv /\ RunTypeOK /\ GroupInv /\ ExecutorInv /\ [RunNext]_vars => ExecutorInv'
<1> SUFFICES ASSUME SupervisorInv, RunTypeOK, GroupInv, ExecutorInv, [RunNext]_vars
             PROVE  ExecutorInv'
  OBVIOUS
<1> USE DEF ExecutorInv, callerVars, executorVars, supervisorVars, ending
<1>1. completion # "pending" => UNCHANGED <<attached, disposed, abortRequested, ending>>
  <2>1. SupervisorMoves
    BY RunMovesSupervisor DEF SupervisorInv
  <2> QED  BY <2>1, SettledMoves DEF GroupInv
<1>2. ~attached => completion = "pending"
  BY DEF GroupInv, SupervisorInv, WatchInv, FinalizedAttached, Finalized
<1>3. CASE Execute \/ MakeTempCwd
  BY <1>3 DEF Execute, MakeTempCwd, Return, ExecutorAt
<1>4. CASE LaunchFails
  BY <1>4 DEF LaunchFails, DisposeAfterLaunchFailure, Return, ExecutorAt
<1>5. CASE Fork
  BY <1>5 DEF Fork, Attach, ExecutorAt
<1>6. CASE SendSdk \/ SendArtifact \/ BootstrapKill
  BY <1>6 DEF SendSdk, SendArtifact, SendBootstrap, BootstrapKill, ExecutorAt
<1>7. CASE Abandon
  BY <1>7 DEF Abandon, Abort, ExecutorAt
<1>8. CASE AwaitSupervised
  BY <1>8 DEF AwaitSupervised, Return, RunTypeOK, SupervisorInv, TypeInv, TypeOK
<1>9. CASE Decide
  BY <1>9 DEF Decide, Decision, ExecutorAt
<1>10. CASE CallerAborts
  <2>1. UNCHANGED <<attached, disposed, ending, executorVars>> /\ signalAborted'
        /\ (completion # "pending" => UNCHANGED abortRequested)
    BY <1>1, <1>10 DEF CallerAborts, Abort
  <2> QED  BY <2>1
<1>11. CASE ParentDies
  BY <1>11 DEF ParentDies
<1>12. CASE Deliver
  <2>1. UNCHANGED <<attached, disposed, abortRequested, ending, executorVars, signalAborted>>
    BY <1>12, MessageLeaves DEF Deliver
  <2> QED  BY <2>1
<1>13. CASE Reap \/ Sweep \/ SupervisorStep(SettleTimer)
  <2>1. UNCHANGED <<attached, disposed, abortRequested, executorVars, signalAborted>>
    BY <1>13 DEF Reap, OnExit, Sweep, SupervisorStep, SettleTimer, Finalize, SweepKill, SweepDone
  <2> QED  BY <1>1, <2>1
<1>14. CASE SupervisorStep(PhaseTimer) \/ SupervisorStep(OverallTimer) \/ SupervisorStep(KillTimer)
  <2>1. UNCHANGED <<attached, disposed, abortRequested, ending, executorVars, signalAborted>>
    BY <1>14, TimerLeaves DEF SupervisorStep
  <2> QED  BY <2>1
<1>15. CASE Arm \/ FailSafe \/ EnterPhase \/ ReportBackend \/ PhaseSucceeds \/ PhaseFails
              \/ CleanupFails \/ Disconnect
  BY <1>15 DEF Arm, FailSafe, EnterPhase, ReportBackend, PhaseSucceeds, PhaseFails, CleanupFails,
               Disconnect
<1>16. CASE ExitNormally \/ Crash \/ RootTerminated \/ RootKilled \/ WorkerStarts \/ WorkerDies
  BY <1>16 DEF ExitNormally, Crash, RootTerminated, RootKilled, RootEnds, WorkerStarts, WorkerDies
<1>17. CASE UNCHANGED vars
  BY <1>17 DEF vars
<1> QED
  BY <1>3, <1>4, <1>5, <1>6, <1>7, <1>8, <1>9, <1>10, <1>11, <1>12, <1>13, <1>14, <1>15, <1>16, <1>17
  DEF RunNext

(***************************************************************************)
(* The child: the first phase it has not completed.                        *)
(***************************************************************************)
Over == childPc \in {"finish", "exiting"}
Beyond == CleanShutdown + 1
Frontier(p) ==
  /\ p \in Phase \cup {Beyond}
  /\ 1 .. p - 1 \subseteq succeeded
  /\ p \notin succeeded
ChildAtFrontier(p) ==
  /\ Frontier(p)
  /\ ~workloadFailed => /\ p = IF Over THEN Beyond ELSE activePhase
                        /\ succeeded \subseteq 1 .. p - 1
  /\ workloadFailed => p # Beyond
  /\ workloadFailed /\ ~Over => /\ activePhase = CleanShutdown /\ p # CleanShutdown
                                /\ CleanShutdown \notin succeeded
ChildInv == \E p \in Phase \cup {Beyond} : ChildAtFrontier(p)

LEMMA CountUpTo ==
  ASSUME NEW S, NEW p \in Phase \cup {Beyond}, 1 .. p - 1 \subseteq S, p \notin S
  PROVE  Cardinality({x \in Phase : \A q \in 1 .. x : q \in S}) = p - 1
<1>1. {x \in Phase : \A q \in 1 .. x : q \in S} = 1 .. p - 1
  BY DEF Phase, QvacImport, CleanShutdown, Beyond
<1>2. p - 1 \in Nat
  BY DEF Phase, QvacImport, CleanShutdown, Beyond
<1>3. Cardinality(1 .. p - 1) = p - 1
  BY <1>2, FS_Interval
<1> QED  BY <1>1, <1>3

LEMMA FrontierCounts ==
  ASSUME NEW p \in Phase \cup {Beyond}, Frontier(p)  PROVE CompletedPhases = p - 1
  BY CountUpTo DEF Frontier, CompletedPhases

LEMMA ActiveNotDone ==
  ASSUME RunTypeOK, ChildInv, ~Over  PROVE activePhase \notin succeeded
  BY DEF ChildInv, ChildAtFrontier, Frontier

LEMMA InitChildInv == RunInit => ChildInv
<1> SUFFICES ASSUME RunInit PROVE ChildAtFrontier(QvacImport)
  BY DEF ChildInv, Phase, QvacImport, CleanShutdown
<1> QED  BY DEF RunInit, ChildAtFrontier, Frontier, Over, Phase, QvacImport, CleanShutdown

LEMMA SuccessKeepsChild == ASSUME RunTypeOK, ChildInv, PhaseSucceeds PROVE ChildInv'
<1>1. ~Over /\ succeeded' = succeeded \cup {activePhase} /\ workloadFailed' = workloadFailed
  BY DEF PhaseSucceeds, Over, ChildAt
<1>2. PICK p \in Phase \cup {Beyond} : ChildAtFrontier(p)
  BY DEF ChildInv
<1>3. CASE activePhase = CleanShutdown
  <2>1. Over' /\ activePhase' = activePhase
    BY <1>3 DEF PhaseSucceeds, Over
  <2>2. CASE workloadFailed
    <3>1. ChildAtFrontier(p)'
      BY <1>1, <1>2, <1>3, <2>1, <2>2 DEF ChildAtFrontier, Frontier
    <3> QED  BY <3>1 DEF ChildInv
  <2>3. CASE ~workloadFailed
    <3>1. p = CleanShutdown
      BY <1>1, <1>2, <1>3, <2>3 DEF ChildAtFrontier
    <3>2. ChildAtFrontier(Beyond)'
      <4>1. Beyond \notin succeeded /\ Beyond # activePhase
        BY <1>3 DEF RunTypeOK, Phase, Beyond, CleanShutdown
      <4>2. 1 .. Beyond - 1 \subseteq succeeded'
        BY <1>1, <1>2, <1>3, <3>1 DEF ChildAtFrontier, Frontier, Beyond, CleanShutdown
      <4>3. succeeded' \subseteq 1 .. Beyond - 1
        BY <1>1, <1>3 DEF RunTypeOK, Phase, QvacImport, CleanShutdown, Beyond
      <4> QED  BY <1>1, <2>1, <2>3, <4>1, <4>2, <4>3 DEF ChildAtFrontier, Frontier
    <3> QED  BY <3>2 DEF ChildInv
  <2> QED  BY <2>2, <2>3
<1>4. CASE activePhase # CleanShutdown
  <2>1. ~Over' /\ activePhase' = activePhase + 1 /\ ~workloadFailed /\ p = activePhase
    BY <1>1, <1>2, <1>4 DEF PhaseSucceeds, Over, ChildAtFrontier
  <2>2. PICK n \in Phase : n = activePhase + 1 /\ n - 1 = activePhase /\ n # activePhase
    BY <1>4 DEF RunTypeOK, Phase, QvacImport, CleanShutdown
  <2>3. 1 .. n - 1 \subseteq succeeded'
    BY <1>1, <1>2, <2>1, <2>2 DEF ChildAtFrontier, Frontier, RunTypeOK, Phase, QvacImport, CleanShutdown
  <2>4. n \notin succeeded'
    <3>1. n \notin succeeded
      BY <1>2, <2>1, <2>2 DEF ChildAtFrontier, RunTypeOK, Phase, QvacImport, CleanShutdown
    <3> QED  BY <1>1, <2>2, <3>1
  <2>5. succeeded' \subseteq 1 .. n - 1
    BY <1>1, <1>2, <2>1, <2>2 DEF ChildAtFrontier, RunTypeOK, Phase, QvacImport, CleanShutdown
  <2>6. activePhase' = n
    BY <2>1, <2>2
  <2>7. ChildAtFrontier(n)'
    BY <1>1, <2>1, <2>2, <2>3, <2>4, <2>5, <2>6 DEF ChildAtFrontier, Frontier
  <2> QED  BY <2>2, <2>7 DEF ChildInv
<1> QED  BY <1>3, <1>4

LEMMA NextChildInv == SupervisorInv /\ RunTypeOK /\ GroupInv /\ ChildInv /\ [RunNext]_vars => ChildInv'
<1> SUFFICES ASSUME SupervisorInv, RunTypeOK, GroupInv, ChildInv, [RunNext]_vars PROVE ChildInv'
  OBVIOUS
<1>1. CASE PhaseSucceeds
  BY <1>1, SuccessKeepsChild
<1>2. PICK p \in Phase \cup {Beyond} : ChildAtFrontier(p)
  BY DEF ChildInv
<1> SUFFICES ASSUME ~PhaseSucceeds PROVE ChildAtFrontier(p)'
  BY <1>1 DEF ChildInv
<1> USE DEF ChildAtFrontier, Frontier, Over, childVars
<1>3. CASE UNCHANGED <<succeeded, workloadFailed, activePhase>> /\ Over' = Over
  BY <1>2, <1>3
<1>4. CASE Arm \/ FailSafe \/ EnterPhase \/ ReportBackend \/ Disconnect
  <2>1. UNCHANGED <<succeeded, workloadFailed, activePhase>> /\ Over' = Over
    BY <1>4 DEF Arm, FailSafe, EnterPhase, ReportBackend, Disconnect, ChildAt
  <2> QED  BY <1>3, <2>1
<1>5. CASE PhaseFails
  <2>1. /\ workloadFailed' /\ activePhase' = CleanShutdown /\ UNCHANGED succeeded
        /\ ~Over /\ ~Over' /\ activePhase # CleanShutdown /\ activePhase \in Phase
    BY <1>5 DEF PhaseFails, ChildAt, RunTypeOK
  <2>2. ~workloadFailed /\ p = activePhase /\ succeeded \subseteq 1 .. p - 1
    BY <1>2, <2>1
  <2>3. p # Beyond /\ CleanShutdown \notin succeeded
    BY <2>1, <2>2 DEF Phase, QvacImport, CleanShutdown, Beyond
  <2> QED  BY <1>2, <2>1, <2>2, <2>3
<1>6. CASE CleanupFails
  <2>1. activePhase = CleanShutdown /\ workloadFailed' /\ Over' /\ ~Over /\ UNCHANGED succeeded
    BY <1>6 DEF CleanupFails, ChildAt
  <2>2. p # Beyond
    BY <1>2, <2>1 DEF Beyond, CleanShutdown
  <2> QED  BY <1>2, <2>1, <2>2
<1>7. CASE Fork
  <2>1. UNCHANGED <<succeeded, workloadFailed, activePhase>> /\ childPc' = "boot"
    BY <1>7 DEF Fork
  <2>2. childPc = "none"
    BY <1>7 DEF Fork, Attach, GroupInv
  <2> QED  BY <1>3, <2>1, <2>2
<1>8. CASE UNCHANGED childVars
  BY <1>3, <1>8
<1>9. CASE ParentDies
  BY <1>3, <1>9 DEF ParentDies
<1>10. CASE Execute \/ MakeTempCwd \/ LaunchFails \/ SendSdk \/ SendArtifact \/ BootstrapKill
              \/ Abandon \/ AwaitSupervised \/ Decide \/ CallerAborts
  BY <1>8, <1>10 DEF Execute, MakeTempCwd, LaunchFails, SendSdk, SendArtifact, SendBootstrap,
                     BootstrapKill, Abandon, AwaitSupervised, Decide, CallerAborts
<1>11. CASE Deliver \/ Reap \/ Sweep \/ SupervisorStep(PhaseTimer) \/ SupervisorStep(OverallTimer)
             \/ SupervisorStep(KillTimer) \/ SupervisorStep(SettleTimer)
  BY <1>8, <1>11 DEF Deliver, Reap, Sweep, SupervisorStep
<1>12. CASE ExitNormally \/ Crash \/ RootTerminated \/ RootKilled \/ WorkerStarts \/ WorkerDies
  BY <1>8, <1>12 DEF ExitNormally, Crash, RootTerminated, RootKilled, RootEnds, WorkerStarts, WorkerDies
<1>13. CASE UNCHANGED vars
  BY <1>8, <1>13 DEF vars
<1> QED  BY <1>4, <1>5, <1>6, <1>7, <1>9, <1>10, <1>11, <1>12, <1>13 DEF RunNext

(***************************************************************************)
(* What the child says is so, and stays so: in the channel, and in what    *)
(* the supervisor has recorded of it.                                      *)
(***************************************************************************)
FailedReally(f) == workloadFailed /\ f \notin succeeded /\ (f = CleanShutdown => Over)
MessageTrue(m) ==
  m.type = "phase" => /\ m.state = "succeeded" => m.phase \in succeeded
                      /\ m.state = "failed" => FailedReally(m.phase)
TruthInv ==
  /\ \A p \in Phase : Told(p) => p \in succeeded
  /\ \A i \in 1 .. Len(channel) : MessageTrue(channel[i])
  /\ stage # "settled" /\ firstFailure # None => FailedReally(firstFailure)

LEMMA ChildFacts ==
  ASSUME RunTypeOK, GroupInv, ChildInv, [RunNext]_vars
  PROVE  /\ succeeded \subseteq succeeded' /\ (workloadFailed => workloadFailed')
         /\ \A f \in succeeded' \ succeeded : ~workloadFailed \/ (f = CleanShutdown /\ ~Over)
         /\ Over => Over'
<1> USE DEF Over, childVars
<1>1. CASE UNCHANGED <<succeeded, workloadFailed>> /\ (Over => Over')
  BY <1>1
<1>2. CASE PhaseSucceeds
  <2>1. ~Over /\ succeeded' = succeeded \cup {activePhase} /\ UNCHANGED workloadFailed
    BY <1>2 DEF PhaseSucceeds, ChildAt
  <2>2. workloadFailed => activePhase = CleanShutdown
    BY <2>1 DEF ChildInv, ChildAtFrontier
  <2> QED  BY <2>1, <2>2
<1>3. CASE PhaseFails \/ CleanupFails
  BY <1>3 DEF PhaseFails, CleanupFails, ChildAt
<1>4. CASE Arm \/ FailSafe \/ EnterPhase \/ ReportBackend \/ Disconnect
  <2>1. UNCHANGED <<succeeded, workloadFailed>> /\ (Over => Over')
    BY <1>4 DEF Arm, FailSafe, EnterPhase, ReportBackend, Disconnect, ChildAt
  <2> QED  BY <1>1, <2>1
<1>5. CASE Fork
  <2>1. UNCHANGED <<succeeded, workloadFailed>> /\ childPc = "none"
    BY <1>5 DEF Fork, Attach, GroupInv
  <2> QED  BY <1>1, <2>1
<1>6. CASE UNCHANGED childVars
  BY <1>1, <1>6
<1>7. CASE ParentDies
  BY <1>1, <1>7 DEF ParentDies
<1>8. CASE Execute \/ MakeTempCwd \/ LaunchFails \/ SendSdk \/ SendArtifact \/ BootstrapKill
              \/ Abandon \/ AwaitSupervised \/ Decide \/ CallerAborts
  BY <1>6, <1>8 DEF Execute, MakeTempCwd, LaunchFails, SendSdk, SendArtifact, SendBootstrap,
                     BootstrapKill, Abandon, AwaitSupervised, Decide, CallerAborts
<1>9. CASE Deliver \/ Reap \/ Sweep \/ SupervisorStep(PhaseTimer) \/ SupervisorStep(OverallTimer)
             \/ SupervisorStep(KillTimer) \/ SupervisorStep(SettleTimer)
  BY <1>6, <1>9 DEF Deliver, Reap, Sweep, SupervisorStep
<1>10. CASE ExitNormally \/ Crash \/ RootTerminated \/ RootKilled \/ WorkerStarts \/ WorkerDies
  BY <1>6, <1>10 DEF ExitNormally, Crash, RootTerminated, RootKilled, RootEnds, WorkerStarts, WorkerDies
<1>11. CASE UNCHANGED vars
  BY <1>6, <1>11 DEF vars
<1> QED  BY <1>2, <1>3, <1>4, <1>5, <1>7, <1>8, <1>9, <1>10, <1>11 DEF RunNext

LEMMA FactsStand ==
  ASSUME RunTypeOK, GroupInv, ChildInv, [RunNext]_vars
  PROVE  /\ \A f : FailedReally(f) => FailedReally(f)'
         /\ \A m : MessageTrue(m) => MessageTrue(m)'
<1>1. \A f : FailedReally(f) => FailedReally(f)'
  BY ChildFacts DEF FailedReally
<1>2. succeeded \subseteq succeeded'
  BY ChildFacts
<1> QED  BY <1>1, <1>2 DEF MessageTrue, FailedReally

(* The steps by which a channel grows, and the steps that leave it alone.  *)
Says(m) ==
  \/ EnterPhase /\ m = PhaseMessage(activePhase, "started", childSequence)
  \/ ReportBackend /\ \E b \in SdkBackends : m = BackendMessage(b, childSequence)
  \/ PhaseSucceeds /\ m = PhaseMessage(activePhase, "succeeded", childSequence)
  \/ PhaseFails /\ m = PhaseMessage(activePhase, "failed", childSequence)
  \/ CleanupFails /\ m = PhaseMessage(CleanShutdown, "failed", childSequence)

LEMMA ChannelSteps ==
  ASSUME RunTypeOK, [RunNext]_vars
  PROVE  \/ Deliver
         \/ UNCHANGED channel
         \/ \E m \in ChildMessage : /\ Says(m) /\ channel' = Append(channel, m)
                                    /\ childSequence' = childSequence + 1
<1> USE DEF vars
<1> SUFFICES ASSUME ~Deliver, channel' # channel
             PROVE  \E m \in ChildMessage : /\ Says(m) /\ channel' = Append(channel, m)
                                            /\ childSequence' = childSequence + 1
  OBVIOUS
<1>1. ASSUME NEW m \in ChildMessage, Emit(<<m>>), Says(m)
      PROVE  \E n \in ChildMessage : /\ Says(n) /\ channel' = Append(channel, n)
                                     /\ childSequence' = childSequence + 1
  BY <1>1, EmitType
<1>2. CASE EnterPhase
  BY <1>1, <1>2, SentMessage DEF EnterPhase, Says
<1>3. CASE ReportBackend
  <2>1. PICK b \in SdkBackends : Emit(<<BackendMessage(b, childSequence)>>)
    BY <1>3 DEF ReportBackend
  <2>2. Says(BackendMessage(b, childSequence))
    BY <1>3 DEF Says
  <2> QED  BY <1>1, <2>1, <2>2, SentMessage
<1>4. CASE PhaseSucceeds
  BY <1>1, <1>4, SentMessage DEF PhaseSucceeds, Says
<1>5. CASE PhaseFails
  BY <1>1, <1>5, SentMessage DEF PhaseFails, Says
<1>6. CASE CleanupFails
  BY <1>1, <1>6, SentMessage DEF CleanupFails, Says
<1>7. CASE Execute \/ MakeTempCwd \/ LaunchFails \/ Fork \/ SendSdk \/ SendArtifact \/ BootstrapKill
              \/ Abandon \/ AwaitSupervised \/ Decide \/ CallerAborts \/ ParentDies
  BY <1>7 DEF Execute, MakeTempCwd, LaunchFails, Fork, SendSdk, SendArtifact, SendBootstrap,
              BootstrapKill, Abandon, AwaitSupervised, Decide, CallerAborts, ParentDies
<1>8. CASE Reap \/ Sweep \/ SupervisorStep(PhaseTimer) \/ SupervisorStep(OverallTimer)
             \/ SupervisorStep(KillTimer) \/ SupervisorStep(SettleTimer)
  BY <1>8 DEF Reap, Sweep, SupervisorStep
<1>9. CASE Arm \/ FailSafe \/ Disconnect \/ ExitNormally \/ Crash \/ RootTerminated \/ RootKilled
              \/ WorkerStarts \/ WorkerDies
  BY <1>9 DEF Arm, FailSafe, Disconnect, ExitNormally, Crash, RootTerminated, RootKilled, RootEnds,
              WorkerStarts, WorkerDies
<1> QED  BY <1>2, <1>3, <1>4, <1>5, <1>6, <1>7, <1>8, <1>9 DEF RunNext


LEMMA SaidTruly ==
  ASSUME RunTypeOK, ChildInv, NEW m, Says(m)  PROVE MessageTrue(m)'
<1> USE DEF MessageTrue, PhaseMessage, BackendMessage, FailedReally
<1>1. CASE EnterPhase /\ m = PhaseMessage(activePhase, "started", childSequence)
  BY <1>1
<1>2. CASE ReportBackend /\ \E b \in SdkBackends : m = BackendMessage(b, childSequence)
  BY <1>2
<1>3. CASE PhaseSucceeds /\ m = PhaseMessage(activePhase, "succeeded", childSequence)
  BY <1>3 DEF PhaseSucceeds
<1>4. CASE PhaseFails /\ m = PhaseMessage(activePhase, "failed", childSequence)
  <2>1. ~Over /\ workloadFailed' /\ UNCHANGED succeeded /\ activePhase # CleanShutdown
    BY <1>4 DEF PhaseFails, ChildAt, Over
  <2>2. activePhase \notin succeeded
    BY <2>1, ActiveNotDone
  <2> QED  BY <1>4, <2>1, <2>2
<1>5. CASE CleanupFails /\ m = PhaseMessage(CleanShutdown, "failed", childSequence)
  <2>1. ~Over /\ Over' /\ workloadFailed' /\ UNCHANGED succeeded /\ activePhase = CleanShutdown
    BY <1>5 DEF CleanupFails, ChildAt, Over
  <2>2. CleanShutdown \notin succeeded
    BY <2>1, ActiveNotDone
  <2> QED  BY <1>5, <2>1, <2>2
<1> QED  BY <1>1, <1>2, <1>3, <1>4, <1>5 DEF Says

(* What the supervisor records, step by step. *)
LEMMA RecordSteps ==
  ASSUME TypeInv, RunTypeOK, [RunNext]_vars
  PROVE  \/ UNCHANGED <<phases, firstFailure>> /\ (stage' # "settled" => stage # "settled")
         \/ Deliver /\ channel # <<>> /\ AcceptEnd(Head(channel))
         \/ Sweep /\ SweepDone(~GroupEmpty) /\ GroupEmpty
<1> USE DEF lifecycle, ending, supervisorVars
<1> DEFINE quiet == UNCHANGED <<phases, firstFailure>> /\ (stage' # "settled" => stage # "settled")
<1>1. CASE UNCHANGED supervisorVars
  BY <1>1
<1>2. CASE Execute \/ MakeTempCwd \/ AwaitSupervised \/ Decide \/ ParentDies
  BY <1>2 DEF Execute, MakeTempCwd, AwaitSupervised, Decide, ParentDies
<1>3. CASE LaunchFails \/ Fork \/ SendSdk \/ SendArtifact \/ BootstrapKill \/ Abandon \/ CallerAborts
  BY <1>3 DEF LaunchFails, DisposeAfterLaunchFailure, Fork, Attach, SendSdk, SendArtifact,
              SendBootstrap, BootstrapKill, Abandon, CallerAborts, Abort
<1>4. CASE Deliver
  <2>1. channel # <<>> /\ OnMessage(Head(channel))
    BY <1>4 DEF Deliver
  <2>2. \A m : OnMessage(m) => quiet \/ AcceptEnd(m)
    BY DEF OnMessage, IgnoreMessage, RejectMessage, AcceptStart, AcceptBackend
  <2> QED  BY <1>4, <2>1, <2>2
<1>5. CASE Reap \/ SupervisorStep(SettleTimer)
  BY <1>5 DEF Reap, OnExit, SupervisorStep, SettleTimer, Finalize, Finalized
<1>6. CASE Sweep
  <2>1. SweepKill \/ SweepDone(~GroupEmpty)
    BY <1>6 DEF Sweep, SupervisorStep
  <2>2. SweepKill => quiet
    BY DEF SweepKill
  <2>3. SweepDone(~GroupEmpty) /\ ~GroupEmpty => quiet
    BY DEF SweepDone
  <2> QED  BY <1>6, <2>1, <2>2, <2>3
<1>7. CASE SupervisorStep(PhaseTimer) \/ SupervisorStep(OverallTimer) \/ SupervisorStep(KillTimer)
  BY <1>7 DEF SupervisorStep, PhaseTimer, OverallTimer, Timeout, KillTimer
<1>8. CASE Arm \/ FailSafe \/ EnterPhase \/ ReportBackend \/ PhaseSucceeds \/ PhaseFails
              \/ CleanupFails \/ Disconnect
  BY <1>8 DEF Arm, FailSafe, EnterPhase, ReportBackend, PhaseSucceeds, PhaseFails, CleanupFails,
               Disconnect
<1>9. CASE ExitNormally \/ Crash \/ RootTerminated \/ RootKilled \/ WorkerStarts \/ WorkerDies
  BY <1>9 DEF ExitNormally, Crash, RootTerminated, RootKilled, RootEnds, WorkerStarts, WorkerDies
<1>10. CASE UNCHANGED vars
  BY <1>10 DEF vars
<1> QED  BY <1>1, <1>2, <1>3, <1>4, <1>5, <1>6, <1>7, <1>8, <1>9, <1>10 DEF RunNext

LEMMA InitTruthInv == RunInit => TruthInv
  BY DEF RunInit, SupervisorInit, TruthInv, Told

LEMMA NextTruthInv ==
  SupervisorInv /\ RunTypeOK /\ GroupInv /\ ChildInv /\ TruthInv /\ [RunNext]_vars => TruthInv'
<1> SUFFICES ASSUME SupervisorInv, RunTypeOK, GroupInv, ChildInv, TruthInv, [RunNext]_vars
             PROVE  TruthInv'
  OBVIOUS
<1>1. /\ succeeded \subseteq succeeded'
      /\ \A f : FailedReally(f) => FailedReally(f)'
      /\ \A m : MessageTrue(m) => MessageTrue(m)'
  <2>1. succeeded \subseteq succeeded'
    BY ChildFacts
  <2>2. \A f : FailedReally(f) => FailedReally(f)'
    BY FactsStand DEF FailedReally
  <2>3. \A m : MessageTrue(m) => MessageTrue(m)'
    BY FactsStand DEF FailedReally, MessageTrue
  <2> QED  BY <2>1, <2>2, <2>3 DEF FailedReally, MessageTrue
<1>2. TypeInv /\ channel \in Seq(ChildMessage) /\ phases \in Seq(PhaseRecord)
  BY DEF SupervisorInv, RunTypeOK, TypeInv, TypeOK
<1>3. (\A i \in 1 .. Len(channel) : MessageTrue(channel[i]))'
  <2> SUFFICES ASSUME NEW i \in 1 .. Len(channel'), NEW said, said = channel'[i]
               PROVE  MessageTrue(said)'
    BY DEF MessageTrue, FailedReally
  <2> SUFFICES ASSUME \A j \in 1 .. Len(channel) : said # channel[j]  PROVE MessageTrue(said)'
    BY <1>1 DEF TruthInv, MessageTrue, FailedReally
  <2>1. CASE Deliver
    <3>1. channel' = Tail(channel) /\ channel # <<>>
      BY <2>1 DEF Deliver
    <3>2. i + 1 \in 1 .. Len(channel) /\ said = channel[i + 1]
      BY <1>2, <3>1
    <3> QED  BY <3>2
  <2>2. CASE UNCHANGED channel
    BY <2>2
  <2>3. ASSUME NEW m \in ChildMessage, Says(m), channel' = Append(channel, m)
        PROVE  MessageTrue(said)'
    <3>1. said = m
      BY <1>2, <2>3
    <3> QED  BY <2>3, <3>1, SaidTruly DEF MessageTrue, FailedReally
  <2> QED  BY <2>1, <2>2, <2>3, ChannelSteps DEF MessageTrue, FailedReally
<1>4. CASE UNCHANGED <<phases, firstFailure>> /\ (stage' # "settled" => stage # "settled")
  <2>1. (\A p \in Phase : Told(p) => p \in succeeded)'
    BY <1>1, <1>4 DEF TruthInv, Told
  <2>2. (stage # "settled" /\ firstFailure # None => FailedReally(firstFailure))'
    BY <1>1, <1>4 DEF TruthInv, FailedReally
  <2> QED  BY <1>3, <2>1, <2>2 DEF TruthInv
<1>5. CASE Deliver /\ channel # <<>> /\ AcceptEnd(Head(channel))
  <2> DEFINE m == Head(channel)
  <2>1. MessageTrue(m) /\ m = channel[1] /\ m \in ChildMessage
    BY <1>2, <1>5 DEF TruthInv
  <2>2. /\ m.type = "phase" /\ m.state # "started" /\ stage # "settled"
        /\ phases' = Append(phases, PhaseEvent(m.phase, IF m.state = "succeeded" THEN "passed"
                                                        ELSE "failed"))
        /\ firstFailure' = FailureAfter(m)
    BY <1>5 DEF AcceptEnd, Ends, Deaf, Listening, Finalized
  <2>3. m.state \in {"succeeded", "failed"}
    BY <2>1, <2>2 DEF ChildMessage
  <2> HIDE DEF m
  <2>4. ASSUME NEW p \in Phase, NEW i \in DOMAIN phases', phases'[i] = PhaseEvent(p, "passed")
        PROVE  p \in succeeded'
    <3>1. CASE i \in DOMAIN phases
      <4>1. phases'[i] = phases[i]
        BY <1>2, <2>2, <3>1
      <4>2. Told(p)
        BY <2>4, <3>1, <4>1 DEF Told
      <4> QED  BY <1>1, <4>2 DEF TruthInv
    <3>2. CASE i \notin DOMAIN phases
      <4>1. phases'[i] = PhaseEvent(m.phase, IF m.state = "succeeded" THEN "passed" ELSE "failed")
        BY <1>2, <2>2, <2>4, <3>2
      <4>2. p = m.phase /\ m.state = "succeeded"
        BY <2>3, <2>4, <4>1 DEF PhaseEvent
      <4> QED  BY <1>1, <2>1, <2>2, <4>2 DEF MessageTrue
    <3> QED  BY <3>1, <3>2
  <2>5. (\A p \in Phase : Told(p) => p \in succeeded)'
    BY <2>4 DEF Told
  <2>6. (stage # "settled" /\ firstFailure # None => FailedReally(firstFailure))'
    <3>1. CASE m.state = "failed" /\ firstFailure = None
      <4>1. firstFailure' = m.phase /\ FailedReally(m.phase)
        BY <2>1, <2>2, <3>1 DEF MessageTrue, FailureAfter
      <4> QED  BY <1>1, <4>1 DEF FailedReally
    <3>2. CASE ~(m.state = "failed" /\ firstFailure = None)
      <4>1. firstFailure' = firstFailure
        BY <2>2, <3>2 DEF FailureAfter
      <4> QED  BY <1>1, <2>2, <4>1 DEF TruthInv, FailedReally
    <3> QED  BY <3>1, <3>2
  <2> QED  BY <1>3, <2>5, <2>6 DEF TruthInv
<1>6. CASE SweepDone(~GroupEmpty) /\ GroupEmpty
  <2>1. stage' = "settled" /\ phases' = ClosedPhases
    BY <1>6 DEF SweepDone
  <2>2. ASSUME NEW p \in Phase, \E i \in DOMAIN ClosedPhases : ClosedPhases[i] = PhaseEvent(p, "passed")
        PROVE  Told(p)
    <3>1. PICK i \in DOMAIN ClosedPhases : ClosedPhases[i] = PhaseEvent(p, "passed")
      BY <2>2
    <3>2. CASE ClosedPhases = phases
      BY <3>1, <3>2 DEF Told
    <3>3. CASE ClosedPhases # phases
      <4>1. ClosedPhases = Append(phases, PhaseEvent(EndingPhase, EndingStatus))
            /\ EndingStatus \in {"failed", "unknown"}
        BY <3>3 DEF ClosedPhases
      <4>2. PhaseEvent(p, "passed") # PhaseEvent(EndingPhase, EndingStatus)
        BY <4>1 DEF PhaseEvent
      <4>3. i \in DOMAIN phases /\ phases[i] = PhaseEvent(p, "passed")
        BY <1>2, <3>1, <4>1, <4>2
      <4> QED  BY <4>3 DEF Told
    <3> QED  BY <3>2, <3>3
  <2>3. (\A p \in Phase : Told(p) => p \in succeeded)'
    <3> SUFFICES ASSUME NEW p \in Phase, NEW i \in DOMAIN phases', phases'[i] = PhaseEvent(p, "passed")
                 PROVE  p \in succeeded'
      BY DEF Told
    <3>1. Told(p)
      BY <2>1, <2>2
    <3> QED  BY <1>1, <3>1 DEF TruthInv
  <2> QED  BY <1>3, <2>1, <2>3 DEF TruthInv
<1> QED  BY <1>2, <1>4, <1>5, <1>6, RecordSteps

(***************************************************************************)
(* The places of the lifecycle: where the supervisor is, and where the     *)
(* child is.  While the supervisor listens, the messages in the channel    *)
(* lead from the one to the other, each by a step of the grammar.          *)
(***************************************************************************)
Place ==
  [phase : Phase, open : Phase \cup {None}, shown : BOOLEAN, failed : BOOLEAN,
   ended : BOOLEAN, count : Nat]

HeardPlace ==
  [phase |-> expectedPhase, open |-> openPhase,
   shown |-> openPhase = Inference /\ backend # NoBackend,
   failed |-> firstFailure # None, ended |-> lifecycleTerminal, count |-> nextSequence]

SaidPlace ==
  [phase |-> activePhase, open |-> IF childPc \in {"work", "reported"} THEN activePhase ELSE None,
   shown |-> childPc = "reported",
   failed |-> workloadFailed, ended |-> Over, count |-> childSequence]

Legal(p, m) ==
  /\ ~p.ended /\ m.sequence = p.count
  /\ \/ m.type = "phase" /\ m.state = "started" /\ p.open = None /\ m.phase = p.phase
     \/ m.type = "phase" /\ m.state # "started" /\ p.open = p.phase /\ m.phase = p.phase
     \/ m.type = "backend" /\ p.open = Inference /\ ~p.shown

After(p, m) ==
  LET ends == m.type = "phase" /\ m.state # "started" IN
  [phase |-> IF ~ends THEN p.phase
             ELSE IF m.phase = CleanShutdown \/ (m.state = "failed" /\ ~p.failed)
               THEN CleanShutdown ELSE p.phase + 1,
   open |-> IF ends THEN None ELSE p.phase,
   shown |-> m.type = "backend",
   failed |-> p.failed \/ (ends /\ m.state = "failed"),
   ended |-> ends /\ m.phase = CleanShutdown,
   count |-> p.count + 1]

(* A phase takes two messages, and one of them may show the backend too.   *)
Budgeted(p) ==
  /\ p.open # None => p.open = p.phase /\ ~p.ended
  /\ p.shown => p.open = Inference
  /\ p.ended => p.phase = CleanShutdown
  /\ p.count <= 2 * (p.phase - 1) + (IF p.open = None THEN 0 ELSE 1)
                  + (IF p.phase > Inference \/ p.shown THEN 1 ELSE 0)
                  + (IF p.ended THEN 2 ELSE 0)

Leads(st, from, to, ms) ==
  /\ st[0] = from /\ st[Len(ms)] = to
  /\ \A i \in 1 .. Len(ms) : Legal(st[i - 1], ms[i]) /\ st[i] = After(st[i - 1], ms[i])
  /\ \A i \in 0 .. Len(ms) : st[i].count = from.count + i
Linked(from, to, ms) == \E st \in [0 .. Len(ms) -> Place] : Leads(st, from, to, ms)

InStep == parentAlive /\ ~Finalized /\ override.kind = "none"
ShownInTime == backend # NoBackend => expectedPhase > Inference \/ openPhase = Inference
ChannelInv ==
  InStep => /\ Budgeted(HeardPlace) /\ ShownInTime
            /\ Linked(HeardPlace, SaidPlace, channel)

(* Of a root that was reaped before an override, the supervisor knows all  *)
(* the child reached if it heard all the child said.                       *)
ReapedInStep ==
  exit # NoExit /\ override.kind = "none" /\ nextSequence = childSequence =>
    expectedPhase = activePhase /\ (lifecycleTerminal <=> Over)

LEMMA HeardType == TypeInv => HeardPlace \in Place
<1> SUFFICES ASSUME TypeInv PROVE HeardPlace \in Place
  OBVIOUS
<1>1. /\ expectedPhase \in Phase /\ openPhase \in Phase \cup {None} /\ lifecycleTerminal \in BOOLEAN
      /\ nextSequence \in Nat
  BY MaxEventsAssumption DEF TypeInv, TypeOK
<1> QED  BY <1>1 DEF HeardPlace, Place

LEMMA SaidType == RunTypeOK => SaidPlace \in Place
<1> SUFFICES ASSUME RunTypeOK PROVE SaidPlace \in Place
  OBVIOUS
<1>1. /\ activePhase \in Phase /\ workloadFailed \in BOOLEAN /\ childSequence \in Nat
      /\ (IF childPc \in {"work", "reported"} THEN activePhase ELSE None) \in Phase \cup {None}
      /\ Over \in BOOLEAN
  BY DEF RunTypeOK, Over
<1> QED  BY <1>1 DEF SaidPlace, Place

LEMMA PhaseFacts ==
  /\ None \notin Phase /\ Phase \subseteq Int /\ CleanShutdown \in Phase /\ Inference \in Phase
  /\ Inference # CleanShutdown
  /\ \A p \in Phase : p # CleanShutdown => p + 1 \in Phase
  BY DEF None, Phase, QvacImport, Inference, CleanShutdown

LEMMA AfterStart ==
  ASSUME NEW p \in Place, NEW m, m.type = "phase", m.state = "started"
  PROVE  After(p, m) = [phase |-> p.phase, open |-> p.phase, shown |-> FALSE, failed |-> p.failed,
                        ended |-> FALSE, count |-> p.count + 1]
  BY DEF After, Place

LEMMA AfterBackend ==
  ASSUME NEW p \in Place, NEW m, m.type = "backend"
  PROVE  After(p, m) = [phase |-> p.phase, open |-> p.phase, shown |-> TRUE, failed |-> p.failed,
                        ended |-> FALSE, count |-> p.count + 1]
  BY DEF After, Place

LEMMA AfterEnd ==
  ASSUME NEW p \in Place, NEW m, m.type = "phase", m.state # "started"
  PROVE  After(p, m) = [phase |-> IF m.phase = CleanShutdown \/ (m.state = "failed" /\ ~p.failed)
                                    THEN CleanShutdown ELSE p.phase + 1,
                        open |-> None, shown |-> FALSE, failed |-> p.failed \/ m.state = "failed",
                        ended |-> m.phase = CleanShutdown, count |-> p.count + 1]
  BY DEF After, Place

LEMMA SaidFields ==
  /\ SaidPlace.phase = activePhase /\ SaidPlace.shown = (childPc = "reported")
  /\ SaidPlace.open = (IF childPc \in {"work", "reported"} THEN activePhase ELSE None)
  /\ SaidPlace.failed = workloadFailed /\ SaidPlace.ended = Over
  /\ SaidPlace.count = childSequence
  BY DEF SaidPlace

(* Each message the child emits takes it from its place to the next. *)
LEMMA SaysLegally ==
  ASSUME RunTypeOK, ChildInv, NEW m \in ChildMessage, Says(m), childSequence' = childSequence + 1
  PROVE  Legal(SaidPlace, m) /\ SaidPlace' = After(SaidPlace, m)
<1> USE DEF Over, PhaseMessage, BackendMessage
<1>0. SaidPlace \in Place
  BY SaidType
<1> PICK n \in Nat : n = childSequence + 1 /\ childSequence' = n
  BY DEF RunTypeOK
<1>1. CASE EnterPhase /\ m = PhaseMessage(activePhase, "started", childSequence)
  <2>1. /\ childPc = "enter" /\ childPc' = "work" /\ UNCHANGED <<activePhase, workloadFailed>>
    BY <1>1 DEF EnterPhase, ChildAt
  <2>2. Legal(SaidPlace, m)
    BY <1>1, <2>1 DEF Legal, SaidPlace
  <2>3. SaidPlace' = [phase |-> activePhase, open |-> activePhase, shown |-> FALSE,
                      failed |-> workloadFailed, ended |-> FALSE, count |-> n]
    <3>1. (childPc' = "reported") = FALSE /\ Over' = FALSE
          /\ (IF childPc' \in {"work", "reported"} THEN activePhase' ELSE None) = activePhase
      BY <2>1
    <3>2. childSequence' = n /\ activePhase' = activePhase /\ workloadFailed' = workloadFailed
      BY <2>1
    <3> HIDE DEF Over
    <3> QED  BY <3>1, <3>2, Zenon DEF SaidPlace
  <2>4. After(SaidPlace, m) = SaidPlace'
    BY <1>0, <1>1, <2>3, AfterStart, SaidFields
  <2> QED  BY <2>2, <2>4
<1>2. CASE ReportBackend /\ \E b \in SdkBackends : m = BackendMessage(b, childSequence)
  <2>1. /\ childPc = "work" /\ activePhase = Inference /\ childPc' = "reported"
        /\ UNCHANGED <<activePhase, workloadFailed>>
    BY <1>2 DEF ReportBackend, ChildAt
  <2>2. m.type = "backend" /\ m.sequence = childSequence
    BY <1>2
  <2>3. Legal(SaidPlace, m)
    BY <2>1, <2>2 DEF Legal, SaidPlace
  <2>4. SaidPlace' = [phase |-> activePhase, open |-> activePhase, shown |-> TRUE,
                      failed |-> workloadFailed, ended |-> FALSE, count |-> n]
    <3>1. (childPc' = "reported") = TRUE /\ Over' = FALSE
          /\ (IF childPc' \in {"work", "reported"} THEN activePhase' ELSE None) = activePhase
      BY <2>1
    <3>2. childSequence' = n /\ activePhase' = activePhase /\ workloadFailed' = workloadFailed
      BY <2>1
    <3> HIDE DEF Over
    <3> QED  BY <3>1, <3>2, Zenon DEF SaidPlace
  <2>5. After(SaidPlace, m) = SaidPlace'
    BY <1>0, <2>2, <2>4, AfterBackend, SaidFields
  <2> QED  BY <2>3, <2>5
<1>3. ASSUME NEW state \in {"succeeded", "failed"},
             m = PhaseMessage(activePhase, state, childSequence),
             childPc \in {"work", "reported"}, childPc' \in {"enter", "finish"},
             childPc' = "finish" <=> activePhase = CleanShutdown,
             activePhase' = IF activePhase = CleanShutdown \/ (state = "failed" /\ ~workloadFailed)
                              THEN CleanShutdown ELSE activePhase + 1,
             workloadFailed' = (workloadFailed \/ state = "failed")
      PROVE  Legal(SaidPlace, m) /\ SaidPlace' = After(SaidPlace, m)
  <2>1. Legal(SaidPlace, m)
    BY <1>3 DEF Legal, SaidPlace
  <2>2. SaidPlace' = [phase |-> activePhase', open |-> None, shown |-> FALSE,
                      failed |-> workloadFailed', ended |-> Over',
                      count |-> n]
    BY <1>3, Zenon DEF SaidPlace
  <2>3. Over' = (activePhase = CleanShutdown)
    BY <1>3
  <2>4. After(SaidPlace, m) = [phase |-> activePhase', open |-> None, shown |-> FALSE,
                               failed |-> workloadFailed', ended |-> activePhase = CleanShutdown,
                               count |-> n]
    <3>1. m.type = "phase" /\ m.phase = activePhase /\ m.state = state /\ m.state # "started"
      BY <1>3
    <3>2. (m.state = "failed") = (state = "failed")
      BY <3>1
    <3>3. After(SaidPlace, m) =
            [phase |-> IF m.phase = CleanShutdown \/ (m.state = "failed" /\ ~SaidPlace.failed)
                         THEN CleanShutdown ELSE SaidPlace.phase + 1,
             open |-> None, shown |-> FALSE, failed |-> SaidPlace.failed \/ m.state = "failed",
             ended |-> m.phase = CleanShutdown, count |-> SaidPlace.count + 1]
      BY <1>0, <3>1, AfterEnd
    <3>4. SaidPlace.count + 1 = n /\ (SaidPlace.failed \/ m.state = "failed") = workloadFailed'
          /\ (m.phase = CleanShutdown) = (activePhase = CleanShutdown)
          /\ (IF m.phase = CleanShutdown \/ (m.state = "failed" /\ ~SaidPlace.failed)
                THEN CleanShutdown ELSE SaidPlace.phase + 1) = activePhase'
      BY <1>3, <3>1, <3>2, SaidFields
    <3> QED  BY <3>3, <3>4, Zenon
  <2> QED  BY <2>1, <2>2, <2>3, <2>4
<1>4. CASE PhaseSucceeds /\ m = PhaseMessage(activePhase, "succeeded", childSequence)
  BY <1>3, <1>4 DEF PhaseSucceeds, ChildAt, RunTypeOK
<1>5. CASE PhaseFails /\ m = PhaseMessage(activePhase, "failed", childSequence)
  <2>1. ~workloadFailed
    BY <1>5 DEF ChildInv, ChildAtFrontier, PhaseFails, ChildAt
  <2> QED  BY <1>3, <1>5, <2>1 DEF PhaseFails, ChildAt
<1>6. CASE CleanupFails /\ m = PhaseMessage(CleanShutdown, "failed", childSequence)
  BY <1>3, <1>6 DEF CleanupFails, ChildAt
<1> QED  BY <1>1, <1>2, <1>4, <1>5, <1>6 DEF Says

(* How a step may change where the child is, while the parent lives. *)
LEMMA PlaceSteps ==
  ASSUME RunTypeOK, GroupInv, ChildInv, [RunNext]_vars, parentAlive'
  PROVE  \/ UNCHANGED <<channel, SaidPlace>>
         \/ Deliver /\ UNCHANGED SaidPlace
         \/ \E m \in ChildMessage : /\ Legal(SaidPlace, m) /\ SaidPlace' = After(SaidPlace, m)
                                    /\ channel' = Append(channel, m)
<1> DEFINE Sent == \E m \in ChildMessage : /\ Legal(SaidPlace, m) /\ SaidPlace' = After(SaidPlace, m)
                                           /\ channel' = Append(channel, m)
<1>1. ASSUME NEW m \in ChildMessage, Emit(<<m>>), Says(m), parentAlive, childPc # "exiting"
      PROVE  Sent
  BY <1>1, EmitType, SaysLegally DEF Connected
<1> SUFFICES ASSUME ~UNCHANGED <<channel, SaidPlace>>, ~(Deliver /\ UNCHANGED SaidPlace)
             PROVE  Sent
  OBVIOUS
<1> HIDE DEF Sent
<1> USE DEF callerVars
<1>2. CASE EnterPhase
  BY <1>1, <1>2, SentMessage DEF EnterPhase, ChildAt, Says
<1>3. CASE ReportBackend
  <2>1. PICK b \in SdkBackends : Emit(<<BackendMessage(b, childSequence)>>)
    BY <1>3 DEF ReportBackend
  <2>2. Says(BackendMessage(b, childSequence))
    BY <1>3 DEF Says
  <2>3. parentAlive /\ childPc # "exiting"
    BY <1>3 DEF ReportBackend, ChildAt
  <2> QED  BY <1>1, <2>1, <2>2, <2>3, SentMessage
<1>4. CASE PhaseSucceeds
  BY <1>1, <1>4, SentMessage DEF PhaseSucceeds, ChildAt, Says
<1>5. CASE PhaseFails
  BY <1>1, <1>5, SentMessage DEF PhaseFails, ChildAt, Says
<1>6. CASE CleanupFails
  BY <1>1, <1>6, SentMessage DEF CleanupFails, ChildAt, Says
<1>7. ASSUME UNCHANGED <<childPc, activePhase, childSequence, workloadFailed>>
      PROVE  UNCHANGED SaidPlace
  BY <1>7 DEF SaidPlace, Over
<1>8. CASE Execute \/ MakeTempCwd \/ LaunchFails \/ SendSdk \/ SendArtifact \/ BootstrapKill
              \/ Abandon \/ AwaitSupervised \/ Decide \/ CallerAborts \/ ParentDies
  BY <1>7, <1>8 DEF Execute, MakeTempCwd, LaunchFails, SendSdk, SendArtifact, SendBootstrap,
              BootstrapKill, Abandon, AwaitSupervised, Decide, CallerAborts, ParentDies, childVars
<1>9. CASE Fork \/ Arm \/ FailSafe \/ Disconnect
  <2>1. UNCHANGED <<channel, activePhase, childSequence, workloadFailed>>
    BY <1>9 DEF Fork, Arm, FailSafe, Disconnect
  <2>2. \/ childPc = "boot" /\ childPc' = "enter"
        \/ childPc = "finish" /\ childPc' = "exiting"
        \/ childPc = "none" /\ childPc' = "boot"
        \/ childPc' = childPc
    <3>1. Fork => childPc = "none" /\ childPc' = "boot"
      BY DEF Fork, Attach, GroupInv
    <3> QED  BY <1>9, <3>1 DEF Arm, FailSafe, Disconnect, ChildAt
  <2>3. /\ (IF childPc' \in {"work", "reported"} THEN activePhase' ELSE None)
             = (IF childPc \in {"work", "reported"} THEN activePhase ELSE None)
        /\ (childPc' = "reported") = (childPc = "reported") /\ Over' = Over
    BY <2>1, <2>2 DEF Over
  <2>4. SaidPlace' = SaidPlace
    BY <2>1, <2>3, Zenon DEF SaidPlace
  <2> QED  BY <2>1, <2>4
<1>10. CASE Deliver
  BY <1>7, <1>10 DEF Deliver, childVars
<1>11. CASE Reap \/ Sweep \/ SupervisorStep(PhaseTimer) \/ SupervisorStep(OverallTimer)
             \/ SupervisorStep(KillTimer) \/ SupervisorStep(SettleTimer)
  BY <1>7, <1>11 DEF Reap, Sweep, SupervisorStep, childVars
<1>12. CASE ExitNormally \/ Crash \/ RootTerminated \/ RootKilled \/ WorkerStarts \/ WorkerDies
  BY <1>7, <1>12 DEF ExitNormally, Crash, RootTerminated, RootKilled, RootEnds, WorkerStarts,
                     WorkerDies, childVars
<1>13. CASE UNCHANGED vars
  BY <1>7, <1>13 DEF vars, childVars
<1> QED
  BY <1>2, <1>3, <1>4, <1>5, <1>6, <1>8, <1>9, <1>10, <1>11, <1>12, <1>13 DEF RunNext

(* A reaped child does nothing any more. *)
LEMMA ReapedStands ==
  ASSUME GroupInv, [RunNext]_vars, root = "reaped"
  PROVE  /\ UNCHANGED <<root, rootExit, childPc, activePhase, childSequence, workloadFailed, succeeded>>
         /\ worker' => worker
<1>1. attached
  BY DEF GroupInv
<1> USE DEF childVars, groupVars
<1>2. CASE Execute \/ MakeTempCwd \/ LaunchFails \/ SendSdk \/ SendArtifact \/ BootstrapKill
              \/ Abandon \/ AwaitSupervised \/ Decide \/ CallerAborts \/ ParentDies
  BY <1>2 DEF Execute, MakeTempCwd, LaunchFails, SendSdk, SendArtifact,
              SendBootstrap, BootstrapKill, Abandon, AwaitSupervised, Decide, CallerAborts, ParentDies
<1>7. ~Fork
  BY <1>1 DEF Fork, Attach
<1>3. CASE Deliver \/ Reap \/ Sweep \/ SupervisorStep(PhaseTimer) \/ SupervisorStep(OverallTimer)
             \/ SupervisorStep(KillTimer) \/ SupervisorStep(SettleTimer)
  BY <1>3 DEF Deliver, Reap, Sweep, SupervisorStep
<1>4. CASE Arm \/ FailSafe \/ EnterPhase \/ ReportBackend \/ PhaseSucceeds \/ PhaseFails
              \/ CleanupFails \/ Disconnect
  BY <1>4 DEF Arm, FailSafe, EnterPhase, ReportBackend, PhaseSucceeds, PhaseFails, CleanupFails,
              Disconnect, ChildAt
<1>5. CASE ExitNormally \/ Crash \/ RootTerminated \/ RootKilled \/ WorkerStarts \/ WorkerDies
  BY <1>5 DEF ExitNormally, Crash, RootTerminated, RootKilled, RootEnds, WorkerStarts, WorkerDies,
              ChildAt
<1>6. CASE UNCHANGED vars
  BY <1>6 DEF vars
<1> QED  BY <1>2, <1>3, <1>4, <1>5, <1>6, <1>7 DEF RunNext

(* How a step may change where the supervisor is, while it listens.        *)
LEMMA HeardSteps ==
  ASSUME SupervisorInv, RunTypeOK, [RunNext]_vars, ~Finalized', override.kind = "none"
  PROVE  \/ UNCHANGED <<lifecycle>>
         \/ Deliver /\ channel # <<>> /\ Head(channel) \in ChildMessage /\ OnMessage(Head(channel))
<1> USE DEF supervisorVars, lifecycle
<1>1. CASE Execute \/ MakeTempCwd \/ LaunchFails \/ Fork \/ SendSdk \/ SendArtifact \/ BootstrapKill
              \/ Abandon \/ AwaitSupervised \/ Decide \/ CallerAborts \/ ParentDies
  BY <1>1 DEF Execute, MakeTempCwd, LaunchFails, DisposeAfterLaunchFailure, Fork, Attach, SendSdk,
              SendArtifact, SendBootstrap, BootstrapKill, Abandon, Abort, AwaitSupervised, Decide,
              CallerAborts, ParentDies
<1>2. CASE Deliver
  BY <1>2 DEF Deliver, RunTypeOK
<1>3. CASE Reap \/ SupervisorStep(PhaseTimer) \/ SupervisorStep(OverallTimer)
             \/ SupervisorStep(KillTimer) \/ SupervisorStep(SettleTimer)
  BY <1>3 DEF Reap, OnExit, Finalize, SupervisorStep, PhaseTimer, OverallTimer, Timeout, KillTimer,
              SettleTimer
<1>4. CASE Sweep
  BY <1>4 DEF Sweep, SupervisorStep, SweepKill, SweepDone, Finalized
<1>5. CASE Arm \/ FailSafe \/ EnterPhase \/ ReportBackend \/ PhaseSucceeds \/ PhaseFails
              \/ CleanupFails \/ Disconnect
  BY <1>5 DEF Arm, FailSafe, EnterPhase, ReportBackend, PhaseSucceeds, PhaseFails, CleanupFails,
              Disconnect
<1>6. CASE ExitNormally \/ Crash \/ RootTerminated \/ RootKilled \/ WorkerStarts \/ WorkerDies
  BY <1>6 DEF ExitNormally, Crash, RootTerminated, RootKilled, RootEnds, WorkerStarts, WorkerDies
<1>7. CASE UNCHANGED vars
  BY <1>7 DEF vars
<1> QED  BY <1>1, <1>2, <1>3, <1>4, <1>5, <1>6, <1>7 DEF RunNext

LEMMA HeardFields ==
  /\ HeardPlace.phase = expectedPhase /\ HeardPlace.open = openPhase
  /\ HeardPlace.shown = (openPhase = Inference /\ backend # NoBackend)
  /\ HeardPlace.failed = (firstFailure # None) /\ HeardPlace.ended = lifecycleTerminal
  /\ HeardPlace.count = nextSequence
  BY DEF HeardPlace

LEMMA PlaceOf ==
  ASSUME NEW a \in Phase, NEW o \in Phase \cup {None}, NEW sh \in BOOLEAN, NEW f \in BOOLEAN,
         NEW e \in BOOLEAN, NEW n \in Nat
  PROVE  [phase |-> a, open |-> o, shown |-> sh, failed |-> f, ended |-> e, count |-> n] \in Place
  BY DEF Place

LEMMA AfterType ==
  ASSUME NEW p \in Place, NEW m \in ChildMessage, Legal(p, m)
  PROVE  After(p, m) \in Place
<1>1. /\ p.count + 1 \in Nat /\ None \in Phase \cup {None} /\ p.phase \in Phase
      /\ p.phase \in Phase \cup {None} /\ p.failed \in BOOLEAN /\ TRUE \in BOOLEAN /\ FALSE \in BOOLEAN
  BY DEF Place
<1>2. CASE m.type = "phase" /\ m.state = "started"
  <2>1. [phase |-> p.phase, open |-> p.phase, shown |-> FALSE, failed |-> p.failed,
         ended |-> FALSE, count |-> p.count + 1] \in Place
    BY <1>1, PlaceOf
  <2> QED  BY <1>2, <2>1, AfterStart
<1>3. CASE m.type = "phase" /\ m.state # "started"
  <2>1. m.phase = p.phase
    BY <1>3 DEF Legal
  <2>2. (IF m.phase = CleanShutdown \/ (m.state = "failed" /\ ~p.failed)
           THEN CleanShutdown ELSE p.phase + 1) \in Phase
    BY <2>1, PhaseFacts DEF Place
  <2>3. (p.failed \/ m.state = "failed") \in BOOLEAN /\ (m.phase = CleanShutdown) \in BOOLEAN
    BY <1>1
  <2> DEFINE a == IF m.phase = CleanShutdown \/ (m.state = "failed" /\ ~p.failed)
                    THEN CleanShutdown ELSE p.phase + 1
             f == p.failed \/ m.state = "failed"
             e == m.phase = CleanShutdown
  <2>4. After(p, m) = [phase |-> a, open |-> None, shown |-> FALSE, failed |-> f, ended |-> e,
                       count |-> p.count + 1]
    BY <1>3, AfterEnd
  <2>5. a \in Phase /\ f \in BOOLEAN /\ e \in BOOLEAN
    BY <2>2, <2>3
  <2> HIDE DEF a, f, e
  <2>6. [phase |-> a, open |-> None, shown |-> FALSE, failed |-> f, ended |-> e,
         count |-> p.count + 1] \in Place
    BY <1>1, <2>5, PlaceOf
  <2> QED  BY <2>4, <2>6
<1>4. CASE m.type = "backend"
  <2>1. [phase |-> p.phase, open |-> p.phase, shown |-> TRUE, failed |-> p.failed,
         ended |-> FALSE, count |-> p.count + 1] \in Place
    BY <1>1, PlaceOf
  <2> QED  BY <1>4, <2>1, AfterBackend
<1> QED  BY <1>2, <1>3, <1>4 DEF Legal

LEMMA BudgetStep ==
  ASSUME NEW p \in Place, NEW m \in ChildMessage, Legal(p, m), Budgeted(p)
  PROVE  Budgeted(After(p, m))
<1>1. /\ p.phase \in 1 .. 5 /\ p.open \in 0 .. 5 /\ p.count \in Nat
      /\ p.ended \in BOOLEAN /\ p.shown \in BOOLEAN
  BY DEF Place, Phase, None, QvacImport, CleanShutdown
<1> USE DEF None, Phase, QvacImport, Inference, CleanShutdown
<1>2. CASE m.type = "phase" /\ m.state = "started"
  <2>1. p.open = 0 /\ ~p.ended
    BY <1>2 DEF Legal
  <2>2. p.count <= 2 * (p.phase - 1) + (IF p.phase > 4 THEN 1 ELSE 0)
    BY <1>1, <2>1 DEF Budgeted
  <2>3. p.count + 1 <= 2 * (p.phase - 1) + 1 + (IF p.phase > 4 THEN 1 ELSE 0)
    BY <1>1, <2>2
  <2> DEFINE q == After(p, m)
  <2>4. q.phase = p.phase /\ q.open = p.phase /\ ~q.shown /\ ~q.ended /\ q.count = p.count + 1
    BY <1>2, AfterStart
  <2> HIDE DEF q
  <2> QED  BY <1>1, <2>3, <2>4 DEF Budgeted, q
<1>3. CASE m.type = "backend"
  <2>1. p.open = 4 /\ ~p.ended /\ ~p.shown
    BY <1>3 DEF Legal
  <2>2. p.phase = 4 /\ p.count <= 7
    BY <1>1, <2>1 DEF Budgeted
  <2> DEFINE q == After(p, m)
  <2>4. q.phase = p.phase /\ q.open = p.phase /\ q.shown /\ ~q.ended /\ q.count = p.count + 1
    BY <1>3, AfterBackend
  <2> HIDE DEF q
  <2> QED  BY <1>1, <2>2, <2>4 DEF Budgeted, q
<1>4. CASE m.type = "phase" /\ m.state # "started"
  <2>1. p.open = p.phase /\ m.phase = p.phase /\ ~p.ended
    BY <1>4 DEF Legal
  <2>2. p.count <= 2 * (p.phase - 1) + 1 + (IF p.phase > 4 \/ p.shown THEN 1 ELSE 0)
        /\ (p.shown => p.phase = 4)
    BY <1>1, <2>1 DEF Budgeted
  <2> DEFINE q == After(p, m)
  <2>3. /\ q.phase = (IF m.phase = CleanShutdown \/ (m.state = "failed" /\ ~p.failed)
                       THEN CleanShutdown ELSE p.phase + 1)
        /\ q.open = 0 /\ ~q.shown /\ (q.ended <=> m.phase = CleanShutdown) /\ q.count = p.count + 1
    <3> HIDE DEF None, CleanShutdown
    <3>1. q.open = None
      BY <1>4, AfterEnd
    <3>2. q.shown = FALSE /\ q.ended = (m.phase = CleanShutdown)
      BY <1>4, AfterEnd
    <3>3. q.phase = (IF m.phase = CleanShutdown \/ (m.state = "failed" /\ ~p.failed)
                       THEN CleanShutdown ELSE p.phase + 1) /\ q.count = p.count + 1
      BY <1>4, AfterEnd
    <3> HIDE DEF q
    <3> QED  BY <3>1, <3>2, <3>3 DEF None
  <2>4. q.phase \in {5, p.phase + 1} /\ (q.ended <=> p.phase = 5) /\ (p.phase = 5 => q.phase = 5)
    BY <2>1, <2>3
  <2>5. p.count + 1 <= 2 * (q.phase - 1) + (IF q.phase > 4 THEN 1 ELSE 0) + (IF q.ended THEN 2 ELSE 0)
    <3>1. CASE p.phase = 5
      BY <1>1, <2>2, <2>4, <3>1
    <3>2. CASE p.phase = 4
      BY <1>1, <2>2, <2>4, <3>2
    <3>3. CASE p.phase < 4
      <4>1. p.count + 1 <= 2 * p.phase
        BY <1>1, <2>2, <3>3
      <4>2. q.phase \in 1 .. 5 /\ p.phase <= q.phase - 1
        BY <1>1, <2>4, <3>3
      <4> QED  BY <1>1, <4>1, <4>2
    <3> QED  BY <1>1, <3>1, <3>2, <3>3
  <2> HIDE DEF q
  <2> QED  BY <1>1, <2>3, <2>4, <2>5 DEF Budgeted, q
<1> QED  BY <1>2, <1>3, <1>4 DEF Legal

LEMMA BudgetRoom ==
  ASSUME NEW p \in Place, Budgeted(p), ~p.ended  PROVE p.count <= 2 * CleanShutdown
<1>1. p.phase \in 1 .. 5 /\ p.open \in 0 .. 5 /\ p.count \in Nat
  BY DEF Place, Phase, None, QvacImport, CleanShutdown
<1> QED  BY <1>1 DEF Budgeted, None, Inference, CleanShutdown

(* The next message of an honest channel is one the grammar admits. *)
LEMMA LegalAcceptable ==
  ASSUME TypeInv, nextSequence < MaxEvents, NEW m \in ChildMessage, Legal(HeardPlace, m)
  PROVE  Acceptable(m)
<1>1. ~lifecycleTerminal /\ m.sequence = nextSequence /\ m.type # "invalid"
  BY HeardFields DEF Legal, ChildMessage
<1>2. Starts(m) \/ Ends(m) \/ Observes(m)
  BY HeardFields DEF Legal, Starts, Ends, Observes
<1> QED  BY <1>1, <1>2 DEF Acceptable

LEMMA AcceptedPlace ==
  ASSUME TypeInv, Budgeted(HeardPlace), ShownInTime, NEW m \in ChildMessage,
         AcceptStart(m) \/ AcceptBackend(m) \/ AcceptEnd(m)
  PROVE  HeardPlace' = After(HeardPlace, m) /\ ShownInTime'
<1>0. HeardPlace \in Place
  BY HeardType
<1> PICK n \in Nat : n = nextSequence + 1 /\ nextSequence' = n
  BY MaxEventsAssumption DEF TypeInv, TypeOK, AcceptStart, AcceptBackend, AcceptEnd
<1>1. CASE AcceptStart(m)
  <2>1. /\ m.type = "phase" /\ m.state = "started" /\ openPhase = None /\ openPhase' = expectedPhase
        /\ ~lifecycleTerminal /\ UNCHANGED <<expectedPhase, firstFailure, backend, lifecycleTerminal>>
    BY <1>1 DEF AcceptStart, Acceptable, Starts
  <2>2. (openPhase' = Inference /\ backend' # NoBackend) = FALSE /\ ShownInTime'
    BY <2>1 DEF ShownInTime, None, Inference
  <2>3. HeardPlace' = [phase |-> expectedPhase, open |-> expectedPhase, shown |-> FALSE,
                       failed |-> firstFailure # None, ended |-> FALSE, count |-> n]
    <3>1. lifecycleTerminal' = FALSE /\ nextSequence' = n
      BY <2>1 DEF TypeInv, TypeOK
    <3> QED  BY <2>1, <2>2, <3>1, Zenon DEF HeardPlace
  <2>4. After(HeardPlace, m) = [phase |-> expectedPhase, open |-> expectedPhase, shown |-> FALSE,
                       failed |-> firstFailure # None, ended |-> FALSE, count |-> n]
    BY <1>0, <2>1, AfterStart, HeardFields
  <2> QED  BY <2>2, <2>3, <2>4
<1>2. CASE AcceptBackend(m)
  <2>1. /\ m.type = "backend" /\ m.backend \in Backend /\ backend' = m.backend
        /\ openPhase = Inference /\ ~lifecycleTerminal
        /\ UNCHANGED <<expectedPhase, openPhase, firstFailure, lifecycleTerminal>>
    BY <1>2 DEF AcceptBackend, Acceptable, Observes, ChildMessage
  <2>2. expectedPhase = openPhase
    BY <2>1, HeardFields DEF Budgeted, None, Inference
  <2>3. (openPhase' = Inference /\ backend' # NoBackend) = TRUE /\ ShownInTime'
    BY <2>1 DEF ShownInTime, Backend, NoBackend
  <2>4. HeardPlace' = [phase |-> expectedPhase, open |-> expectedPhase, shown |-> TRUE,
                       failed |-> firstFailure # None, ended |-> FALSE, count |-> n]
    <3>1. lifecycleTerminal' = FALSE /\ nextSequence' = n
      BY <2>1 DEF TypeInv, TypeOK
    <3> QED  BY <2>1, <2>2, <2>3, <3>1, Zenon DEF HeardPlace
  <2>5. After(HeardPlace, m) = [phase |-> expectedPhase, open |-> expectedPhase, shown |-> TRUE,
                       failed |-> firstFailure # None, ended |-> FALSE, count |-> n]
    BY <1>0, <2>1, AfterBackend, HeardFields
  <2> QED  BY <2>3, <2>4, <2>5
<1>3. CASE AcceptEnd(m)
  <2>1. /\ m.type = "phase" /\ m.state # "started" /\ openPhase = m.phase /\ m.phase = expectedPhase
        /\ openPhase' = None /\ expectedPhase' = PhaseAfter(m) /\ firstFailure' = FailureAfter(m)
        /\ lifecycleTerminal' = (m.phase = CleanShutdown) /\ UNCHANGED backend
    BY <1>3 DEF AcceptEnd, Acceptable, Ends
  <2>2. openPhase' # Inference /\ ShownInTime'
    <3>1. backend # NoBackend => expectedPhase >= Inference
      BY <2>1 DEF ShownInTime, Inference, TypeInv, TypeOK, Phase, QvacImport, CleanShutdown
    <3>2. expectedPhase >= Inference => PhaseAfter(m) > Inference
      BY <2>1 DEF PhaseAfter, Inference, CleanShutdown, TypeInv, TypeOK, Phase, QvacImport
    <3> QED  BY <2>1, <3>1, <3>2 DEF ShownInTime, None, Inference
  <2> DEFINE r == [phase |-> IF m.phase = CleanShutdown \/ (m.state = "failed" /\ ~(firstFailure # None))
                               THEN CleanShutdown ELSE expectedPhase + 1,
                   open |-> None, shown |-> FALSE, failed |-> firstFailure # None \/ m.state = "failed",
                   ended |-> m.phase = CleanShutdown, count |-> n]
  <2>3. After(HeardPlace, m) = r
    <3>1. After(HeardPlace, m) =
            [phase |-> IF m.phase = CleanShutdown \/ (m.state = "failed" /\ ~HeardPlace.failed)
                         THEN CleanShutdown ELSE HeardPlace.phase + 1,
             open |-> None, shown |-> FALSE, failed |-> HeardPlace.failed \/ m.state = "failed",
             ended |-> m.phase = CleanShutdown, count |-> HeardPlace.count + 1]
      BY <1>0, <2>1, AfterEnd
    <3>2. HeardPlace.count + 1 = n /\ HeardPlace.failed = (firstFailure # None)
          /\ HeardPlace.phase = expectedPhase
      BY HeardFields
    <3> QED  BY <3>1, <3>2, Zenon
  <2>4. expectedPhase' = r.phase
    BY <2>1 DEF PhaseAfter
  <2>5. (firstFailure' # None) <=> r.failed
    BY <2>1, PhaseFacts DEF FailureAfter, TypeInv, TypeOK
  <2>6. (openPhase' = Inference /\ backend' # NoBackend) = FALSE
        /\ (firstFailure' # None) = (firstFailure # None \/ m.state = "failed")
    BY <2>2, <2>5
  <2>7. HeardPlace' = r
    BY <2>1, <2>4, <2>6, Zenon DEF HeardPlace
  <2> QED  BY <2>2, <2>3, <2>7
<1> QED  BY <1>1, <1>2, <1>3

LEMMA LinkedNone == ASSUME NEW p \in Place PROVE Linked(p, p, <<>>)
<1> DEFINE st == [i \in 0 .. 0 |-> p]
<1>1. p.count \in Int /\ Len(<<>>) = 0
  BY DEF Place
<1>2. Leads(st, p, p, <<>>)
  BY <1>1 DEF Leads
<1>3. st \in [0 .. Len(<<>>) -> Place]
  BY <1>1
<1> QED  BY <1>2, <1>3 DEF Linked

LEMMA LinkedTail ==
  ASSUME NEW from \in Place, NEW to \in Place, NEW ms \in Seq(ChildMessage), ms # <<>>,
         Linked(from, to, ms)
  PROVE  /\ Legal(from, Head(ms))
         /\ After(from, Head(ms)) \in Place
         /\ Linked(After(from, Head(ms)), to, Tail(ms))
<1>1. PICK st \in [0 .. Len(ms) -> Place] : Leads(st, from, to, ms)
  BY DEF Linked
<1>2. /\ Len(ms) \in Nat \ {0} /\ Head(ms) = ms[1] /\ Len(Tail(ms)) = Len(ms) - 1
      /\ \A i \in 1 .. Len(ms) - 1 : Tail(ms)[i] = ms[i + 1]
  OBVIOUS
<1>n. Len(ms) - 1 \in Nat /\ Len(ms) = (Len(ms) - 1) + 1
  BY <1>2
<1> PICK n \in Nat : n = Len(ms) - 1 /\ Len(ms) = n + 1 /\ Len(Tail(ms)) = n
  BY <1>2, <1>n, Zenon
<1>3. Legal(from, Head(ms)) /\ st[1] = After(from, Head(ms)) /\ st[1].count = from.count + 1
  BY <1>1, <1>2 DEF Leads
<1> DEFINE su == [i \in 0 .. n |-> st[i + 1]]
<1>4. su \in [0 .. n -> Place] /\ \A i \in 0 .. n : su[i] = st[i + 1]
  OBVIOUS
<1>5. from.count \in Nat
  BY DEF Place
<1> HIDE DEF su
<1>6. su[0] = st[1] /\ su[n] = to
  BY <1>1, <1>4 DEF Leads
<1>7. ASSUME NEW i \in 1 .. n
      PROVE  Legal(su[i - 1], Tail(ms)[i]) /\ su[i] = After(su[i - 1], Tail(ms)[i])
  <2>1. su[i] = st[i + 1] /\ su[i - 1] = st[i] /\ i + 1 \in 1 .. Len(ms) /\ i + 1 - 1 = i
    BY <1>4
  <2>2. Tail(ms)[i] = ms[i + 1]
    BY <1>2
  <2>3. Legal(st[i], ms[i + 1]) /\ st[i + 1] = After(st[i], ms[i + 1])
    BY <1>1, <2>1 DEF Leads
  <2> QED  BY <2>1, <2>2, <2>3
<1>8. ASSUME NEW i \in 0 .. n
      PROVE  su[i].count = st[1].count + i
  <2>1. i + 1 \in 0 .. Len(ms)
    OBVIOUS
  <2>2. st[i + 1].count = from.count + (i + 1)
    BY <1>1, <2>1 DEF Leads
  <2>3. from.count + (i + 1) = (from.count + 1) + i
    <3>1. \A c \in Nat : c + (i + 1) = (c + 1) + i
      OBVIOUS
    <3> QED  BY <1>5, <3>1, Zenon
  <2>4. su[i] = st[i + 1]
    BY <1>4
  <2> QED  BY <1>3, <2>2, <2>3, <2>4, Zenon
<1>9. Leads(su, st[1], to, Tail(ms))
  BY <1>6, <1>7, <1>8 DEF Leads
<1>10. Linked(st[1], to, Tail(ms))
  BY <1>4, <1>9 DEF Linked
<1> QED  BY <1>3, <1>10

LEMMA LinkedAppend ==
  ASSUME NEW from \in Place, NEW to \in Place, NEW ms \in Seq(ChildMessage), NEW m \in ChildMessage,
         Linked(from, to, ms), Legal(to, m)
  PROVE  Linked(from, After(to, m), Append(ms, m))
<1>1. PICK st \in [0 .. Len(ms) -> Place] : Leads(st, from, to, ms)
  BY DEF Linked
<1> PICK n \in Nat : n = Len(ms)
  OBVIOUS
<1> DEFINE mt == Append(ms, m)
<1>2. /\ mt \in Seq(ChildMessage) /\ Len(mt) = n + 1 /\ mt[n + 1] = m
      /\ \A i \in 1 .. n : mt[i] = ms[i]
  OBVIOUS
<1>3. After(to, m) \in Place /\ After(to, m).count = to.count + 1
  BY AfterType DEF After
<1> DEFINE last == After(to, m)
           su == [i \in 0 .. n + 1 |-> IF i = n + 1 THEN last ELSE st[i]]
<1> HIDE DEF last, mt
<1>4. /\ su \in [0 .. n + 1 -> Place] /\ su[n + 1] = last
      /\ \A i \in 0 .. n : su[i] = st[i]
  BY <1>3 DEF last
<1> HIDE DEF su
<1>5. su[0] = from /\ su[Len(mt)] = last
  BY <1>1, <1>2, <1>4 DEF Leads
<1>6. ASSUME NEW i \in 1 .. n + 1
      PROVE  Legal(su[i - 1], mt[i]) /\ su[i] = After(su[i - 1], mt[i])
  <2>1. CASE i = n + 1
    <3>1. su[i - 1] = to /\ mt[i] = m
      BY <1>1, <1>2, <1>4, <2>1 DEF Leads
    <3> QED  BY <1>4, <2>1, <3>1 DEF last
  <2>2. CASE i # n + 1
    <3>1. i \in 1 .. n /\ i - 1 \in 0 .. n
      BY <2>2
    <3>2. su[i - 1] = st[i - 1] /\ su[i] = st[i] /\ mt[i] = ms[i]
      BY <1>2, <1>4, <3>1
    <3>3. Legal(st[i - 1], ms[i]) /\ st[i] = After(st[i - 1], ms[i])
      BY <1>1, <3>1 DEF Leads
    <3> QED  BY <3>2, <3>3
  <2> QED  BY <2>1, <2>2
<1>7. ASSUME NEW i \in 0 .. n + 1
      PROVE  su[i].count = from.count + i
  <2>1. CASE i = n + 1
    <3>1. to.count = from.count + n /\ from.count \in Nat
      BY <1>1 DEF Leads, Place
    <3> QED  BY <1>3, <1>4, <2>1, <3>1 DEF last
  <2>2. CASE i # n + 1
    <3>1. i \in 0 .. n
      BY <2>2
    <3> QED  BY <1>1, <1>4, <3>1 DEF Leads
  <2> QED  BY <2>1, <2>2
<1>8. Leads(su, from, last, mt)
  BY <1>2, <1>5, <1>6, <1>7 DEF Leads
<1>9. Linked(from, last, mt)
  BY <1>2, <1>4, <1>8 DEF Linked
<1> QED  BY <1>9 DEF last, mt

LEMMA LinkedEqual ==
  ASSUME NEW from \in Place, NEW to \in Place, NEW ms \in Seq(ChildMessage), Linked(from, to, ms),
         from.count = to.count
  PROVE  from = to
<1>1. PICK st \in [0 .. Len(ms) -> Place] : Leads(st, from, to, ms)
  BY DEF Linked
<1>2. to.count = from.count + Len(ms) /\ from.count \in Nat /\ Len(ms) \in Nat
  BY <1>1 DEF Leads, Place
<1>3. Len(ms) = 0
  BY <1>2
<1> QED  BY <1>1, <1>3 DEF Leads

LEMMA InStepBefore ==
  ASSUME SupervisorInv, RunTypeOK, [RunNext]_vars, InStep'  PROVE InStep
<1>1. SupervisorMoves
  BY RunMovesSupervisor DEF SupervisorInv
<1>2. ASSUME [Next]_supervisorVars PROVE stage = "open" /\ override.kind = "none"
  <2>1. stage' = "open" /\ override'.kind = "none"
    BY DEF InStep, Finalized
  <2>2. override.kind = "none"
    BY <1>2, <2>1, CausesStand
  <2>3. \A e : ~Finalize(e)
    BY <2>1 DEF Finalize
  <2>4. ~SweepKill /\ \A survivors : ~SweepDone(survivors)
    BY <2>1 DEF SweepKill, SweepDone
  <2>5. ASSUME NEW m, OnMessage(m) PROVE UNCHANGED stage
    BY <2>5, MessageLeaves DEF ending
  <2>6. stage' = stage
    BY <1>2, <2>3, <2>4, <2>5, TimerLeaves
    DEF Next, OnExit, SettleTimer, Attach, Abort, DisposeAfterLaunchFailure, ending, supervisorVars
  <2> QED  BY <2>1, <2>2, <2>6
<1>3. OnlySignalled => stage = "open" /\ override.kind = "none"
  BY DEF OnlySignalled, ending, InStep, Finalized
<1>4. parentAlive
  BY DEF InStep, RunNext, vars, callerVars, Execute, MakeTempCwd, LaunchFails, Fork, SendSdk,
         SendArtifact, SendBootstrap, BootstrapKill, Abandon, AwaitSupervised, Decide, CallerAborts,
         ParentDies, Deliver, Reap, Sweep, SupervisorStep, Arm, FailSafe, EnterPhase, ReportBackend,
         PhaseSucceeds, PhaseFails, CleanupFails, Disconnect, ExitNormally, Crash, RootTerminated,
         RootKilled, RootEnds, WorkerStarts, WorkerDies
<1> QED  BY <1>1, <1>2, <1>3, <1>4 DEF SupervisorMoves, InStep, Finalized

LEMMA InitChannelInv == RunInit => ChannelInv
<1> SUFFICES ASSUME RunInit PROVE ChannelInv
  OBVIOUS
<1>1. RunTypeOK
  BY InitRunType
<1>2. /\ HeardPlace = [phase |-> QvacImport, open |-> None, shown |-> FALSE, failed |-> FALSE,
                       ended |-> FALSE, count |-> 0]
      /\ SaidPlace = HeardPlace /\ channel = <<>> /\ ShownInTime
  <2>1. (openPhase = Inference /\ backend # NoBackend) = FALSE /\ (firstFailure # None) = FALSE
        /\ lifecycleTerminal = FALSE /\ expectedPhase = QvacImport /\ openPhase = None /\ nextSequence = 0
        /\ backend = NoBackend
    BY DEF RunInit, SupervisorInit
  <2>2. Over = FALSE /\ (childPc = "reported") = FALSE /\ workloadFailed = FALSE
        /\ activePhase = QvacImport /\ childSequence = 0
        /\ (IF childPc \in {"work", "reported"} THEN activePhase ELSE None) = None
    BY DEF RunInit, Over
  <2>3. HeardPlace = [phase |-> QvacImport, open |-> None, shown |-> FALSE, failed |-> FALSE,
                      ended |-> FALSE, count |-> 0]
    BY <2>1, Zenon DEF HeardPlace
  <2>4. SaidPlace = HeardPlace
    BY <2>2, <2>3, Zenon DEF SaidPlace
  <2> QED  BY <2>1, <2>3, <2>4 DEF RunInit, ShownInTime
<1>3. HeardPlace \in Place
  BY <1>1, <1>2, SaidType
<1>4. Budgeted(HeardPlace)
  BY <1>2 DEF Budgeted, QvacImport, None, Inference
<1> QED  BY <1>2, <1>3, <1>4, LinkedNone DEF ChannelInv

LEMMA NextChannelInv ==
  SupervisorInv /\ RunTypeOK /\ GroupInv /\ ChildInv /\ ChannelInv /\ [RunNext]_vars => ChannelInv'
<1> SUFFICES ASSUME SupervisorInv, RunTypeOK, GroupInv, ChildInv, ChannelInv, [RunNext]_vars, InStep'
             PROVE  ChannelInv'
  BY DEF ChannelInv
<1>1. InStep /\ parentAlive' /\ ~Finalized' /\ override.kind = "none" /\ ~Finalized
  BY InStepBefore DEF InStep
<1>2. TypeInv /\ HeardPlace \in Place /\ SaidPlace \in Place /\ channel \in Seq(ChildMessage)
  BY HeardType, SaidType DEF SupervisorInv, RunTypeOK
<1>3. Budgeted(HeardPlace) /\ ShownInTime /\ Linked(HeardPlace, SaidPlace, channel)
  BY <1>1 DEF ChannelInv
<1>4. CASE Deliver
  <2> PICK m \in ChildMessage : m = Head(channel) /\ channel # <<>> /\ OnMessage(m)
    BY <1>2, <1>4 DEF Deliver
  <2>1. /\ Legal(HeardPlace, m) /\ After(HeardPlace, m) \in Place
        /\ Linked(After(HeardPlace, m), SaidPlace, Tail(channel))
    BY <1>2, <1>3, LinkedTail
  <2>2. channel' = Tail(channel) /\ SaidPlace' = SaidPlace
    BY <1>4 DEF Deliver, childVars, SaidPlace, Over
  <2>3. ~Deaf
    BY <1>1 DEF Deaf, Listening, GroupInv, SupervisorInv, WatchInv, DisposedUnattached
  <2>4. ~RejectMessage(m)
    BY DEF RejectMessage, InStep
  <2>5. AcceptStart(m) \/ AcceptBackend(m) \/ AcceptEnd(m)
    BY <2>3, <2>4 DEF OnMessage, IgnoreMessage
  <2>6. HeardPlace' = After(HeardPlace, m) /\ ShownInTime'
    BY <1>2, <1>3, <2>5, AcceptedPlace
  <2>7. Budgeted(After(HeardPlace, m))
    BY <1>2, <1>3, <2>1, BudgetStep
  <2>8. Linked(HeardPlace', SaidPlace', channel') /\ Budgeted(HeardPlace')
    BY <2>1, <2>2, <2>6, <2>7
  <2> QED  BY <2>6, <2>8 DEF ChannelInv
<1>5. CASE ~Deliver
  <2>1. UNCHANGED lifecycle
    BY <1>1, <1>5, HeardSteps
  <2>2. HeardPlace' = HeardPlace /\ ShownInTime'
    BY <1>3, <2>1 DEF lifecycle, HeardPlace, ShownInTime
  <2>3. CASE UNCHANGED <<channel, SaidPlace>>
    <3>1. Linked(HeardPlace', SaidPlace', channel') /\ Budgeted(HeardPlace')
      BY <1>3, <2>2, <2>3
    <3> QED  BY <2>2, <3>1 DEF ChannelInv
  <2>4. ASSUME NEW m \in ChildMessage, Legal(SaidPlace, m), SaidPlace' = After(SaidPlace, m),
               channel' = Append(channel, m)
        PROVE  ChannelInv'
    <3>1. Linked(HeardPlace, After(SaidPlace, m), Append(channel, m))
      BY <1>2, <1>3, <2>4, LinkedAppend
    <3>2. Linked(HeardPlace', SaidPlace', channel') /\ Budgeted(HeardPlace')
      BY <1>3, <2>2, <2>4, <3>1
    <3> QED  BY <2>2, <3>2 DEF ChannelInv
  <2> QED  BY <1>1, <1>5, <2>3, <2>4, PlaceSteps
<1> QED  BY <1>4, <1>5

(* A supervisor that finalizes records nothing but the end of the group.   *)
LEMMA FinalizedLeaves ==
  ASSUME SupervisorInv, SupervisorMoves, Finalized
  PROVE  UNCHANGED <<expectedPhase, openPhase, lifecycleTerminal, nextSequence, override, exit>>
<1>1. timers = {} /\ ~Listening /\ attached
  BY DEF SupervisorInv, WatchInv, TimersWhileListening, FinalizedAttached, Listening
<1> USE DEF lifecycle, ending, supervisorVars
<1>2. OnlySignalled \/ UNCHANGED supervisorVars =>
        UNCHANGED <<expectedPhase, openPhase, lifecycleTerminal, nextSequence, override, exit>>
  BY DEF OnlySignalled
<1>3. ~Attach /\ ~Abort /\ ~DisposeAfterLaunchFailure /\ ~KillTimer /\ ~SettleTimer
  BY <1>1 DEF Attach, Abort, DisposeAfterLaunchFailure, KillTimer, SettleTimer
<1>4. ASSUME NEW m, OnMessage(m) PROVE UNCHANGED supervisorVars
  BY <1>1, <1>4 DEF OnMessage, IgnoreMessage, RejectMessage, AcceptStart, AcceptBackend,
                    AcceptEnd, Deaf
<1>5. (\A timer : ~Timeout(timer)) /\ (\A e : ~Finalize(e))
  BY <1>1 DEF Timeout, Finalize
<1>6. ASSUME SweepKill \/ \E survivors : SweepDone(survivors)
      PROVE  UNCHANGED <<expectedPhase, openPhase, lifecycleTerminal, nextSequence, override, exit>>
  BY <1>6 DEF SweepKill, SweepDone
<1> QED  BY <1>2, <1>3, <1>4, <1>5, <1>6
         DEF SupervisorMoves, Next, PhaseTimer, OverallTimer, OnExit

(***************************************************************************)
(* Of a root that was reaped in step, the supervisor knows how far it got. *)
(***************************************************************************)
LEMMA InitReapedInStep == RunInit => ReapedInStep
  BY DEF RunInit, SupervisorInit, ReapedInStep

LEMMA NextReapedInStep ==
  SupervisorInv /\ RunTypeOK /\ GroupInv /\ ChildInv /\ ChannelInv /\ ReapedInStep /\ [RunNext]_vars
    => ReapedInStep'
<1> SUFFICES ASSUME SupervisorInv, RunTypeOK, GroupInv, ChildInv, ChannelInv, ReapedInStep,
                    [RunNext]_vars, exit' # NoExit, override'.kind = "none",
                    nextSequence' = childSequence'
             PROVE  expectedPhase' = activePhase' /\ (lifecycleTerminal' <=> Over')
  BY DEF ReapedInStep
<1>1. SupervisorMoves
  BY RunMovesSupervisor DEF SupervisorInv
<1>2. CASE Reap /\ ~Finalized
  <2>1. /\ UNCHANGED <<override, expectedPhase, lifecycleTerminal, nextSequence, activePhase,
                       childPc, childSequence>>
        /\ parentAlive
    BY <1>2 DEF Reap, OnExit, Finalize, lifecycle, childVars
  <2>2. InStep
    BY <1>2, <2>1 DEF InStep
  <2>3. Linked(HeardPlace, SaidPlace, channel) /\ HeardPlace.count = SaidPlace.count
    BY <2>1, <2>2, HeardFields, SaidFields DEF ChannelInv
  <2>4. HeardPlace \in Place /\ SaidPlace \in Place /\ channel \in Seq(ChildMessage)
    BY HeardType, SaidType DEF SupervisorInv, RunTypeOK
  <2>5. HeardPlace = SaidPlace
    BY <2>3, <2>4, LinkedEqual
  <2>6. expectedPhase = activePhase /\ (lifecycleTerminal <=> Over)
    BY <2>5, HeardFields, SaidFields
  <2> QED  BY <2>1, <2>6 DEF Over
<1>3. CASE Finalized
  <2>1. UNCHANGED <<expectedPhase, lifecycleTerminal, nextSequence, override, exit>>
    BY <1>1, <1>3, FinalizedLeaves
  <2>2. exit # NoExit /\ root = "reaped"
    BY <2>1 DEF GroupInv
  <2>3. UNCHANGED <<childPc, activePhase, childSequence>>
    BY <2>2, ReapedStands
  <2> QED  BY <2>1, <2>2, <2>3 DEF ReapedInStep, Over
<1>4. CASE ~Finalized /\ ~Reap
  <2>1. exit = NoExit
    BY <1>4 DEF GroupInv, Finalized
  <2>2. exit' = NoExit
    <3>1. CASE OnlySignalled \/ UNCHANGED supervisorVars
      BY <2>1, <3>1 DEF OnlySignalled, supervisorVars, ending
    <3>2. CASE UNCHANGED ending
      BY <2>1, <3>2 DEF ending
    <3>3. CASE Sweep \/ SupervisorStep(SettleTimer)
      BY <1>4, <2>1, <3>3 DEF Sweep, SupervisorStep, SettleTimer, Finalize, SweepKill, SweepDone
    <3>4. CASE SupervisorStep(PhaseTimer) \/ SupervisorStep(OverallTimer) \/ SupervisorStep(KillTimer)
      BY <3>2, <3>4, TimerLeaves DEF SupervisorStep
    <3>5. CASE Deliver
      BY <3>2, <3>5, MessageLeaves DEF Deliver
    <3>6. CASE Execute \/ MakeTempCwd \/ LaunchFails \/ Fork \/ SendSdk \/ SendArtifact
               \/ BootstrapKill \/ Abandon \/ AwaitSupervised \/ Decide \/ CallerAborts \/ ParentDies
      BY <3>1, <3>2, <3>6
      DEF Execute, MakeTempCwd, LaunchFails, DisposeAfterLaunchFailure, Fork, Attach, SendSdk,
          SendArtifact, SendBootstrap, BootstrapKill, Abandon, Abort, AwaitSupervised, Decide,
          CallerAborts, ParentDies
    <3>7. CASE Arm \/ FailSafe \/ EnterPhase \/ ReportBackend \/ PhaseSucceeds \/ PhaseFails
               \/ CleanupFails \/ Disconnect
      BY <3>1, <3>7 DEF Arm, FailSafe, EnterPhase, ReportBackend, PhaseSucceeds, PhaseFails,
                        CleanupFails, Disconnect
    <3>8. CASE ExitNormally \/ Crash \/ RootTerminated \/ RootKilled \/ WorkerStarts \/ WorkerDies
      BY <3>1, <3>8 DEF ExitNormally, Crash, RootTerminated, RootKilled, RootEnds, WorkerStarts,
                        WorkerDies
    <3>9. CASE UNCHANGED vars
      BY <3>1, <3>9 DEF vars
    <3> QED  BY <1>4, <3>3, <3>4, <3>5, <3>6, <3>7, <3>8, <3>9 DEF RunNext
  <2> QED  BY <2>2
<1> QED  BY <1>2, <1>3, <1>4

(***************************************************************************)
(* A verdict tells what happened.  `Blamed' is what a failed one says of   *)
(* the phase it names and of the way the root ended.                       *)
(***************************************************************************)
Blamed(p, category) ==
  /\ p \in Phase /\ 1 .. p - 1 \subseteq succeeded
  /\ category \in {"timeout", "worker-crash", "native-runtime", "workload-failed"}
  /\ category # "timeout" => override.kind = "none"
  /\ category = "worker-crash" => exit.signal # NoSignal
  /\ category \in {"native-runtime", "workload-failed"} =>
       exit.signal = NoSignal /\ (exit.code = 0 => workloadFailed)
  /\ category # "timeout" /\ exit # NoExit /\ nextSequence = childSequence => p \notin succeeded

VerdictTrue ==
  completion = "resolved" =>
    /\ Report.result.workload_status = "passed" => succeeded = Phase /\ exit = ExitBy(0, NoSignal)
    /\ Report.result.workload_status = "failed" =>
         Blamed(Report.result.failure.phase, Report.result.failure.category)

LEMMA ResultIsReported ==
  ASSUME TypeInv, GrammarInv, FailureInv, CauseInv, stage = "sweeping"
  PROVE  Adapt(Events(Verdict)).result = Result
<1>1. PICK k \in 0 .. CleanShutdown, s \in Status : Cut(k, s)
  BY CutExists
<1>2. Result.type = "result"
  BY DEF Result, TimeoutResult, ExitResult, SignalResult, Inconclusive, Failed, ResultEvent,
         TypeInv, TypeOK, Override
<1> QED  BY <1>1, <1>2, VerdictShape

LEMMA ResultIsTrue ==
  ASSUME SupervisorInv, RunTypeOK, GroupInv, ChildInv, TruthInv, ReapedInStep, stage = "sweeping"
  PROVE  /\ Result.workload_status = "passed" => succeeded = Phase /\ exit = ExitBy(0, NoSignal)
         /\ Result.workload_status = "failed" =>
              Blamed(Result.failure.phase, Result.failure.category)
<1>1. /\ Result.workload_status = "passed" => \A p \in Phase : Told(p)
      /\ Result.workload_status = "failed" =>
           LET p == Result.failure.phase IN
             /\ p \in Phase
             /\ \A q \in 1 .. p - 1 : Told(q)
             /\ firstFailure # None => p = firstFailure
             /\ firstFailure = None => /\ p = expectedPhase /\ ~lifecycleTerminal
                                       /\ override.kind = "none" => exit.code # 0
  BY VerdictFacts DEF SupervisorInv
<1>2. \A p \in Phase : Told(p) => p \in succeeded
  BY DEF TruthInv
<1>3. Result.workload_status = "passed" => succeeded = Phase /\ exit = ExitBy(0, NoSignal)
  BY <1>1, <1>2, PassedResult DEF RunTypeOK, SupervisorInv, TypeInv
<1>4. ASSUME Result.workload_status = "failed"
      PROVE  Blamed(Result.failure.phase, Result.failure.category)
  <2> PICK p \in Phase : p = Result.failure.phase
    BY <1>1, <1>4
  <2> PICK category : category = Result.failure.category
    OBVIOUS
  <2>1. \A q \in 1 .. p - 1 : q \in succeeded
    BY <1>1, <1>2, <1>4 DEF Phase, QvacImport, CleanShutdown
  <2>2. \/ category = "timeout" /\ override.kind = "timeout"
        \/ category = "worker-crash" /\ override.kind = "none" /\ exit.signal # NoSignal
        \/ category \in {"native-runtime", "workload-failed"} /\ override.kind = "none"
             /\ exit.signal = NoSignal
    BY <1>4, FailedCategory DEF SupervisorInv
  <2>3. firstFailure # None => p = firstFailure /\ FailedReally(p)
    BY <1>1, <1>4 DEF TruthInv
  <2>4. firstFailure = None =>
          p = expectedPhase /\ ~lifecycleTerminal /\ (override.kind = "none" => exit.code # 0)
    BY <1>1, <1>4
  <2>5. category \in {"native-runtime", "workload-failed"} /\ exit.code = 0 => workloadFailed
    BY <2>2, <2>3, <2>4 DEF FailedReally
  <2>6. category # "timeout" /\ exit # NoExit /\ nextSequence = childSequence => p \notin succeeded
    <3> SUFFICES ASSUME override.kind = "none", exit # NoExit, nextSequence = childSequence
                 PROVE  p \notin succeeded
      BY <2>2
    <3>1. CASE firstFailure # None
      BY <2>3, <3>1 DEF FailedReally
    <3>2. CASE firstFailure = None
      <4>1. p = activePhase /\ ~Over
        BY <2>4, <3>2 DEF ReapedInStep
      <4> QED  BY <4>1, ActiveNotDone
    <3> QED  BY <3>1, <3>2
  <2> QED  BY <2>1, <2>2, <2>5, <2>6 DEF Blamed
<1> QED  BY <1>3, <1>4

LEMMA ResolvedIsReaped ==
  ASSUME SupervisorInv, RunTypeOK, GroupInv, completion = "resolved"
  PROVE  root = "reaped" /\ stage = "settled" /\ attached
  BY DEF SupervisorInv, WatchInv, FinalizedAttached, Finalized, GroupInv, GroupEmpty, RunTypeOK

LEMMA OnlySweepSettles == ASSUME [RunNext]_vars, completion' # completion  PROVE Sweep
<1> USE DEF vars, supervisorVars, ending
<1>1. ~(Execute \/ MakeTempCwd \/ LaunchFails \/ Fork \/ SendSdk \/ SendArtifact \/ BootstrapKill
         \/ Abandon \/ AwaitSupervised \/ Decide \/ CallerAborts \/ ParentDies)
  BY DEF Execute, MakeTempCwd, LaunchFails, DisposeAfterLaunchFailure, Fork, Attach, SendSdk,
         SendArtifact, SendBootstrap, BootstrapKill, Abandon, Abort, AwaitSupervised, Decide,
         CallerAborts, ParentDies
<1>2. ~Deliver
  BY MessageLeaves DEF Deliver
<1>3. ~(SupervisorStep(PhaseTimer) \/ SupervisorStep(OverallTimer) \/ SupervisorStep(KillTimer))
  BY TimerLeaves DEF SupervisorStep
<1>4. ~(Reap \/ SupervisorStep(SettleTimer))
  BY DEF Reap, OnExit, SupervisorStep, SettleTimer, Finalize
<1>5. ~(Arm \/ FailSafe \/ EnterPhase \/ ReportBackend \/ PhaseSucceeds \/ PhaseFails
         \/ CleanupFails \/ Disconnect)
  BY DEF Arm, FailSafe, EnterPhase, ReportBackend, PhaseSucceeds, PhaseFails, CleanupFails,
         Disconnect
<1>6. ~(ExitNormally \/ Crash \/ RootTerminated \/ RootKilled \/ WorkerStarts \/ WorkerDies)
  BY DEF ExitNormally, Crash, RootTerminated, RootKilled, RootEnds, WorkerStarts, WorkerDies
<1> QED  BY <1>1, <1>2, <1>3, <1>4, <1>5, <1>6 DEF RunNext

LEMMA InitVerdictTrue == RunInit => VerdictTrue
  BY DEF RunInit, SupervisorInit, VerdictTrue

LEMMA NextVerdictTrue ==
  SupervisorInv /\ RunTypeOK /\ GroupInv /\ ChildInv /\ TruthInv /\ ReapedInStep /\ VerdictTrue
    /\ [RunNext]_vars => VerdictTrue'
<1> SUFFICES ASSUME SupervisorInv, RunTypeOK, GroupInv, ChildInv, TruthInv, ReapedInStep, VerdictTrue,
                    [RunNext]_vars, completion' = "resolved"
             PROVE  VerdictTrue'
  BY DEF VerdictTrue
<1>1. SupervisorMoves
  BY RunMovesSupervisor DEF SupervisorInv
<1>2. CASE completion = "resolved"
  <2>1. root = "reaped" /\ stage = "settled"
    BY <1>2, ResolvedIsReaped
  <2>2. UNCHANGED <<verdict, override, exit, nextSequence, completion>>
    BY <1>1, <2>1, SettledMoves DEF lifecycle, ending
  <2>3. UNCHANGED <<succeeded, workloadFailed, childSequence>>
    BY <2>1, ReapedStands
  <2> QED  BY <2>2, <2>3 DEF VerdictTrue, Blamed, Report
<1>3. CASE completion # "resolved"
  <2>1. [Next]_supervisorVars
    BY <1>1, <1>3 DEF SupervisorMoves, OnlySignalled, ending
  <2>2. SweepDone(FALSE) /\ verdict' = Verdict
        /\ UNCHANGED <<override, exit, nextSequence, expectedPhase, lifecycleTerminal>>
    BY <1>3, <2>1, ResolvedBySweep DEF SweepDone
  <2>3. stage = "sweeping"
    BY <2>2 DEF SweepDone
  <2>4. Report' = Adapt(Events(Verdict))
    BY <2>2 DEF Report
  <2>5. Report'.result = Result
    BY <2>3, <2>4, ResultIsReported DEF SupervisorInv
  <2>6. UNCHANGED <<succeeded, workloadFailed, childSequence>>
    BY <1>3, OnlySweepSettles DEF Sweep, SupervisorStep, childVars
  <2> PICK r : r = Result /\ Report'.result = r
    BY <2>5
  <2>7. /\ r.workload_status = "passed" => succeeded = Phase /\ exit = ExitBy(0, NoSignal)
        /\ r.workload_status = "failed" => Blamed(r.failure.phase, r.failure.category)
    BY <2>3, ResultIsTrue
  <2>8. (r.workload_status = "failed" => Blamed(r.failure.phase, r.failure.category))'
    BY <2>2, <2>6, <2>7 DEF Blamed
  <2> QED  BY <2>2, <2>6, <2>7, <2>8 DEF VerdictTrue, Blamed
<1> QED  BY <1>2, <1>3

(***************************************************************************)
(* The invariant of a run, and what follows from it.                       *)
(***************************************************************************)
RunInv ==
  SupervisorInv /\ RunTypeOK /\ GroupInv /\ ExecutorInv /\ ChildInv /\ TruthInv /\ ChannelInv
    /\ ReapedInStep /\ VerdictTrue

LEMMA InitRunInv == RunInit => RunInv
<1>1. RunInit => Init
  BY DEF RunInit, Init
<1> QED
  BY <1>1, InitSupervisorInv, InitRunType, InitGroupInv, InitExecutorInv, InitChildInv, InitTruthInv,
     InitChannelInv, InitReapedInStep, InitVerdictTrue DEF RunInv

LEMMA NextRunInv == RunInv /\ [RunNext]_vars => RunInv'
<1> SUFFICES ASSUME RunInv, [RunNext]_vars PROVE RunInv'
  OBVIOUS
<1> USE DEF RunInv
<1>1. SupervisorInv'
  BY RunMovesSupervisor, MovesKeepInv DEF SupervisorInv
<1>2. RunTypeOK' /\ GroupInv' /\ ExecutorInv' /\ ChildInv' /\ TruthInv'
  BY NextRunType, NextGroupInv, NextExecutorInv, NextChildInv, NextTruthInv
<1>3. ChannelInv' /\ ReapedInStep' /\ VerdictTrue'
  BY NextChannelInv, NextReapedInStep, NextVerdictTrue
<1> QED  BY <1>1, <1>2, <1>3

LEMMA RunInvInvariant == RunSpec => []RunInv
  BY InitRunInv, NextRunInv, PTL DEF RunSpec

(* The type of every variable of a run, and that a root that ended ended   *)
(* somehow (executor.ts, child-runner.ts).                                 *)
THEOREM RunTypes == RunSpec => []RunTypeOK
<1>1. RunInv => RunTypeOK
  BY DEF RunInv
<1> QED  BY <1>1, RunInvInvariant, PTL

(* Whatever the coordinator hands on as executed is evidence the V1        *)
(* contract admits, for an abort at any moment: the verdict of an aborted  *)
(* run never gets that far (the check of the signal after execute()).      *)
THEOREM ExecutedEvidenceAdmitted == RunSpec => []ExecutedIsAdmitted
<1>1. RunInv => ExecutedIsAdmitted
  BY DEF RunInv, ExecutorInv, ExecutedIsAdmitted, Report, SupervisorInv, VerdictInv, ContractHonoured
<1> QED  BY <1>1, RunInvInvariant, PTL

(* The temporary cwd is removed from under no process: the finally block   *)
(* of execute() runs after the group is known to be empty, or after        *)
(* nothing was spawned, or when cleaning up has failed.                    *)
THEOREM CwdIsNotPulledAway == RunSpec => []CwdOutlivesChild
<1>1. RunInv => CwdOutlivesChild
  <2> SUFFICES ASSUME RunInv, tempCwd = "removed", completion # "rejected"
               PROVE  GroupEmpty
    BY DEF CwdOutlivesChild
  <2>1. raw \in {"not-started", "error", "events"}
    BY DEF RunInv, ExecutorInv, RunTypeOK
  <2>2. ~attached \/ completion = "resolved"
    BY <2>1 DEF RunInv, ExecutorInv
  <2> QED  BY <2>2 DEF RunInv, GroupInv, GroupEmpty
<1> QED  BY <1>1, RunInvInvariant, PTL

(* What a run was executed for, its verdict: the root left by itself or    *)
(* something overrode its exit, since no abort went before.                *)
LEMMA ExecutedFacts ==
  ASSUME RunInv, outcome = "executed"
  PROVE  /\ completion = "resolved" /\ ~abortRequested /\ root = "reaped" /\ attached
         /\ override.kind = "none" => exit # NoExit /\ exit = rootExit
<1>1. completion = "resolved" /\ ~abortRequested
  BY DEF RunInv, ExecutorInv
<1>2. root = "reaped" /\ stage = "settled" /\ attached
  BY <1>1, ResolvedIsReaped DEF RunInv
<1>3. override.kind = "none" => exit # NoExit
  BY <1>1, <1>2 DEF RunInv, SupervisorInv, CauseInv, Finalized
<1> QED  BY <1>1, <1>2, <1>3 DEF RunInv, GroupInv

(* What is claimed of a run did happen in the child: a workload reported   *)
(* as passed passed all five phases and its root left with 0; and no       *)
(* observed failure is claimed of a run that succeeded unless it was late  *)
(* for its deadline (supervisor.ts with child-runner.ts and evidence.js).  *)
THEOREM ClaimsAreReal == RunSpec => []ClaimIsReal
<1>1. ASSUME RunInv, outcome = "executed"
      PROVE  /\ Report.result.workload_status = "passed" => Succeeded
             /\ ReportClaim(Report) = "observed-failure" =>
                  ~Succeeded \/ Report.result.failure.category = "timeout"
  <2> PICK r : r = Report.result
    OBVIOUS
  <2>1. /\ completion = "resolved" /\ override.kind = "none" => exit # NoExit /\ exit = rootExit
        /\ completion = "resolved"
    BY <1>1, ExecutedFacts
  <2>2. /\ r.workload_status = "passed" => succeeded = Phase /\ exit = ExitBy(0, NoSignal)
        /\ r.workload_status = "failed" => Blamed(r.failure.phase, r.failure.category)
    BY <1>1, <2>1 DEF RunInv, VerdictTrue
  <2>3. ASSUME r.workload_status = "passed" PROVE Succeeded
    <3>1. exit = rootExit
      BY <1>1, <2>2, <2>3 DEF RunInv, GroupInv, ExitBy, NoExit, NoCode
    <3>2. ~workloadFailed
      BY <1>1, <2>2, <2>3 DEF RunInv, ChildInv, ChildAtFrontier, Frontier, Phase, QvacImport,
                              CleanShutdown, Beyond
    <3> QED  BY <2>2, <2>3, <3>1, <3>2 DEF Succeeded
  <2>4. ASSUME ReportClaim(Report) = "observed-failure", Succeeded, r.failure.category # "timeout"
        PROVE  FALSE
    <3>1. FailureEligible(Report)
      BY <2>4 DEF ReportClaim
    <3>2. r.workload_status = "failed"
      BY <3>1 DEF FailureEligible, FailureLifecycle
    <3>3. Blamed(r.failure.phase, r.failure.category)
      BY <2>2, <3>2
    <3>4. override.kind = "none" /\ exit = ExitBy(0, NoSignal)
      BY <2>1, <2>4, <3>3 DEF Blamed, Succeeded
    <3>5. exit.signal = NoSignal /\ exit.code = 0
      BY <3>4 DEF ExitBy
    <3>6. r.failure.category \in {"native-runtime", "workload-failed"}
      BY <2>4, <3>3, <3>5 DEF Blamed
    <3> QED  BY <2>4, <3>3, <3>5, <3>6 DEF Blamed, Succeeded
  <2> QED  BY <2>3, <2>4
<1>2. RunInv => ClaimIsReal
  BY <1>1 DEF ClaimIsReal
<1> QED  BY <1>2, RunInvInvariant, PTL

(* A defined failure names a phase the child had reached; and one that is  *)
(* not a timeout the first phase it did not complete, if every message was *)
(* read before the exit (#ensureTerminalPhase against child-runner.ts).    *)
THEOREM FailuresNameFrontier == RunSpec => []FailureNamesFrontier
<1>1. ASSUME RunInv, outcome = "executed", Report.result.workload_status = "failed"
      PROVE  LET p == Report.result.failure.phase IN
               /\ p <= CompletedPhases + 1
               /\ nextSequence = childSequence /\ Report.result.failure.category # "timeout" =>
                    p = CompletedPhases + 1
  <2> PICK p, category : p = Report.result.failure.phase /\ category = Report.result.failure.category
    OBVIOUS
  <2>1. completion = "resolved" /\ (override.kind = "none" => exit # NoExit)
    BY <1>1, ExecutedFacts
  <2>2. Blamed(p, category)
    BY <1>1, <2>1 DEF RunInv, VerdictTrue
  <2>3. PICK f \in Phase \cup {Beyond} : Frontier(f)
    BY <1>1 DEF RunInv, ChildInv, ChildAtFrontier
  <2>4. CompletedPhases = f - 1
    BY <2>3, FrontierCounts
  <2>5. p <= f
    BY <2>2, <2>3 DEF Blamed, Frontier, Phase, QvacImport, CleanShutdown, Beyond
  <2>6. p \notin succeeded => p = f
    BY <2>2, <2>3 DEF Blamed, Frontier, Phase, QvacImport, CleanShutdown, Beyond
  <2>7. nextSequence = childSequence /\ category # "timeout" => p \notin succeeded
    BY <2>1, <2>2 DEF Blamed
  <2>8. f \in Int /\ p \in Int
    BY <2>2 DEF Blamed, Phase, QvacImport, CleanShutdown, Beyond
  <2> QED  BY <2>4, <2>5, <2>6, <2>7, <2>8
<1>2. RunInv => FailureNamesFrontier
  BY <1>1 DEF FailureNamesFrontier
<1> QED  BY <1>2, RunInvInvariant, PTL

(* The message that is read is a legal one, and there is room for it.      *)
LEMMA HonestStep ==
  ASSUME MaxEvents >= 11, RunInv, HonestRunnerAccepted, [RunNext]_vars
  PROVE  HonestRunnerAccepted'
<1>1. CASE Deliver /\ ~Deaf
  <2>1. InStep /\ channel # <<>> /\ channel \in Seq(ChildMessage)
    BY <1>1 DEF Deliver, Deaf, Listening, InStep, RunInv, RunTypeOK
  <2>2. HeardPlace \in Place /\ SaidPlace \in Place
    BY HeardType, SaidType DEF RunInv, SupervisorInv
  <2> PICK m \in ChildMessage : m = Head(channel) /\ OnMessage(m)
    BY <1>1, <2>1 DEF Deliver
  <2>3. Legal(HeardPlace, m) /\ Budgeted(HeardPlace)
    BY <2>1, <2>2, LinkedTail DEF RunInv, ChannelInv
  <2>4. nextSequence <= 2 * CleanShutdown /\ nextSequence \in Nat
    BY <2>2, <2>3, BudgetRoom, HeardFields DEF Legal, Place
  <2>5. nextSequence < MaxEvents
    BY <2>4, MaxEventsAssumption DEF CleanShutdown
  <2>6. Acceptable(m)
    BY <2>3, <2>5, LegalAcceptable DEF RunInv, SupervisorInv
  <2> QED
    BY <1>1, <2>6 DEF OnMessage, IgnoreMessage, RejectMessage, AcceptStart, AcceptBackend, AcceptEnd,
                      HonestRunnerAccepted
<1>2. CASE Deliver /\ Deaf
  <2>1. UNCHANGED supervisorVars
    BY <1>2 DEF Deliver, OnMessage, IgnoreMessage, RejectMessage, AcceptStart, AcceptBackend, AcceptEnd
  <2> QED  BY <2>1 DEF supervisorVars, HonestRunnerAccepted
<1> USE DEF HonestRunnerAccepted, supervisorVars
<1>3. CASE Execute \/ MakeTempCwd \/ LaunchFails \/ Fork \/ SendSdk \/ SendArtifact \/ BootstrapKill
              \/ Abandon \/ AwaitSupervised \/ Decide \/ CallerAborts \/ ParentDies
  BY <1>3 DEF Execute, MakeTempCwd, LaunchFails, DisposeAfterLaunchFailure, Fork, Attach, SendSdk,
         SendArtifact, SendBootstrap, BootstrapKill, Abandon, Abort, AwaitSupervised, Decide,
         CallerAborts, ParentDies
<1>4. CASE SupervisorStep(PhaseTimer) \/ SupervisorStep(OverallTimer) \/ SupervisorStep(KillTimer)
  BY <1>4 DEF SupervisorStep, PhaseTimer, OverallTimer, Timeout, KillTimer
<1>5. CASE Reap \/ SupervisorStep(SettleTimer) \/ Sweep
  BY <1>5 DEF Reap, OnExit, Sweep, SupervisorStep, SettleTimer, Finalize, SweepKill, SweepDone
<1>6. CASE Arm \/ FailSafe \/ EnterPhase \/ ReportBackend \/ PhaseSucceeds \/ PhaseFails
         \/ CleanupFails \/ Disconnect
  BY <1>6 DEF Arm, FailSafe, EnterPhase, ReportBackend, PhaseSucceeds, PhaseFails, CleanupFails,
         Disconnect
<1>7. CASE ExitNormally \/ Crash \/ RootTerminated \/ RootKilled \/ WorkerStarts \/ WorkerDies
  BY <1>7 DEF ExitNormally, Crash, RootTerminated, RootKilled, RootEnds, WorkerStarts, WorkerDies
<1>8. CASE UNCHANGED vars
  BY <1>8 DEF vars
<1> QED  BY <1>1, <1>2, <1>3, <1>4, <1>5, <1>6, <1>7, <1>8 DEF RunNext

(* The shipped runner never trips the protocol check, in any failure path  *)
(* and however late its messages are read, if the budget of events is 11   *)
(* or more; the code's is 16 (#onMessage against child-runner.ts).         *)
THEOREM RunnerKeepsProtocol ==
  ASSUME MaxEvents >= 11  PROVE RunSpec => []HonestRunnerAccepted
<1>1. RunInit => HonestRunnerAccepted
  BY DEF RunInit, SupervisorInit, NoOverride, HonestRunnerAccepted
<1>2. RunInv /\ HonestRunnerAccepted /\ [RunNext]_vars => HonestRunnerAccepted'
  BY HonestStep
<1> QED  BY <1>1, <1>2, RunInvInvariant, PTL DEF RunSpec

(***************************************************************************)
(* A run implements the contained run.  Only a fork begins, only a phase   *)
(* that succeeds advances, and only the decision concludes.                *)
(***************************************************************************)
LEMMA GroupMoves ==
  ASSUME GroupInv, [RunNext]_vars, ~Fork, ~Reap, ~WorkerDies
  PROVE  (root' = "none" <=> root = "none") /\ (GroupEmpty' <=> GroupEmpty)
<1> USE DEF GroupEmpty, groupVars
<1>1. CASE Execute \/ MakeTempCwd \/ LaunchFails \/ SendSdk \/ SendArtifact \/ BootstrapKill
              \/ Abandon \/ AwaitSupervised \/ Decide \/ CallerAborts \/ ParentDies
  BY <1>1 DEF Execute, MakeTempCwd, LaunchFails, SendSdk, SendArtifact, SendBootstrap, BootstrapKill,
              Abandon, AwaitSupervised, Decide, CallerAborts, ParentDies
<1>2. CASE Deliver \/ Sweep \/ SupervisorStep(PhaseTimer) \/ SupervisorStep(OverallTimer)
             \/ SupervisorStep(KillTimer) \/ SupervisorStep(SettleTimer)
  BY <1>2 DEF Deliver, Sweep, SupervisorStep
<1>3. CASE Arm \/ FailSafe \/ EnterPhase \/ ReportBackend \/ PhaseSucceeds \/ PhaseFails
              \/ CleanupFails \/ Disconnect
  BY <1>3 DEF Arm, FailSafe, KillGroup, EnterPhase, ReportBackend, PhaseSucceeds, PhaseFails,
              CleanupFails, Disconnect, ChildAt
<1>4. CASE ExitNormally \/ Crash \/ RootTerminated \/ RootKilled \/ WorkerStarts
  BY <1>4 DEF ExitNormally, Crash, RootTerminated, RootKilled, RootEnds, WorkerStarts, ChildAt
<1>5. CASE UNCHANGED vars
  BY <1>5 DEF vars
<1> QED  BY <1>1, <1>2, <1>3, <1>4, <1>5 DEF RunNext

LEMMA SuccessMoves ==
  ASSUME [RunNext]_vars, ~PhaseSucceeds  PROVE CompletedPhases' = CompletedPhases
<1>1. succeeded' = succeeded
  BY DEF RunNext, vars, childVars, Execute, MakeTempCwd, LaunchFails, Fork, SendSdk, SendArtifact,
         SendBootstrap, BootstrapKill, Abandon, AwaitSupervised, Decide, CallerAborts, ParentDies,
         Deliver, Reap, Sweep, SupervisorStep, Arm, FailSafe, EnterPhase, ReportBackend,
         PhaseFails, CleanupFails, Disconnect, ExitNormally, Crash, RootTerminated,
         RootKilled, RootEnds, WorkerStarts, WorkerDies
<1> QED  BY <1>1 DEF CompletedPhases

LEMMA SuccessAdvances ==
  ASSUME RunTypeOK, ChildInv, PhaseSucceeds
  PROVE  \/ CompletedPhases' = CompletedPhases
         \/ CompletedPhases < CleanShutdown /\ CompletedPhases' = CompletedPhases + 1
<1>1. ~Over /\ succeeded' = succeeded \cup {activePhase}
  BY DEF PhaseSucceeds, Over, ChildAt
<1>2. PICK p \in Phase \cup {Beyond} : ChildAtFrontier(p)
  BY DEF ChildInv
<1>3. CompletedPhases = p - 1
  BY <1>2, FrontierCounts DEF ChildAtFrontier
<1>4. CASE workloadFailed
  <2>1. 1 .. p - 1 \subseteq succeeded' /\ p \notin succeeded'
    BY <1>1, <1>2, <1>4 DEF ChildAtFrontier, Frontier
  <2>2. CompletedPhases' = p - 1
    BY <2>1, CountUpTo DEF CompletedPhases
  <2> QED  BY <1>3, <2>2
<1>5. CASE ~workloadFailed
  <2>1. p = activePhase /\ p \in Phase /\ succeeded \subseteq 1 .. p - 1 /\ 1 .. p - 1 \subseteq succeeded
    BY <1>1, <1>2, <1>5 DEF ChildAtFrontier, Frontier, RunTypeOK
  <2> PICK n \in Phase \cup {Beyond} : n = p + 1 /\ n - 1 = p /\ p - 1 < CleanShutdown /\ p = (p - 1) + 1
    BY <2>1 DEF Phase, QvacImport, CleanShutdown, Beyond
  <2>2. 1 .. n - 1 \subseteq succeeded' /\ n \notin succeeded'
    BY <1>1, <2>1 DEF Phase, QvacImport, CleanShutdown, Beyond
  <2>3. CompletedPhases' = n - 1
    BY <2>2, CountUpTo DEF CompletedPhases
  <2> QED  BY <1>3, <2>3
<1> QED  BY <1>4, <1>5

LEMMA ConclusionStands ==
  ASSUME RunInv, [RunNext]_vars, ~Decide  PROVE Conclusion' = Conclusion
<1>1. outcome' = outcome
  BY DEF RunNext, vars, executorVars, Execute, MakeTempCwd, LaunchFails, Fork, SendSdk, SendArtifact,
         SendBootstrap, BootstrapKill, Abandon, AwaitSupervised, CallerAborts, ParentDies,
         Deliver, Reap, Sweep, SupervisorStep, Arm, FailSafe, EnterPhase, ReportBackend, PhaseSucceeds,
         PhaseFails, CleanupFails, Disconnect, ExitNormally, Crash, RootTerminated,
         RootKilled, RootEnds, WorkerStarts, WorkerDies
<1>2. CASE outcome = "pending"
  BY <1>1, <1>2 DEF Conclusion
<1>3. CASE outcome # "pending"
  <2>1. executorPc = "returned"
    BY <1>3 DEF RunInv, ExecutorInv
  <2>2. raw' = raw
    BY <2>1 DEF RunNext, vars, executorVars, Execute, MakeTempCwd, LaunchFails, Fork, SendSdk,
         SendArtifact, SendBootstrap, BootstrapKill, Abandon, AwaitSupervised, CallerAborts, ParentDies,
         Deliver, Reap, Sweep, SupervisorStep, Arm, FailSafe, EnterPhase, ReportBackend, PhaseSucceeds,
         PhaseFails, CleanupFails, Disconnect, ExitNormally, Crash, RootTerminated,
         RootKilled, RootEnds, WorkerStarts, WorkerDies, ExecutorAt
  <2>3. outcome = "executed" => verdict' = verdict
    <3>1. SupervisorMoves
      BY RunMovesSupervisor DEF RunInv, SupervisorInv
    <3>2. outcome = "executed" => stage = "settled"
      BY DEF RunInv, ExecutorInv, GroupInv
    <3> QED  BY <3>1, <3>2, SettledMoves DEF RunInv, ending
  <2> QED  BY <1>1, <2>2, <2>3 DEF Conclusion, Report
<1> QED  BY <1>2, <1>3

LEMMA ContainedInit == RunInit => Contained!Init
<1> SUFFICES ASSUME RunInit PROVE Contained!Init
  OBVIOUS
<1>1. CompletedPhases = 0
  <2>1. Frontier(QvacImport) /\ QvacImport \in Phase
    BY DEF RunInit, Frontier, Phase, QvacImport, CleanShutdown
  <2> QED  BY <2>1, FrontierCounts DEF QvacImport
<1> QED  BY <1>1 DEF RunInit, Contained!Init, GroupEmpty, Conclusion

LEMMA DecideConcludes == ASSUME RunInv, Decide PROVE Contained!Next
<1>1. /\ UNCHANGED <<root, worker, succeeded, raw, verdict, completion>> /\ executorPc = "returned"
      /\ outcome = "pending" /\ outcome' = Decision
  BY DEF Decide, ExecutorAt, groupVars, childVars, supervisorVars, ending
<1>2. outcome' \in {"aborted", "preflight-failed", "executed"} /\ (outcome' = "executed" => raw = "events")
  BY <1>1 DEF Decision
<1>3. Report' = Report
  BY <1>1 DEF Report
<1> PICK c : c = Conclusion'
  OBVIOUS
<1>4. /\ raw = "cleanup-failed" => c = "cleanup-failed"
      /\ raw # "cleanup-failed" =>
           \/ c = "inconclusive"
           \/ c \in {"passed", "failed"} /\ c = Report.result.workload_status /\ raw = "events"
  BY <1>1, <1>2, <1>3 DEF Conclusion
<1>5. raw # "cleanup-failed" => GroupEmpty
  <2>1. raw \in {"not-started", "error", "cleanup-failed", "events"}
    BY <1>1 DEF RunInv, ExecutorInv, RunTypeOK
  <2> QED  BY <2>1 DEF RunInv, ExecutorInv, GroupInv, GroupEmpty
<1>6. raw = "events" => root # "none"
  BY ResolvedIsReaped DEF RunInv, ExecutorInv
<1>7. raw = "events" /\ Report.result.workload_status = "passed" => CompletedPhases = CleanShutdown
  <2> SUFFICES ASSUME succeeded = Phase PROVE CompletedPhases = CleanShutdown
    BY DEF RunInv, ExecutorInv, VerdictTrue
  <2>1. Frontier(Beyond) /\ Beyond - 1 = CleanShutdown
    BY DEF Frontier, Phase, QvacImport, CleanShutdown, Beyond
  <2> QED  BY <2>1, FrontierCounts
<1>8. Conclusion = "none" /\ (GroupEmpty' <=> GroupEmpty) /\ CompletedPhases' = CompletedPhases
  BY <1>1 DEF Conclusion, GroupEmpty, CompletedPhases
<1>9. Contained!Conclude(c)
  BY <1>1, <1>4, <1>5, <1>6, <1>7, <1>8 DEF Contained!Conclude
<1> QED  BY <1>4, <1>9 DEF Contained!Next

LEMMA ContainedStep ==
  ASSUME RunInv, [RunNext]_vars  PROVE [Contained!Next]_(Contained!vars)
<1>1. CASE Decide
  BY <1>1, DecideConcludes
<1>2. CASE Fork
  <2>1. /\ root = "none" /\ root' = "running" /\ GroupEmpty /\ ~GroupEmpty' /\ outcome = "pending"
    BY <1>2 DEF Fork, Attach, ExecutorAt, RunInv, GroupInv, ExecutorInv, GroupEmpty
  <2>2. Conclusion = "none" /\ Conclusion' = Conclusion /\ CompletedPhases' = CompletedPhases
    <3>1. ~Decide /\ ~PhaseSucceeds
      BY <1>2, <2>1 DEF Fork, Decide, ExecutorAt, PhaseSucceeds, ChildAt
    <3> QED  BY <2>1, <3>1, ConclusionStands, SuccessMoves DEF Conclusion
  <2>3. Contained!Begin
    BY <2>1, <2>2 DEF Contained!Begin
  <2> QED  BY <2>3 DEF Contained!Next
<1> SUFFICES ASSUME ~Decide, ~Fork PROVE [Contained!Next]_(Contained!vars)
  BY <1>1, <1>2
<1>3. Conclusion' = Conclusion
  BY ConclusionStands
<1>4. CASE PhaseSucceeds
  <2>1. UNCHANGED <<root, worker>> /\ root = "running" /\ ~GroupEmpty
    BY <1>4 DEF PhaseSucceeds, ChildAt, groupVars, GroupEmpty
  <2>2. \/ CompletedPhases' = CompletedPhases
        \/ CompletedPhases < CleanShutdown /\ CompletedPhases' = CompletedPhases + 1
    <3>1. RunTypeOK /\ ChildInv
      BY DEF RunInv
    <3> QED  BY <1>4, <3>1, SuccessAdvances
  <2>3. GroupEmpty' <=> GroupEmpty
    BY <2>1 DEF GroupEmpty
  <2> QED  BY <1>3, <2>1, <2>2, <2>3 DEF Contained!Next, Contained!Advance, Contained!vars
<1>5. CASE Reap \/ WorkerDies
  <2>1. /\ root # "none" /\ root' # "none" /\ ~GroupEmpty /\ ~PhaseSucceeds
    BY <1>5 DEF Reap, WorkerDies, groupVars, GroupEmpty, RunInv, GroupInv, PhaseSucceeds, ChildAt
  <2>2. CompletedPhases' = CompletedPhases
    BY <2>1, SuccessMoves
  <2> QED  BY <1>3, <2>1, <2>2 DEF Contained!Next, Contained!Vanish, Contained!vars
<1>6. CASE ~PhaseSucceeds /\ ~Reap /\ ~WorkerDies
  <2>1. (root' = "none" <=> root = "none") /\ (GroupEmpty' <=> GroupEmpty)
    BY <1>6, GroupMoves DEF RunInv
  <2>2. CompletedPhases' = CompletedPhases
    BY <1>6, SuccessMoves
  <2> QED  BY <1>3, <2>1, <2>2 DEF Contained!vars
<1> QED  BY <1>4, <1>5, <1>6

(* A run implements the contained run that the pipeline relies on: it is   *)
(* begun at most once, concluded once, about an empty group unless that    *)
(* is what failed, and passed only when every phase was completed.         *)
THEOREM RunImplementsContained == RunSpec => ImplementsContainedRun
<1>1. RunInit => Contained!Init
  BY ContainedInit
<1>2. RunInv /\ [RunNext]_vars => [Contained!Next]_(Contained!vars)
  BY ContainedStep
<1> QED
  BY <1>1, <1>2, RunInvInvariant, PTL DEF RunSpec, ImplementsContainedRun, Contained!Spec
=============================================================================
