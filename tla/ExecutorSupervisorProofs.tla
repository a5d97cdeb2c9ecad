---------------------- MODULE ExecutorSupervisorProofs ----------------------
(***************************************************************************)
(* Theorems about the supervisor, for every MaxEvents and every child.     *)
(***************************************************************************)
EXTENDS ExecutorSupervisor, FiniteSetTheorems, SequenceTheorems, TLAPS

(***************************************************************************)
(* Type correctness.  An override is set with the phase it happened in,    *)
(* which is what makes the phases recorded at the end records of a phase.  *)
(***************************************************************************)
OverridePhaseOK == override.kind # "none" => override.phase \in Phase
TypeInv == TypeOK /\ OverridePhaseOK

LEMMA TerminateType ==
  ASSUME TypeOK, NEW armed \in SUBSET {"overall", "phase", "kill", "settle"},
         Terminate(armed)
  PROVE  /\ terminating' \in BOOLEAN
         /\ timers' \subseteq {"overall", "phase", "kill", "settle"}
         /\ signalled' \in {"none", "TERM", "KILL"}
  BY DEF TypeOK, Terminate, AfterTerm

LEMMA CurrentPhaseType == TypeOK => CurrentPhase \in Phase
  BY DEF TypeOK, CurrentPhase, None, Phase

LEMMA ClosedType ==
  ASSUME TypeInv
  PROVE  ClosedPhases \in Seq(PhaseRecord) /\ ClosedFailure \in Phase \cup {None}
<1>1. EndingPhase \in Phase
  BY CurrentPhaseType DEF TypeInv, OverridePhaseOK, EndingPhase
<1>2. EndingStatus \in {"failed", "unknown"} => PhaseEvent(EndingPhase, EndingStatus) \in PhaseRecord
  BY <1>1 DEF PhaseEvent, PhaseRecord
<1>3. QED
  BY <1>1, <1>2 DEF TypeInv, TypeOK, ClosedPhases, ClosedFailure

LEMMA InitTypeInv == Init => TypeInv
<1> SUFFICES ASSUME Init PROVE TypeInv
  OBVIOUS
<1>1. expectedPhase \in Phase /\ openPhase = None /\ firstFailure = None
  BY DEF Init, SupervisorInit, Phase, QvacImport, CleanShutdown
<1>2. phases \in Seq(PhaseRecord)
  BY DEF Init, SupervisorInit
<1>3. override \in Override /\ override.kind = "none"
  BY DEF Init, SupervisorInit, NoOverride, Override, None
<1>4. nextSequence \in 0 .. MaxEvents
  BY MaxEventsAssumption DEF Init, SupervisorInit
<1>5. exit \in RootExit \cup {NoExit}
  BY DEF Init, SupervisorInit
<1>6. QED
  BY <1>1, <1>2, <1>3, <1>4, <1>5 DEF Init, SupervisorInit, TypeInv, TypeOK, OverridePhaseOK

LEMMA NextTypeInv == TypeInv /\ [Next]_supervisorVars => TypeInv'
<1> SUFFICES ASSUME TypeInv, [Next]_supervisorVars PROVE TypeInv'
  OBVIOUS
<1> USE MaxEventsAssumption DEF TypeInv, OverridePhaseOK
<1>1. CASE Attach
  <2>1. /\ terminating' \in BOOLEAN
        /\ timers' \subseteq {"overall", "phase", "kill", "settle"}
        /\ signalled' \in {"none", "TERM", "KILL"}
    <3>1. CASE abortRequested
      <4>1. Terminate({"overall", "phase"})
        BY <1>1, <3>1 DEF Attach
      <4>2. {"overall", "phase"} \in SUBSET {"overall", "phase", "kill", "settle"}
        OBVIOUS
      <4>3. QED
        BY <4>1, <4>2, TerminateType
    <3>2. CASE ~abortRequested
      BY <1>1, <3>2 DEF Attach, TypeOK
    <3>3. QED
      BY <3>1, <3>2
  <2>2. QED
    BY <1>1, <2>1 DEF Attach, TypeOK, lifecycle, ending
<1>2. CASE Abort
  <2>1. /\ terminating' \in BOOLEAN
        /\ timers' \subseteq {"overall", "phase", "kill", "settle"}
        /\ signalled' \in {"none", "TERM", "KILL"}
    <3>1. CASE attached
      <4>1. Terminate(timers)
        BY <1>2, <3>1 DEF Abort
      <4>2. timers \in SUBSET {"overall", "phase", "kill", "settle"}
        BY DEF TypeOK
      <4>3. QED
        BY <4>1, <4>2, TerminateType
    <3>2. CASE ~attached
      BY <1>2, <3>2 DEF Abort, TypeOK
    <3>3. QED
      BY <3>1, <3>2
  <2>2. QED
    BY <1>2, <2>1 DEF Abort, TypeOK, lifecycle, ending
<1>3. CASE DisposeAfterLaunchFailure
  BY <1>3 DEF DisposeAfterLaunchFailure, TypeOK, lifecycle, ending
<1>4. ASSUME NEW m \in Message, OnMessage(m) PROVE TypeInv'
  <2>1. CASE IgnoreMessage
    BY <2>1 DEF IgnoreMessage, TypeOK, supervisorVars, lifecycle, ending
  <2>2. CASE RejectMessage(m)
    <3>1. override' \in Override /\ override'.phase \in Phase
      BY <2>2, CurrentPhaseType DEF RejectMessage, Override
    <3>2. QED
      BY <2>2, <3>1, TerminateType DEF RejectMessage, TypeOK, lifecycle, ending
  <2>3. CASE AcceptStart(m)
    BY <2>3 DEF AcceptStart, Acceptable, Starts, TypeOK, ending
  <2>4. CASE AcceptBackend(m)
    <3>1. m.backend \in Backend
      BY <2>4 DEF AcceptBackend, Observes, Message, InvalidMessage
    <3>2. QED
      BY <2>4, <3>1 DEF AcceptBackend, Acceptable, TypeOK, ending
  <2>5. CASE AcceptEnd(m)
    <3>1. m.phase \in Phase
      BY <2>5 DEF AcceptEnd, Ends, TypeOK
    <3>2. phases' \in Seq(PhaseRecord)
      BY <2>5, <3>1 DEF AcceptEnd, TypeOK, PhaseEvent, PhaseRecord
    <3>3. expectedPhase' \in Phase
      BY <2>5, <3>1 DEF AcceptEnd, Ends, PhaseAfter, TypeOK, Phase, QvacImport, CleanShutdown
    <3>4. firstFailure' \in Phase \cup {None}
      BY <2>5, <3>1 DEF AcceptEnd, FailureAfter, TypeOK
    <3>5. openPhase' \in Phase \cup {None}
      BY <2>5 DEF AcceptEnd
    <3>6. QED
      BY <2>5, <3>2, <3>3, <3>4, <3>5 DEF AcceptEnd, Acceptable, TypeOK, ending
  <2>6. QED
    BY <1>4, <2>1, <2>2, <2>3, <2>4, <2>5 DEF OnMessage
<1>5. ASSUME NEW timer \in {"phase", "overall"}, Timeout(timer) PROVE TypeInv'
  <2>1. CASE override.kind # "none"
    <3>1. timers' = timers \ {timer} /\ UNCHANGED <<override, terminating, signalled>>
      BY <1>5, <2>1 DEF Timeout
    <3>2. timers' \subseteq {"overall", "phase", "kill", "settle"}
      BY <3>1 DEF TypeOK
    <3>3. QED
      BY <1>5, <3>1, <3>2 DEF Timeout, TypeOK, lifecycle, ending
  <2>2. CASE override.kind = "none"
    <3>1. override' = [kind |-> "timeout", phase |-> CurrentPhase,
                       afterFailure |-> firstFailure # None]
      BY <1>5, <2>2 DEF Timeout
    <3>2. (firstFailure # None) \in BOOLEAN
      OBVIOUS
    <3>3. override' \in Override /\ override'.phase \in Phase
      BY <3>1, <3>2, CurrentPhaseType DEF Override
    <3>4. Terminate(timers \ {timer})
      BY <1>5, <2>2 DEF Timeout
    <3>5. timers \ {timer} \in SUBSET {"overall", "phase", "kill", "settle"}
      BY DEF TypeOK
    <3>6. /\ terminating' \in BOOLEAN
          /\ timers' \subseteq {"overall", "phase", "kill", "settle"}
          /\ signalled' \in {"none", "TERM", "KILL"}
      BY <3>4, <3>5, TerminateType
    <3>7. QED
      BY <1>5, <3>3, <3>6 DEF Timeout, TypeOK, lifecycle, ending
  <2>3. QED
    BY <2>1, <2>2
<1>6. CASE KillTimer
  BY <1>6 DEF KillTimer, TypeOK, lifecycle, ending
<1>7. ASSUME NEW e \in RootExit \cup {NoExit}, Finalize(e) PROVE TypeInv'
  BY <1>7 DEF Finalize, AfterTerm, TypeOK, lifecycle
<1>8. CASE SweepKill
  BY <1>8 DEF SweepKill, TypeOK, lifecycle
<1>9. ASSUME NEW survivors \in BOOLEAN, SweepDone(survivors) PROVE TypeInv'
  BY <1>9, ClosedType DEF SweepDone, TypeOK
<1>10. CASE UNCHANGED supervisorVars
  BY <1>10 DEF TypeOK, supervisorVars, lifecycle, ending
<1>11. QED
  BY <1>1, <1>2, <1>3, <1>4, <1>5, <1>6, <1>7, <1>8, <1>9, <1>10
  DEF Next, PhaseTimer, OverallTimer, SettleTimer, OnExit

(* Every variable keeps its type, whatever the child sends. *)
THEOREM TypeCorrect == Spec => []TypeOK
<1>1. Spec => []TypeInv
  BY InitTypeInv, NextTypeInv, PTL DEF Spec
<1>2. TypeInv => TypeOK
  BY DEF TypeInv
<1>3. QED
  BY <1>1, <1>2, PTL

(***************************************************************************)
(* The first failure and the override are only ever set.                   *)
(***************************************************************************)
LEMMA ClosedFailureStands == firstFailure # None => ClosedFailure = firstFailure
  BY DEF ClosedFailure, EndingStatus

LEMMA CausesStand ==
  ASSUME [Next]_supervisorVars
  PROVE  /\ firstFailure # None => firstFailure' = firstFailure
         /\ override.kind # "none" => override' = override
<1>1. CASE Attach \/ Abort \/ DisposeAfterLaunchFailure
  BY <1>1 DEF Attach, Abort, DisposeAfterLaunchFailure, lifecycle
<1>2. ASSUME NEW m \in Message, OnMessage(m)
      PROVE  /\ firstFailure # None => firstFailure' = firstFailure
             /\ override.kind # "none" => override' = override
  <2>1. CASE IgnoreMessage
    BY <2>1 DEF IgnoreMessage, supervisorVars, lifecycle
  <2>2. CASE RejectMessage(m)
    BY <2>2 DEF RejectMessage, Deaf, lifecycle
  <2>3. CASE AcceptStart(m) \/ AcceptBackend(m)
    BY <2>3 DEF AcceptStart, AcceptBackend
  <2>4. CASE AcceptEnd(m)
    BY <2>4 DEF AcceptEnd, FailureAfter
  <2>5. QED
    BY <1>2, <2>1, <2>2, <2>3, <2>4 DEF OnMessage
<1>3. ASSUME NEW timer \in {"phase", "overall"}, Timeout(timer)
      PROVE  /\ firstFailure # None => firstFailure' = firstFailure
             /\ override.kind # "none" => override' = override
  BY <1>3 DEF Timeout, lifecycle
<1>4. CASE KillTimer \/ SweepKill
  BY <1>4 DEF KillTimer, SweepKill, lifecycle
<1>5. ASSUME NEW e \in RootExit \cup {NoExit}, Finalize(e)
      PROVE  UNCHANGED <<firstFailure, override>>
  BY <1>5 DEF Finalize, lifecycle
<1>6. ASSUME NEW survivors \in BOOLEAN, SweepDone(survivors)
      PROVE  /\ firstFailure # None => firstFailure' = firstFailure
             /\ override' = override
  BY <1>6, ClosedFailureStands DEF SweepDone
<1>7. CASE UNCHANGED supervisorVars
  BY <1>7 DEF supervisorVars, lifecycle
<1>8. QED
  BY <1>1, <1>2, <1>3, <1>4, <1>5, <1>6, <1>7
  DEF Next, PhaseTimer, OverallTimer, SettleTimer, OnExit

(* No later message, timer, abort or exit replaces the first failure or    *)
(* the override.                                                           *)
THEOREM CausesAreKept == Spec => FirstCauseStands
<1>1. [Next]_supervisorVars =>
        [/\ firstFailure # None => firstFailure' = firstFailure
         /\ override.kind # "none" => override' = override]_supervisorVars
  BY CausesStand
<1>2. QED
  BY <1>1, PTL DEF Spec, FirstCauseStands

(***************************************************************************)
(* The watchdog.  Timers are armed only while the supervisor listens, so   *)
(* each step either keeps the deadline, or trades it for the escalation.   *)
(***************************************************************************)
TimersWhileListening == timers # {} => Listening
DisposedUnattached == disposed => ~attached
FinalizedAttached == Finalized => attached
QuietUntilAttached == ~attached => ~terminating
EscalationArmed == Listening /\ terminating => timers \cap {"kill", "settle"} # {}
DeadlineArmed == Listening /\ ~terminating => "overall" \in timers
OverrideTerminates == override.kind # "none" => terminating

WatchInv ==
  /\ TimersWhileListening /\ DisposedUnattached /\ FinalizedAttached
  /\ QuietUntilAttached /\ EscalationArmed /\ DeadlineArmed /\ OverrideTerminates

LEMMA InitWatchInv == Init => WatchInv
  BY DEF Init, SupervisorInit, WatchInv, TimersWhileListening, DisposedUnattached,
         FinalizedAttached, QuietUntilAttached, EscalationArmed, DeadlineArmed,
         OverrideTerminates, Listening, Finalized, NoOverride

(* #terminate leaves the escalation armed, if it was when it had been called. *)
LEMMA TerminateEscalates ==
  ASSUME NEW armed, Terminate(armed),
         terminating => armed \cap {"kill", "settle"} # {}
  PROVE  terminating' /\ timers' \cap {"kill", "settle"} # {}
  BY DEF Terminate

LEMMA NextWatchInv == WatchInv /\ [Next]_supervisorVars => WatchInv'
<1> SUFFICES ASSUME WatchInv, [Next]_supervisorVars PROVE WatchInv'
  OBVIOUS
<1> USE DEF WatchInv, TimersWhileListening, DisposedUnattached, FinalizedAttached,
            QuietUntilAttached, EscalationArmed, DeadlineArmed, OverrideTerminates,
            Listening, Finalized
<1>1. CASE Attach
  <2>1. CASE abortRequested
    <3>1. Terminate({"overall", "phase"}) /\ ~terminating
      BY <1>1, <2>1 DEF Attach
    <3>2. terminating' /\ timers' \cap {"kill", "settle"} # {}
      BY <3>1, TerminateEscalates
    <3>3. QED
      BY <1>1, <3>2 DEF Attach, lifecycle, ending
  <2>2. CASE ~abortRequested
    BY <1>1, <2>2 DEF Attach, lifecycle, ending
  <2>3. QED
    BY <2>1, <2>2
<1>2. CASE Abort
  <2>1. CASE attached
    <3>1. Terminate(timers)
      BY <1>2, <2>1 DEF Abort
    <3>2. terminating' /\ timers' \cap {"kill", "settle"} # {}
      BY <1>2, <2>1, <3>1, TerminateEscalates DEF Abort
    <3>3. QED
      BY <1>2, <2>1, <3>2 DEF Abort, lifecycle, ending
  <2>2. CASE ~attached
    BY <1>2, <2>2 DEF Abort, lifecycle, ending
  <2>3. QED
    BY <2>1, <2>2
<1>3. CASE DisposeAfterLaunchFailure
  BY <1>3 DEF DisposeAfterLaunchFailure, lifecycle, ending
<1>4. ASSUME NEW m \in Message, OnMessage(m) PROVE WatchInv'
  <2>1. CASE IgnoreMessage
    BY <2>1 DEF IgnoreMessage, supervisorVars, lifecycle, ending
  <2>2. CASE RejectMessage(m)
    <3>1. Terminate(timers) /\ Listening
      BY <2>2 DEF RejectMessage, Deaf
    <3>2. terminating' /\ timers' \cap {"kill", "settle"} # {}
      BY <3>1, TerminateEscalates
    <3>3. QED
      BY <2>2, <3>1, <3>2 DEF RejectMessage, lifecycle, ending
  <2>3. CASE AcceptStart(m)
    BY <2>3 DEF AcceptStart, Deaf, ending
  <2>4. CASE AcceptBackend(m)
    BY <2>4 DEF AcceptBackend, Deaf, ending
  <2>5. CASE AcceptEnd(m)
    BY <2>5 DEF AcceptEnd, Deaf, ending
  <2>6. QED
    BY <1>4, <2>1, <2>2, <2>3, <2>4, <2>5 DEF OnMessage
<1>5. ASSUME NEW timer \in {"phase", "overall"}, Timeout(timer) PROVE WatchInv'
  <2>1. CASE override.kind # "none"
    BY <1>5, <2>1 DEF Timeout, lifecycle, ending
  <2>2. CASE override.kind = "none"
    <3>1. Terminate(timers \ {timer}) /\ Listening
      BY <1>5, <2>2 DEF Timeout
    <3>2. terminating' /\ timers' \cap {"kill", "settle"} # {}
      BY <3>1, TerminateEscalates
    <3>3. QED
      BY <1>5, <3>1, <3>2 DEF Timeout, lifecycle, ending
  <2>3. QED
    BY <2>1, <2>2
<1>6. CASE KillTimer
  BY <1>6 DEF KillTimer, lifecycle, ending
<1>7. ASSUME NEW e \in RootExit \cup {NoExit}, Finalize(e) PROVE WatchInv'
  BY <1>7 DEF Finalize, lifecycle
<1>8. CASE SweepKill
  BY <1>8 DEF SweepKill, lifecycle
<1>9. ASSUME NEW survivors \in BOOLEAN, SweepDone(survivors) PROVE WatchInv'
  BY <1>9 DEF SweepDone
<1>10. CASE UNCHANGED supervisorVars
  BY <1>10 DEF supervisorVars, lifecycle, ending
<1>11. QED
  BY <1>1, <1>2, <1>3, <1>4, <1>5, <1>6, <1>7, <1>8, <1>9, <1>10
  DEF Next, PhaseTimer, OverallTimer, SettleTimer, OnExit

LEMMA WatchInvInvariant == Spec => []WatchInv
  BY InitWatchInv, NextWatchInv, PTL DEF Spec

(* A supervised child is never without a timer that will end it. *)
THEOREM WatchdogNeverSleeps == Spec => []WatchdogArmed
<1>1. WatchInv => WatchdogArmed
  BY DEF WatchInv, EscalationArmed, DeadlineArmed, OverrideTerminates, WatchdogArmed
<1>2. QED
  BY <1>1, WatchInvInvariant, PTL

(***************************************************************************)
(* A pass is earned.  Until a phase fails, the messages accepted so far    *)
(* are the whole lifecycle up to the current phase and nothing else, so    *)
(* that five passed phases mean ten phase messages.                        *)
(***************************************************************************)
PhasesInOrder == \A i \in 1 .. Len(phases) : phases[i] = PhaseEvent(i, "passed")
PhasesCounted == Len(phases) = IF lifecycleTerminal THEN CleanShutdown ELSE expectedPhase - 1
MessagesCounted ==
  nextSequence = 2 * Len(phases) + (IF openPhase = None THEN 0 ELSE 1)
                                 + (IF backend = NoBackend THEN 0 ELSE 1)
OpenPhaseExpected == openPhase # None => openPhase = expectedPhase /\ ~lifecycleTerminal

Grammar == PhasesInOrder /\ PhasesCounted /\ MessagesCounted /\ OpenPhaseExpected
GrammarInv == stage # "settled" /\ firstFailure = None => Grammar

LEMMA InitGrammarInv == Init => GrammarInv
  BY DEF Init, SupervisorInit, GrammarInv, Grammar, PhasesInOrder, PhasesCounted,
         MessagesCounted, OpenPhaseExpected, QvacImport, None, NoBackend

LEMMA EndKeepsGrammar ==
  ASSUME TypeInv, GrammarInv, NEW m \in Message, AcceptEnd(m)
  PROVE  GrammarInv'
<1> SUFFICES ASSUME stage' # "settled", firstFailure' = None PROVE Grammar'
  BY DEF GrammarInv
<1>1. m.phase \in Phase /\ m.phase # None /\ openPhase = m.phase /\ m.phase = expectedPhase
  BY DEF AcceptEnd, Ends, TypeInv, TypeOK, Phase, QvacImport, CleanShutdown, None
<1>2. firstFailure = None /\ m.state # "failed" /\ stage # "settled" /\ ~lifecycleTerminal
  BY <1>1 DEF AcceptEnd, FailureAfter, Acceptable, ending
<1>3. m.state = "succeeded"
  BY <1>2 DEF AcceptEnd, Ends, Message, InvalidMessage
<1>4. Grammar
  BY <1>2 DEF GrammarInv
<1>5. phases' = Append(phases, PhaseEvent(m.phase, "passed")) /\ phases \in Seq(PhaseRecord)
  BY <1>3 DEF AcceptEnd, TypeInv, TypeOK
<1>6. Len(phases) \in Nat /\ Len(phases') = Len(phases) + 1
  BY <1>5
<1>7. Len(phases) = m.phase - 1
  BY <1>1, <1>2, <1>4 DEF Grammar, PhasesCounted
<1>8. PhasesInOrder'
  <2> SUFFICES ASSUME NEW i \in 1 .. Len(phases') PROVE phases'[i] = PhaseEvent(i, "passed")
    BY DEF PhasesInOrder
  <2>1. CASE i \in 1 .. Len(phases)
    BY <2>1, <1>4, <1>5 DEF Grammar, PhasesInOrder
  <2>2. CASE i = Len(phases) + 1
    <3>1. i = m.phase
      BY <2>2, <1>1, <1>7 DEF Phase, QvacImport, CleanShutdown
    <3>2. QED
      BY <2>2, <3>1, <1>5
  <2>3. QED
    BY <2>1, <2>2, <1>6
<1>9. PhasesCounted'
  <2>1. CASE m.phase = CleanShutdown
    <3>1. lifecycleTerminal'
      BY <2>1 DEF AcceptEnd
    <3>2. QED
      BY <2>1, <3>1, <1>6, <1>7 DEF PhasesCounted, CleanShutdown
  <2>2. CASE m.phase # CleanShutdown
    <3>1. ~lifecycleTerminal'
      BY <2>2 DEF AcceptEnd
    <3>2. expectedPhase' = m.phase + 1
      BY <2>2, <1>1, <1>3 DEF AcceptEnd, PhaseAfter
    <3>3. QED
      BY <3>1, <3>2, <1>1, <1>6, <1>7 DEF PhasesCounted, Phase, QvacImport, CleanShutdown
  <2>3. QED
    BY <2>1, <2>2
<1>10. MessagesCounted'
  BY <1>1, <1>4, <1>6 DEF Grammar, MessagesCounted, AcceptEnd
<1>11. OpenPhaseExpected'
  BY DEF OpenPhaseExpected, AcceptEnd
<1>12. QED
  BY <1>8, <1>9, <1>10, <1>11 DEF Grammar

LEMMA NextGrammarInv == TypeInv /\ GrammarInv /\ [Next]_supervisorVars => GrammarInv'
<1> SUFFICES ASSUME TypeInv, GrammarInv, [Next]_supervisorVars PROVE GrammarInv'
  OBVIOUS
<1> USE DEF GrammarInv, Grammar
<1>1. CASE UNCHANGED <<lifecycle, stage>>
  BY <1>1 DEF lifecycle, PhasesInOrder, PhasesCounted, MessagesCounted, OpenPhaseExpected
<1>2. ASSUME NEW m \in Message, OnMessage(m) PROVE GrammarInv'
  <2>1. CASE IgnoreMessage \/ RejectMessage(m)
    BY <2>1, <1>1 DEF IgnoreMessage, RejectMessage, supervisorVars, ending
  <2>2. CASE AcceptStart(m)
    <3>1. openPhase = None /\ openPhase' = expectedPhase /\ ~lifecycleTerminal
          /\ openPhase' # None
      BY <2>2 DEF AcceptStart, Acceptable, Starts, TypeInv, TypeOK, Phase, QvacImport,
                  CleanShutdown, None
    <3>2. UNCHANGED <<phases, expectedPhase, lifecycleTerminal, firstFailure, backend, stage>>
          /\ nextSequence' = nextSequence + 1
      BY <2>2 DEF AcceptStart, ending
    <3>3. Len(phases) \in Nat
      BY DEF TypeInv, TypeOK
    <3>4. QED
      BY <3>1, <3>2, <3>3 DEF PhasesInOrder, PhasesCounted, MessagesCounted, OpenPhaseExpected
  <2>3. CASE AcceptBackend(m)
    <3>1. m.backend # NoBackend /\ backend = NoBackend
      BY <2>3 DEF AcceptBackend, Observes, Message, InvalidMessage, Backend, NoBackend
    <3>2. QED
      BY <2>3, <3>1 DEF AcceptBackend, PhasesInOrder, PhasesCounted, MessagesCounted,
                       OpenPhaseExpected, ending, TypeInv, TypeOK
  <2>4. CASE AcceptEnd(m)
    BY <2>4, EndKeepsGrammar
  <2>5. QED
    BY <1>2, <2>1, <2>2, <2>3, <2>4 DEF OnMessage
<1>3. ASSUME NEW e \in RootExit \cup {NoExit}, Finalize(e) PROVE GrammarInv'
  BY <1>3 DEF Finalize, Finalized, lifecycle, PhasesInOrder, PhasesCounted,
             MessagesCounted, OpenPhaseExpected
<1>4. CASE SweepKill
  BY <1>4 DEF SweepKill, lifecycle, PhasesInOrder, PhasesCounted,
             MessagesCounted, OpenPhaseExpected
<1>5. ASSUME NEW survivors \in BOOLEAN, SweepDone(survivors) PROVE GrammarInv'
  BY <1>5 DEF SweepDone
<1>6. CASE Attach \/ Abort \/ DisposeAfterLaunchFailure \/ KillTimer
  BY <1>6, <1>1 DEF Attach, Abort, DisposeAfterLaunchFailure, KillTimer, ending
<1>7. ASSUME NEW timer \in {"phase", "overall"}, Timeout(timer) PROVE GrammarInv'
  BY <1>7, <1>1 DEF Timeout, ending
<1>8. QED
  BY <1>1, <1>2, <1>3, <1>4, <1>5, <1>6, <1>7
  DEF Next, PhaseTimer, OverallTimer, SettleTimer, OnExit, supervisorVars, ending

(* The end of #finalize: the verdict is a pass only for the whole grammar. *)
LEMMA PassedResult ==
  ASSUME Result.workload_status = "passed", TypeOK
  PROVE  override.kind = "none" /\ AllPassed /\ exit = ExitBy(0, NoSignal)
<1>1. CASE override.kind = "timeout"
  BY <1>1 DEF Result, TimeoutResult, Inconclusive, Failed, ResultEvent
<1>2. CASE override.kind = "protocol"
  BY <1>2 DEF Result, Inconclusive, ResultEvent
<1>3. CASE override.kind = "none"
  <2>1. ExitResult.workload_status = "passed"
    BY <1>3 DEF Result
  <2>2. AllPassed /\ exit.code = 0
    <3>1. /\ SignalResult.workload_status # "passed"
          /\ \A p, c : Inconclusive(p, c).workload_status # "passed"
          /\ \A k, p, c : Failed(k, p, c).workload_status # "passed"
      BY DEF SignalResult, Inconclusive, Failed, ResultEvent
    <3>2. QED
      BY <2>1, <3>1 DEF ExitResult
  <2>3. exit = ExitBy(0, NoSignal)
    BY <2>2 DEF TypeOK, RootExit, NoExit, ExitBy, NoCode
  <2>4. QED
    BY <1>3, <2>2, <2>3
<1>4. QED
  BY <1>1, <1>2, <1>3 DEF TypeOK, Override

LEMMA AllPassedGrammar ==
  ASSUME TypeInv, GrammarInv, stage # "settled", AllPassed
  PROVE  nextSequence = 2 * CleanShutdown + (IF backend = NoBackend THEN 0 ELSE 1)
<1>1. firstFailure = None /\ Grammar
  <2>1. firstFailure = None
    BY ClosedFailureStands DEF AllPassed
  <2>2. QED
    BY <2>1 DEF GrammarInv
<1>2. PICK i \in DOMAIN ClosedPhases : ClosedPhases[i] = PhaseEvent(CleanShutdown, "passed")
  BY DEF AllPassed, Phase, QvacImport, CleanShutdown
<1>3. phases \in Seq(PhaseRecord)
  BY DEF TypeInv, TypeOK
<1>4. i \in 1 .. Len(phases) /\ phases[i] = PhaseEvent(CleanShutdown, "passed")
  <2>1. CASE ClosedPhases = phases
    BY <1>2, <1>3, <2>1
  <2>2. CASE ClosedPhases = Append(phases, PhaseEvent(EndingPhase, EndingStatus))
             /\ EndingStatus \in {"failed", "unknown"}
    <3>1. i \in 1 .. Len(phases) + 1
      BY <1>2, <1>3, <2>2
    <3>2. i # Len(phases) + 1
      <4>1. PhaseEvent(EndingPhase, EndingStatus) # PhaseEvent(CleanShutdown, "passed")
        BY <2>2 DEF PhaseEvent
      <4>2. QED
        BY <1>2, <1>3, <2>2, <4>1
    <3>3. QED
      BY <1>2, <1>3, <2>2, <3>1, <3>2
  <2>3. QED
    BY <2>1, <2>2 DEF ClosedPhases
<1>5. i = CleanShutdown
  <2>1. PhaseEvent(i, "passed") = PhaseEvent(CleanShutdown, "passed")
    BY <1>1, <1>4 DEF Grammar, PhasesInOrder
  <2>2. PhaseEvent(i, "passed").name = PhaseEvent(CleanShutdown, "passed").name
    BY <2>1
  <2>3. QED
    BY <2>2 DEF PhaseEvent
<1>6. lifecycleTerminal /\ Len(phases) = CleanShutdown
  BY <1>1, <1>3, <1>4, <1>5 DEF Grammar, PhasesCounted, TypeInv, TypeOK, Phase,
                               QvacImport, CleanShutdown
<1>7. openPhase = None
  BY <1>1, <1>6 DEF Grammar, OpenPhaseExpected
<1>8. QED
  BY <1>1, <1>6, <1>7 DEF Grammar, MessagesCounted, CleanShutdown

PassInv == (completion = "resolved" => stage = "settled") /\ PassIsEarned

LEMMA InitPassInv == Init => PassInv
  BY DEF Init, SupervisorInit, PassInv, PassIsEarned

LEMMA VerdictPassInv ==
  ASSUME TypeInv, GrammarInv, PassInv, NEW survivors \in BOOLEAN, SweepDone(survivors)
  PROVE  PassInv'
<1>1. stage = "sweeping" /\ stage' = "settled" /\ UNCHANGED <<nextSequence, override, exit>>
  BY DEF SweepDone
<1>2. CASE survivors
  BY <1>1, <1>2 DEF SweepDone, PassInv, PassIsEarned
<1>3. CASE ~survivors
  <2> SUFFICES ASSUME verdict'.result.workload_status = "passed" PROVE PassIsEarned'
    BY <1>1 DEF PassInv, PassIsEarned
  <2>1. verdict' = Verdict
    BY <1>3 DEF SweepDone
  <2>2. Result.workload_status = "passed"
    BY <2>1 DEF Verdict
  <2>3. override.kind = "none" /\ AllPassed /\ exit = ExitBy(0, NoSignal)
    BY <2>2, PassedResult DEF TypeInv
  <2>4. nextSequence = 2 * CleanShutdown + (IF backend = NoBackend THEN 0 ELSE 1)
    BY <2>3, <1>1, AllPassedGrammar
  <2>5. InferenceAttempted(ReportedPhases)
    <3>1. PICK i \in DOMAIN ClosedPhases : ClosedPhases[i] = PhaseEvent(Inference, "passed")
      BY <2>3 DEF AllPassed, Phase, QvacImport, Inference, CleanShutdown
    <3>2. ReportedPhases = ClosedPhases
      BY <2>3 DEF ReportedPhases, AllPassed
    <3>3. QED
      BY <3>1, <3>2 DEF InferenceAttempted, PhaseEvent
  <2>6. verdict'.backend = backend
    BY <2>1, <2>5 DEF Verdict
  <2>7. QED
    BY <1>1, <2>3, <2>4, <2>6 DEF PassIsEarned
<1>4. QED
  BY <1>2, <1>3

LEMMA NextPassInv ==
  TypeInv /\ WatchInv /\ GrammarInv /\ PassInv /\ [Next]_supervisorVars => PassInv'
<1> SUFFICES ASSUME TypeInv, WatchInv, GrammarInv, PassInv, [Next]_supervisorVars
             PROVE  PassInv'
  OBVIOUS
<1>1. CASE UNCHANGED <<nextSequence, override, ending>>
  BY <1>1 DEF PassInv, PassIsEarned, ending
<1>2. CASE completion # "resolved" /\ UNCHANGED completion
  BY <1>2 DEF PassInv, PassIsEarned
<1>3. completion = "resolved" => ~Listening /\ timers = {} /\ Finalized
  BY DEF PassInv, WatchInv, TimersWhileListening, Listening, Finalized
<1>4. CASE Attach \/ Abort \/ DisposeAfterLaunchFailure \/ KillTimer
  BY <1>4, <1>1 DEF Attach, Abort, DisposeAfterLaunchFailure, KillTimer, lifecycle
<1>5. ASSUME NEW m \in Message, OnMessage(m) PROVE PassInv'
  <2>1. CASE IgnoreMessage
    BY <2>1, <1>1 DEF IgnoreMessage, supervisorVars, lifecycle
  <2>2. CASE RejectMessage(m) \/ AcceptStart(m) \/ AcceptBackend(m) \/ AcceptEnd(m)
    BY <2>2, <1>2, <1>3 DEF RejectMessage, AcceptStart, AcceptBackend, AcceptEnd, Deaf, ending
  <2>3. QED
    BY <1>5, <2>1, <2>2 DEF OnMessage
<1>6. ASSUME NEW timer \in {"phase", "overall"}, Timeout(timer) PROVE PassInv'
  BY <1>6, <1>2, <1>3 DEF Timeout, ending
<1>7. ASSUME NEW e \in RootExit \cup {NoExit}, Finalize(e) PROVE PassInv'
  BY <1>7, <1>2, <1>3 DEF Finalize
<1>8. CASE SweepKill
  BY <1>8, <1>2 DEF SweepKill, PassInv
<1>9. ASSUME NEW survivors \in BOOLEAN, SweepDone(survivors) PROVE PassInv'
  BY <1>9, VerdictPassInv
<1>10. CASE UNCHANGED supervisorVars
  BY <1>10, <1>1 DEF supervisorVars, lifecycle
<1>11. QED
  BY <1>4, <1>5, <1>6, <1>7, <1>8, <1>9, <1>10
  DEF Next, PhaseTimer, OverallTimer, SettleTimer, OnExit

(* A passed verdict has consumed all ten phase messages, under no override, *)
(* of a root that exited with code 0.                                       *)
THEOREM PassedVerdictsAreEarned == Spec => []PassIsEarned
<1>1. Init => TypeInv /\ WatchInv /\ GrammarInv /\ PassInv
  BY InitTypeInv, InitWatchInv, InitGrammarInv, InitPassInv
<1>2. TypeInv /\ WatchInv /\ GrammarInv /\ PassInv /\ [Next]_supervisorVars
        => (TypeInv /\ WatchInv /\ GrammarInv /\ PassInv)'
  BY NextTypeInv, NextWatchInv, NextGrammarInv, NextPassInv
<1>3. PassInv => PassIsEarned
  BY DEF PassInv
<1>4. QED
  BY <1>1, <1>2, <1>3, PTL DEF Spec

(***************************************************************************)
(* The phases of a failed lifecycle: passes, the failure, and at most the  *)
(* cleanup after it.  The cause that overrides the exit keeps the phase it *)
(* was set in, since nothing is accepted any more.                         *)
(***************************************************************************)
Broken ==
  /\ firstFailure <= Len(phases) /\ Len(phases) <= firstFailure + 1
  /\ \A i \in 1 .. firstFailure - 1 : phases[i] = PhaseEvent(i, "passed")
  /\ phases[firstFailure] = PhaseEvent(firstFailure, "failed")
  /\ Len(phases) = firstFailure + 1 =>
       /\ firstFailure < CleanShutdown
       /\ phases[firstFailure + 1].name = CleanShutdown
       /\ phases[firstFailure + 1].status # "unknown"
  /\ lifecycleTerminal <=> (firstFailure = CleanShutdown \/ Len(phases) = firstFailure + 1)
  /\ expectedPhase = CleanShutdown
  /\ OpenPhaseExpected
FailureInv == stage # "settled" /\ firstFailure # None => Broken

CauseInv ==
  /\ override.kind # "none" => override.phase = CurrentPhase
  /\ override.kind = "timeout" /\ stage # "settled" =>
       override.afterFailure = (firstFailure # None)
  /\ terminating => abortRequested \/ override.kind # "none"
  /\ timers \cap {"kill", "settle"} # {} => terminating
  /\ Finalized /\ exit = NoExit => terminating
  /\ lifecycleTerminal => expectedPhase = CleanShutdown

LEMMA InitFailureInv == Init => FailureInv /\ CauseInv
  BY DEF Init, SupervisorInit, FailureInv, CauseInv, NoOverride, Finalized

LEMMA EndKeepsFailure ==
  ASSUME TypeInv, GrammarInv, FailureInv, NEW m \in Message, AcceptEnd(m), firstFailure' # None
  PROVE  Broken'
<1>1. m.phase \in Phase /\ openPhase = m.phase /\ m.phase = expectedPhase /\ openPhase # None
  BY DEF AcceptEnd, Ends, TypeInv, TypeOK, Phase, QvacImport, CleanShutdown, None
<1>2. m.state \in {"succeeded", "failed"}
  BY DEF AcceptEnd, Ends, Message, InvalidMessage
<1>3. stage # "settled" /\ ~lifecycleTerminal /\ phases \in Seq(PhaseRecord) /\ openPhase' = None
  BY DEF AcceptEnd, Deaf, Listening, Finalized, Acceptable, TypeInv, TypeOK
<1>4. phases' = Append(phases, PhaseEvent(m.phase, IF m.state = "succeeded" THEN "passed"
                                                   ELSE "failed"))
      /\ lifecycleTerminal' = (m.phase = CleanShutdown)
  BY DEF AcceptEnd
<1>5. /\ Len(phases) \in Nat /\ Len(phases') = Len(phases) + 1
      /\ \A i \in 1 .. Len(phases) : phases'[i] = phases[i]
      /\ phases'[Len(phases) + 1] = PhaseEvent(m.phase, IF m.state = "succeeded" THEN "passed"
                                                        ELSE "failed")
  BY <1>3, <1>4
<1>6. CASE firstFailure = None
  <2>1. firstFailure' = m.phase /\ m.state = "failed"
    BY <1>6 DEF AcceptEnd, FailureAfter
  <2>2. expectedPhase' = CleanShutdown
    BY <1>6, <2>1 DEF AcceptEnd, PhaseAfter
  <2>3. Len(phases) = m.phase - 1 /\ \A i \in 1 .. Len(phases) : phases[i] = PhaseEvent(i, "passed")
    BY <1>6, <1>1, <1>3 DEF GrammarInv, Grammar, PhasesInOrder, PhasesCounted
  <2>4. /\ Len(phases') = m.phase
        /\ phases'[m.phase] = PhaseEvent(m.phase, "failed")
        /\ \A i \in 1 .. m.phase - 1 : phases'[i] = PhaseEvent(i, "passed")
    BY <1>1, <1>5, <2>1, <2>3 DEF Phase, QvacImport, CleanShutdown
  <2>5. /\ m.phase <= Len(phases') /\ Len(phases') <= m.phase + 1
        /\ Len(phases') # m.phase + 1
    BY <1>1, <2>4 DEF Phase, QvacImport, CleanShutdown
  <2>6. /\ firstFailure' <= Len(phases') /\ Len(phases') <= firstFailure' + 1
        /\ Len(phases') # firstFailure' + 1
    BY <2>1, <2>5, Zenon
  <2>7. /\ phases'[firstFailure'] = PhaseEvent(firstFailure', "failed")
        /\ \A i \in 1 .. firstFailure' - 1 : phases'[i] = PhaseEvent(i, "passed")
        /\ lifecycleTerminal' <=> firstFailure' = CleanShutdown
    BY <1>4, <2>1, <2>4
  <2>8. OpenPhaseExpected'
    BY <1>3 DEF OpenPhaseExpected
  <2>9. QED
    BY <2>2, <2>6, <2>7, <2>8 DEF Broken
<1>7. CASE firstFailure # None
  <2>1. Broken /\ firstFailure' = firstFailure /\ firstFailure \in Phase
    BY <1>3, <1>7 DEF FailureInv, AcceptEnd, FailureAfter, TypeInv, TypeOK
  <2>2. m.phase = CleanShutdown /\ Len(phases) = firstFailure /\ firstFailure < CleanShutdown
    BY <1>1, <1>3, <1>5, <2>1 DEF Broken, Phase, QvacImport, CleanShutdown
  <2>3. lifecycleTerminal' /\ expectedPhase' = CleanShutdown
    BY <1>4, <1>7, <2>2 DEF AcceptEnd, PhaseAfter
  <2>4. /\ Len(phases') = firstFailure + 1
        /\ phases'[firstFailure + 1].name = CleanShutdown
        /\ phases'[firstFailure + 1].status # "unknown"
    BY <1>5, <2>2 DEF PhaseEvent
  <2>5. /\ phases'[firstFailure] = PhaseEvent(firstFailure, "failed")
        /\ \A i \in 1 .. firstFailure - 1 : phases'[i] = PhaseEvent(i, "passed")
    BY <1>5, <2>1, <2>2 DEF Broken, Phase, QvacImport, CleanShutdown
  <2>6. QED
    BY <1>3, <2>1, <2>2, <2>3, <2>4, <2>5
    DEF Broken, OpenPhaseExpected, Phase, QvacImport, CleanShutdown, None
<1>8. QED
  BY <1>6, <1>7

LEMMA NextFailureInv ==
  TypeInv /\ GrammarInv /\ FailureInv /\ [Next]_supervisorVars => FailureInv'
<1> SUFFICES ASSUME TypeInv, GrammarInv, FailureInv, [Next]_supervisorVars PROVE FailureInv'
  OBVIOUS
<1>1. CASE UNCHANGED lifecycle /\ (stage' # "settled" => stage # "settled")
  BY <1>1 DEF FailureInv, lifecycle, Broken, OpenPhaseExpected
<1>2. ASSUME NEW m \in Message, OnMessage(m) PROVE FailureInv'
  <2>1. CASE IgnoreMessage \/ RejectMessage(m)
    BY <2>1, <1>1 DEF IgnoreMessage, RejectMessage, supervisorVars, ending
  <2>2. CASE AcceptStart(m)
    BY <2>2 DEF AcceptStart, Acceptable, Starts, FailureInv, Broken, OpenPhaseExpected, ending
  <2>3. CASE AcceptBackend(m)
    BY <2>3 DEF AcceptBackend, FailureInv, Broken, OpenPhaseExpected, ending
  <2>4. CASE AcceptEnd(m)
    BY <2>4, EndKeepsFailure DEF FailureInv
  <2>5. QED
    BY <1>2, <2>1, <2>2, <2>3, <2>4 DEF OnMessage
<1>3. ASSUME NEW e \in RootExit \cup {NoExit}, Finalize(e) PROVE FailureInv'
  BY <1>3, <1>1 DEF Finalize, Finalized
<1>4. CASE SweepKill
  BY <1>4, <1>1 DEF SweepKill
<1>5. ASSUME NEW survivors \in BOOLEAN, SweepDone(survivors) PROVE FailureInv'
  BY <1>5 DEF SweepDone, FailureInv
<1>6. CASE Attach \/ Abort \/ DisposeAfterLaunchFailure \/ KillTimer
  BY <1>6, <1>1 DEF Attach, Abort, DisposeAfterLaunchFailure, KillTimer, ending
<1>7. ASSUME NEW timer \in {"phase", "overall"}, Timeout(timer) PROVE FailureInv'
  BY <1>7, <1>1 DEF Timeout, ending
<1>8. QED
  BY <1>1, <1>2, <1>3, <1>4, <1>5, <1>6, <1>7
  DEF Next, PhaseTimer, OverallTimer, SettleTimer, OnExit, supervisorVars, ending

LEMMA CurrentIsExpected ==
  ASSUME GrammarInv, FailureInv, stage # "settled"
  PROVE  CurrentPhase = expectedPhase /\ (lifecycleTerminal => openPhase = None)
  BY DEF GrammarInv, FailureInv, Grammar, Broken, OpenPhaseExpected, CurrentPhase

LEMMA NextCauseInv == TypeInv /\ CauseInv /\ [Next]_supervisorVars => CauseInv'
<1> SUFFICES ASSUME TypeInv, CauseInv, [Next]_supervisorVars PROVE CauseInv'
  OBVIOUS
<1> USE DEF CauseInv, CurrentPhase, Finalized
<1>1. CASE Attach
  <2>1. terminating' => abortRequested \/ terminating
    BY <1>1 DEF Attach, Terminate
  <2>2. timers' \cap {"kill", "settle"} # {} => terminating'
    BY <1>1 DEF Attach, Terminate
  <2>3. QED
    BY <1>1, <2>1, <2>2 DEF Attach, lifecycle, ending
<1>2. CASE Abort
  <2>1. timers' \cap {"kill", "settle"} # {} => terminating'
    BY <1>2 DEF Abort, Terminate
  <2>2. QED
    BY <1>2, <2>1 DEF Abort, lifecycle, ending
<1>3. CASE DisposeAfterLaunchFailure
  BY <1>3 DEF DisposeAfterLaunchFailure, lifecycle, ending
<1>4. ASSUME NEW m \in Message, OnMessage(m) PROVE CauseInv'
  <2>1. CASE IgnoreMessage
    BY <2>1 DEF IgnoreMessage, supervisorVars, lifecycle, ending
  <2>2. CASE RejectMessage(m)
    <3>1. timers' \cap {"kill", "settle"} # {} => terminating'
      BY <2>2 DEF RejectMessage, Terminate
    <3>2. override' = [kind |-> "protocol", phase |-> CurrentPhase, afterFailure |-> FALSE]
          /\ UNCHANGED <<lifecycle, abortRequested, ending>>
      BY <2>2 DEF RejectMessage
    <3>3. QED
      BY <2>2, <3>1, <3>2 DEF RejectMessage, Deaf, Listening, lifecycle, ending
  <2>3. CASE AcceptStart(m)
    BY <2>3 DEF AcceptStart, Deaf, Listening, ending
  <2>4. CASE AcceptBackend(m)
    BY <2>4 DEF AcceptBackend, Deaf, Listening, ending
  <2>5. CASE AcceptEnd(m)
    <3>1. m.phase = CleanShutdown => expectedPhase' = CleanShutdown
      BY <2>5 DEF AcceptEnd, PhaseAfter
    <3>2. QED
      BY <2>5, <3>1 DEF AcceptEnd, Deaf, Listening, ending
  <2>6. QED
    BY <1>4, <2>1, <2>2, <2>3, <2>4, <2>5 DEF OnMessage
<1>5. ASSUME NEW timer \in {"phase", "overall"}, Timeout(timer) PROVE CauseInv'
  <2>1. timers' \cap {"kill", "settle"} # {} => terminating'
    BY <1>5 DEF Timeout, Terminate
  <2>2. CASE override.kind # "none"
    BY <1>5, <2>1, <2>2 DEF Timeout, lifecycle, ending
  <2>3. CASE override.kind = "none"
    <3>1. override' = [kind |-> "timeout", phase |-> CurrentPhase,
                       afterFailure |-> firstFailure # None]
          /\ UNCHANGED <<lifecycle, abortRequested, ending>>
      BY <1>5, <2>3 DEF Timeout
    <3>2. terminating' => terminating \/ override'.kind # "none"
      BY <3>1
    <3>3. QED
      BY <1>5, <2>1, <2>3, <3>1, <3>2 DEF Timeout, Terminate, lifecycle, ending
  <2>4. QED
    BY <2>2, <2>3
<1>6. CASE KillTimer
  BY <1>6 DEF KillTimer, lifecycle, ending
<1>7. ASSUME NEW e \in RootExit, Finalize(e) PROVE CauseInv'
  <2>1. e # NoExit
    BY DEF RootExit, NoExit, ExitBy, NoCode, NoSignal
  <2>2. QED
    BY <1>7, <2>1 DEF Finalize, lifecycle
<1>8. CASE SettleTimer
  BY <1>8 DEF SettleTimer, Finalize, lifecycle
<1>9. CASE SweepKill
  BY <1>9 DEF SweepKill, lifecycle
<1>10. ASSUME NEW survivors \in BOOLEAN, SweepDone(survivors) PROVE CauseInv'
  BY <1>10 DEF SweepDone
<1>11. CASE UNCHANGED supervisorVars
  BY <1>11 DEF supervisorVars, lifecycle, ending
<1>12. QED
  BY <1>1, <1>2, <1>3, <1>4, <1>5, <1>6, <1>7, <1>8, <1>9, <1>10, <1>11
  DEF Next, PhaseTimer, OverallTimer, OnExit

(***************************************************************************)
(* KeepAt over the index sets that occur: a prefix, one index, none.       *)
(***************************************************************************)
LEMMA KeepPrefix ==
  ASSUME NEW s, NEW n \in Nat
  PROVE  KeepAt(s, 1 .. n) = [i \in 1 .. n |-> s[i]]
<1> DEFINE Nth(k) == CHOOSE i \in 1 .. n : Cardinality({j \in 1 .. n : j <= i}) = k
<1>1. KeepAt(s, 1 .. n) = [k \in 1 .. Cardinality(1 .. n) |-> s[Nth(k)]]
  BY DEF KeepAt
<1>2. \A i \in 1 .. n : Cardinality({j \in 1 .. n : j <= i}) = i
  <2> TAKE i \in 1 .. n
  <2>1. {j \in 1 .. n : j <= i} = 1 .. i
    OBVIOUS
  <2>2. Cardinality(1 .. i) = i
    BY FS_Interval
  <2> QED  BY <2>1, <2>2
<1>3. \A k \in 1 .. n : Nth(k) = k
  BY <1>2
<1>4. Cardinality(1 .. n) = n
  BY FS_Interval
<1> HIDE DEF Nth
<1> QED  BY <1>1, <1>3, <1>4

LEMMA KeepOne ==
  ASSUME NEW s, NEW i \in Int
  PROVE  KeepAt(s, {i}) = [n \in 1 .. 1 |-> s[i]]
<1> DEFINE Nth(k) == CHOOSE n \in {i} : Cardinality({j \in {i} : j <= n}) = k
<1>1. KeepAt(s, {i}) = [k \in 1 .. Cardinality({i}) |-> s[Nth(k)]]
  BY DEF KeepAt
<1>2. Cardinality({i}) = 1
  BY FS_Singleton
<1>3. {j \in {i} : j <= i} = {i}
  OBVIOUS
<1>4. Nth(1) = i
  BY <1>2, <1>3
<1> HIDE DEF Nth
<1> QED  BY <1>1, <1>2, <1>4

LEMMA KeepNone == ASSUME NEW s PROVE KeepAt(s, {}) = <<>>
<1>1. Cardinality({}) = 0
  BY FS_EmptySet
<1> QED  BY <1>1 DEF KeepAt

(***************************************************************************)
(* The phases of a report: k phases passed, and s is what became of the    *)
(* next one, or "passed" when there is none.                               *)
(***************************************************************************)
Upto(k) == IF k = CleanShutdown THEN k ELSE k + 1
Status == {"passed", "failed", "unknown"}
Reached(ps, k, s) ==
  /\ s = "passed" <=> k = CleanShutdown
  /\ ps = [i \in 1 .. Upto(k) |-> PhaseEvent(i, IF i <= k THEN "passed" ELSE s)]

LEMMA ReachedPhases ==
  ASSUME NEW k \in 0 .. CleanShutdown, NEW s \in Status, NEW ps, Reached(ps, k, s)
  PROVE  /\ Upto(k) \in 1 .. CleanShutdown
         /\ ps \in Seq(PhaseRecord) /\ Len(ps) = Upto(k) /\ DOMAIN ps = 1 .. Upto(k)
         /\ \A i \in 1 .. Upto(k) : ps[i] = PhaseEvent(i, IF i <= k THEN "passed" ELSE s)
         /\ \A i \in 1 .. Upto(k) : /\ ps[i].name = i
                                    /\ ps[i].status = IF i <= k THEN "passed" ELSE s
         /\ InLifecycleOrder(ps)
<1> USE DEF Upto, CleanShutdown
<1>1. Upto(k) \in 1 .. CleanShutdown
  OBVIOUS
<1>2. \A i \in 1 .. Upto(k) : PhaseEvent(i, IF i <= k THEN "passed" ELSE s) \in PhaseRecord
  BY DEF PhaseEvent, PhaseRecord, Phase, QvacImport, Status
<1>3. ps \in Seq(PhaseRecord) /\ Len(ps) = Upto(k) /\ DOMAIN ps = 1 .. Upto(k)
  BY <1>1, <1>2 DEF Reached
<1>4. \A i \in 1 .. Upto(k) : ps[i] = PhaseEvent(i, IF i <= k THEN "passed" ELSE s)
  BY DEF Reached
<1>5. ASSUME NEW i \in 1 .. Upto(k)
      PROVE  ps[i].name = i /\ ps[i].status = IF i <= k THEN "passed" ELSE s
  <2>1. ps[i] = PhaseEvent(i, IF i <= k THEN "passed" ELSE s)
    BY <1>4
  <2> QED  BY <2>1 DEF PhaseEvent
<1>6. InLifecycleOrder(ps)
  BY <1>1, <1>3, <1>5 DEF InLifecycleOrder
<1> QED  BY <1>1, <1>3, <1>4, <1>5, <1>6

LEMMA ReachedStatus ==
  ASSUME NEW k \in 0 .. CleanShutdown, NEW s \in Status, NEW ps, Reached(ps, k, s),
         NEW p \in Phase
  PROVE  StatusOf(ps, p) = IF p <= k THEN "passed" ELSE IF p = k + 1 THEN s ELSE "absent"
<1>1. /\ DOMAIN ps = 1 .. Upto(k) /\ Upto(k) \in 1 .. CleanShutdown
      /\ \A i \in 1 .. Upto(k) : ps[i].name = i /\ ps[i].status = IF i <= k THEN "passed" ELSE s
  BY ReachedPhases
<1>2. CASE p \in 1 .. Upto(k)
  <2>1. (CHOOSE i \in DOMAIN ps : ps[i].name = p) = p
    BY <1>1, <1>2
  <2>2. StatusOf(ps, p) = ps[p].status
    BY <1>1, <1>2, <2>1 DEF StatusOf
  <2> QED  BY <1>1, <1>2, <2>2 DEF Upto, CleanShutdown
<1>3. CASE p \notin 1 .. Upto(k)
  <2>1. StatusOf(ps, p) = "absent"
    BY <1>1, <1>3 DEF StatusOf
  <2>2. p > k + 1
    BY <1>3 DEF Upto, Phase, QvacImport, CleanShutdown
  <2> QED  BY <2>1, <2>2 DEF Phase, QvacImport, CleanShutdown
<1> QED  BY <1>2, <1>3

LEMMA ReachedLast ==
  ASSUME NEW k \in 0 .. CleanShutdown, NEW s \in Status, NEW ps, Reached(ps, k, s)
  PROVE  LastPassed(ps) = k
<1> DEFINE passed == {i \in DOMAIN ps : ps[i].status = "passed"}
<1>1. /\ DOMAIN ps = 1 .. Upto(k)
      /\ \A i \in 1 .. Upto(k) : ps[i].name = i /\ ps[i].status = IF i <= k THEN "passed" ELSE s
  BY ReachedPhases
<1>2. passed = 1 .. k
  <2>1. \A i \in 1 .. Upto(k) : i <= k \/ s # "passed"
    BY DEF Reached, Upto, CleanShutdown
  <2>2. \A i \in 1 .. Upto(k) : ps[i].status = "passed" <=> i <= k
    BY <1>1, <2>1, Zenon
  <2>3. Upto(k) \in Nat /\ k <= Upto(k)
    BY DEF Upto, CleanShutdown
  <2> QED  BY <1>1, <2>2, <2>3
<1>3. CASE k = 0
  BY <1>2, <1>3 DEF LastPassed, None
<1>4. CASE k # 0
  <2>1. k \in passed
    BY <1>2, <1>4 DEF CleanShutdown
  <2>2. (CHOOSE i \in passed : \A j \in passed : j <= i) = k
    <3>1. \A i \in 1 .. k : (\A j \in 1 .. k : j <= i) <=> i = k
      BY <1>4
    <3> QED  BY <1>2, <3>1, <2>1
  <2>3. ps[k].name = k
    BY <1>1, <1>2, <2>1
  <2> QED  BY <2>1, <2>2, <2>3 DEF LastPassed
<1> QED  BY <1>3, <1>4

LEMMA ReachedInference ==
  ASSUME NEW k \in 0 .. CleanShutdown, NEW s \in Status, NEW ps, Reached(ps, k, s)
  PROVE  InferenceAttempted(ps) <=> StatusOf(ps, Inference) \in {"passed", "failed"}
<1>1. /\ DOMAIN ps = 1 .. Upto(k)
      /\ \A i \in 1 .. Upto(k) : ps[i].name = i /\ ps[i].status = IF i <= k THEN "passed" ELSE s
  BY ReachedPhases
<1>2. StatusOf(ps, Inference) = IF Inference <= k THEN "passed"
                                ELSE IF Inference = k + 1 THEN s ELSE "absent"
  BY ReachedStatus DEF Inference, Phase, QvacImport, CleanShutdown
<1> QED  BY <1>1, <1>2 DEF InferenceAttempted, Inference, Upto, CleanShutdown

(***************************************************************************)
(* What #ensureTerminalPhase leaves: a report's phases, and after a failed *)
(* one perhaps the record of the cleanup, which is not reported.           *)
(***************************************************************************)
ClosedAs(ps, k, s) ==
  /\ s = "passed" <=> k = CleanShutdown
  /\ Upto(k) <= Len(ps) /\ Len(ps) <= Upto(k) + 1
  /\ \A i \in 1 .. Upto(k) : ps[i] = PhaseEvent(i, IF i <= k THEN "passed" ELSE s)
  /\ Len(ps) = Upto(k) + 1 =>
       s = "failed" /\ Upto(k) < CleanShutdown /\ ps[Upto(k) + 1].name = CleanShutdown

LEMMA ClosedNames ==
  ASSUME NEW k \in 0 .. CleanShutdown, NEW s \in Status, NEW ps \in Seq(PhaseRecord),
         ClosedAs(ps, k, s)
  PROVE  /\ Upto(k) \in 1 .. CleanShutdown /\ k <= Upto(k)
         /\ DOMAIN ps = 1 .. Len(ps) /\ Len(ps) \in Upto(k) .. Upto(k) + 1
         /\ \A i \in 1 .. Upto(k) : /\ ps[i].name = i
                                    /\ ps[i].status = IF i <= k THEN "passed" ELSE s
         /\ \A i \in DOMAIN ps : i \notin 1 .. Upto(k) => ps[i].name > Upto(k)
<1>1. Upto(k) \in 1 .. CleanShutdown /\ k <= Upto(k)
  BY DEF Upto, CleanShutdown
<1>2. DOMAIN ps = 1 .. Len(ps) /\ Len(ps) \in Upto(k) .. Upto(k) + 1
  BY <1>1 DEF ClosedAs, CleanShutdown
<1>3. ASSUME NEW i \in 1 .. Upto(k)
      PROVE  ps[i].name = i /\ ps[i].status = IF i <= k THEN "passed" ELSE s
  <2>1. ps[i] = PhaseEvent(i, IF i <= k THEN "passed" ELSE s)
    BY DEF ClosedAs
  <2> QED  BY <2>1 DEF PhaseEvent
<1>4. ASSUME NEW i \in DOMAIN ps, i \notin 1 .. Upto(k)
      PROVE  ps[i].name > Upto(k)
  <2>1. i = Upto(k) + 1 /\ Len(ps) = Upto(k) + 1
    BY <1>1, <1>2, <1>4 DEF CleanShutdown
  <2> QED  BY <1>1, <2>1 DEF ClosedAs, CleanShutdown
<1> QED  BY <1>1, <1>2, <1>3, <1>4

LEMMA ClosedStatus ==
  ASSUME NEW k \in 0 .. CleanShutdown, NEW s \in Status, NEW ps \in Seq(PhaseRecord),
         ClosedAs(ps, k, s), NEW p \in 1 .. Upto(k)
  PROVE  StatusOf(ps, p) = IF p <= k THEN "passed" ELSE s
<1>1. p \in DOMAIN ps /\ ps[p].name = p
  BY ClosedNames
<1>2. \A i \in DOMAIN ps : ps[i].name = p => i = p
  BY ClosedNames DEF CleanShutdown
<1>3. (CHOOSE i \in DOMAIN ps : ps[i].name = p) = p
  BY <1>1, <1>2
<1> QED  BY <1>1, <1>3, ClosedNames DEF StatusOf

LEMMA ClosedPrefix ==
  ASSUME NEW k \in 0 .. CleanShutdown, NEW s \in Status, NEW ps \in Seq(PhaseRecord),
         ClosedAs(ps, k, s)
  PROVE  Cardinality({p \in Phase : \A q \in 1 .. p : StatusOf(ps, q) = "passed"}) = k
<1>1. \A p \in Phase : (\A q \in 1 .. p : StatusOf(ps, q) = "passed") <=> p <= k
  <2> TAKE p \in Phase
  <2>1. CASE p <= k
    <3>1. \A q \in 1 .. p : q \in 1 .. Upto(k) /\ q <= k
      BY <2>1 DEF Upto, CleanShutdown, Phase, QvacImport
    <3> QED  BY <2>1, <3>1, ClosedStatus
  <2>2. CASE ~(p <= k)
    <3>1. k # CleanShutdown /\ k + 1 \in 1 .. Upto(k) /\ k + 1 \in 1 .. p /\ ~(k + 1 <= k)
      BY <2>2 DEF Upto, CleanShutdown, Phase, QvacImport
    <3>2. StatusOf(ps, k + 1) = s
      BY <3>1, ClosedStatus
    <3> QED  BY <2>2, <3>1, <3>2 DEF ClosedAs
  <2> QED  BY <2>1, <2>2
<1>2. {p \in Phase : \A q \in 1 .. p : StatusOf(ps, q) = "passed"} = 1 .. k
  BY <1>1 DEF Phase, QvacImport, CleanShutdown
<1>3. Cardinality(1 .. k) = k
  BY FS_Interval
<1> QED  BY <1>2, <1>3

LEMMA ClosedKept ==
  ASSUME NEW k \in 0 .. CleanShutdown, NEW s \in Status, NEW ps \in Seq(PhaseRecord),
         ClosedAs(ps, k, s)
  PROVE  /\ Reached(KeepAt(ps, {i \in DOMAIN ps : ps[i].name <= Upto(k)}), k, s)
         /\ s # "failed" => Reached(ps, k, s)
<1>1. {i \in DOMAIN ps : ps[i].name <= Upto(k)} = 1 .. Upto(k)
  <2>1. \A i \in DOMAIN ps : ps[i].name \in Phase
    <3> TAKE i \in DOMAIN ps
    <3>1. ps[i] \in PhaseRecord
      OBVIOUS
    <3> QED  BY <3>1 DEF PhaseRecord
  <2>2. \A i \in DOMAIN ps : ps[i].name <= Upto(k) <=> i \in 1 .. Upto(k)
    BY <2>1, ClosedNames DEF CleanShutdown, Phase, QvacImport
  <2>3. 1 .. Upto(k) \subseteq DOMAIN ps
    BY ClosedNames DEF CleanShutdown
  <2> QED  BY <2>2, <2>3
<1>2. Upto(k) \in Nat
  BY ClosedNames DEF CleanShutdown
<1>3. KeepAt(ps, 1 .. Upto(k)) = [i \in 1 .. Upto(k) |-> ps[i]]
  BY <1>2, KeepPrefix
<1>4. \A i \in 1 .. Upto(k) : ps[i] = PhaseEvent(i, IF i <= k THEN "passed" ELSE s)
  BY DEF ClosedAs
<1>5. Reached([i \in 1 .. Upto(k) |-> ps[i]], k, s)
  BY <1>4 DEF Reached, ClosedAs
<1>6. CASE s # "failed"
  <2>1. Len(ps) = Upto(k)
    BY <1>6, ClosedNames DEF ClosedAs, CleanShutdown
  <2>2. ps = [i \in 1 .. Upto(k) |-> ps[i]]
    BY <2>1
  <2> QED  BY <1>1, <1>3, <1>5, <2>2
<1> QED  BY <1>1, <1>3, <1>5, <1>6

(* The end of the lifecycle that the supervisor has seen, in its terms.    *)
Cut(k, s) ==
  /\ Reached(ReportedPhases, k, s)
  /\ LastCompletedPhase = k
  /\ ClosedFailure = IF s = "failed" THEN k + 1 ELSE None
  /\ AllPassed <=> s = "passed"
  /\ firstFailure = None => expectedPhase = Upto(k) /\ (s = "passed" => openPhase = None)
  /\ firstFailure # None => s = "failed" /\ firstFailure = k + 1
  /\ s = "unknown" => override.kind = "protocol" \/ (override.kind = "none" /\ exit.code = 0)
  /\ \A i \in 1 .. k : i \in DOMAIN phases /\ phases[i] = PhaseEvent(i, "passed")
  /\ firstFailure = None /\ s # "passed" => ~lifecycleTerminal
  /\ firstFailure = None /\ s = "failed" => EndingStatus = "failed"

LEMMA CutFromClosed ==
  ASSUME NEW k \in 0 .. CleanShutdown, NEW s \in Status, TypeInv,
         ClosedAs(ClosedPhases, k, s), ClosedFailure = IF s = "failed" THEN k + 1 ELSE None
  PROVE  /\ Reached(ReportedPhases, k, s)
         /\ LastCompletedPhase = k
         /\ AllPassed <=> s = "passed"
<1>1. ClosedPhases \in Seq(PhaseRecord)
  BY ClosedType
<1>2. s = "failed" => ClosedFailure # None /\ ClosedFailure = Upto(k)
  BY DEF ClosedAs, Upto, None, CleanShutdown
<1>3. Reached(ReportedPhases, k, s)
  BY <1>1, <1>2, ClosedKept DEF ReportedPhases
<1>4. LastCompletedPhase = k
  BY <1>1, ClosedPrefix DEF LastCompletedPhase
<1>5. ASSUME s = "passed"  PROVE AllPassed
  <2>1. k = CleanShutdown /\ Upto(k) = CleanShutdown
    BY <1>5 DEF ClosedAs, Upto
  <2>2. \A p \in Phase : p \in DOMAIN ClosedPhases /\ ClosedPhases[p] = PhaseEvent(p, "passed")
    BY <1>1, <2>1, ClosedNames DEF ClosedAs, Phase, QvacImport, CleanShutdown
  <2> QED  BY <1>5, <2>2 DEF AllPassed
<1>6. ASSUME AllPassed  PROVE s = "passed"
  <2>1. s # "failed" /\ k \in 0 .. CleanShutdown
    BY <1>2, <1>6 DEF AllPassed
  <2>2. CASE k # CleanShutdown
    <3>1. k + 1 \in Phase /\ Upto(k) = k + 1
      BY <2>2 DEF Phase, QvacImport, CleanShutdown, Upto
    <3>2. PICK i \in DOMAIN ClosedPhases : ClosedPhases[i] = PhaseEvent(k + 1, "passed")
      BY <1>6, <3>1 DEF AllPassed
    <3>3. ClosedPhases[i].name = k + 1 /\ ClosedPhases[i].status = "passed"
      BY <3>2 DEF PhaseEvent
    <3>4. i \in 1 .. Upto(k)
      BY <1>1, <3>1, <3>3, ClosedNames DEF CleanShutdown
    <3>5. i = k + 1 /\ ~(i <= k)
      BY <1>1, <3>3, <3>4, ClosedNames DEF CleanShutdown
    <3> QED  BY <1>1, <3>3, <3>4, <3>5, ClosedNames DEF CleanShutdown
  <2> QED  BY <2>1, <2>2 DEF ClosedAs
<1> QED  BY <1>3, <1>4, <1>5, <1>6

LEMMA RecordedNot ==
  ASSUME NEW k \in Nat, \A i \in DOMAIN phases : phases[i].name <= k, k < expectedPhase,
         phases \in Seq(PhaseRecord), expectedPhase \in Phase
  PROVE  ~Recorded(expectedPhase)
<1> SUFFICES ASSUME NEW i \in DOMAIN phases, phases[i].name = expectedPhase PROVE FALSE
  BY DEF Recorded
<1>1. phases[i].name <= k /\ expectedPhase \in Int
  BY DEF Phase, QvacImport, CleanShutdown
<1> QED  BY <1>1

LEMMA CutExists ==
  ASSUME TypeInv, GrammarInv, FailureInv, CauseInv, stage = "sweeping"
  PROVE  \E k \in 0 .. CleanShutdown, s \in Status : Cut(k, s)
<1>1. EndingPhase = expectedPhase /\ (lifecycleTerminal => openPhase = None)
  BY CurrentIsExpected DEF EndingPhase, CauseInv
<1>2. phases \in Seq(PhaseRecord) /\ expectedPhase \in Phase /\ Len(phases) \in Nat
  BY DEF TypeInv, TypeOK
<1>3. override.kind \in {"none", "timeout", "protocol"}
  BY DEF TypeInv, TypeOK, Override
<1>4. CASE firstFailure = None /\ lifecycleTerminal
  <2>1. Grammar /\ expectedPhase = CleanShutdown
    BY <1>4 DEF GrammarInv, CauseInv
  <2>2. Len(phases) = CleanShutdown /\ \A i \in 1 .. CleanShutdown : phases[i] = PhaseEvent(i, "passed")
    BY <1>4, <2>1 DEF Grammar, PhasesCounted, PhasesInOrder
  <2>3. Recorded(EndingPhase)
    <3>1. CleanShutdown \in DOMAIN phases /\ phases[CleanShutdown].name = CleanShutdown
      BY <1>2, <2>2 DEF PhaseEvent, CleanShutdown
    <3> QED  BY <1>1, <2>1, <3>1 DEF Recorded
  <2>4. ClosedPhases = phases /\ ClosedFailure = None
    BY <1>4, <2>3 DEF ClosedPhases, ClosedFailure, EndingStatus
  <2>5. ClosedAs(ClosedPhases, CleanShutdown, "passed")
    <3>1. Upto(CleanShutdown) = CleanShutdown
      BY DEF Upto
    <3>2. \A i \in 1 .. CleanShutdown :
             ClosedPhases[i] = PhaseEvent(i, IF i <= CleanShutdown THEN "passed" ELSE "passed")
      BY <2>2, <2>4
    <3>3. Len(ClosedPhases) = 5 /\ CleanShutdown = 5
      BY <2>2, <2>4 DEF CleanShutdown
    <3>4. CleanShutdown <= Len(ClosedPhases) /\ Len(ClosedPhases) <= CleanShutdown + 1
          /\ Len(ClosedPhases) # CleanShutdown + 1
      BY <3>3
    <3> QED  BY <3>1, <3>2, <3>4 DEF ClosedAs
  <2>6. \A i \in 1 .. CleanShutdown : i \in DOMAIN phases /\ phases[i] = PhaseEvent(i, "passed")
    BY <1>2, <2>2
  <2>7. Cut(CleanShutdown, "passed")
    BY <1>1, <1>4, <2>1, <2>4, <2>5, <2>6, CutFromClosed DEF Cut, Status, Upto, CleanShutdown
  <2> QED  BY <2>7 DEF Status, CleanShutdown
<1>5. CASE firstFailure = None /\ ~lifecycleTerminal
  <2> DEFINE k == expectedPhase - 1
  <2>1. k \in 0 .. CleanShutdown /\ k # CleanShutdown /\ Upto(k) = expectedPhase /\ k + 1 = expectedPhase
        /\ k \in Nat
    BY <1>2 DEF Phase, QvacImport, CleanShutdown, Upto
  <2>2. Len(phases) = k /\ \A i \in 1 .. k : phases[i] = PhaseEvent(i, "passed")
    BY <1>5 DEF GrammarInv, Grammar, PhasesCounted, PhasesInOrder
  <2>3. ~Recorded(expectedPhase)
    <3>1. \A i \in DOMAIN phases : phases[i].name <= k
      <4> TAKE i \in DOMAIN phases
      <4>1. i \in 1 .. k
        BY <1>2, <2>2
      <4>2. phases[i].name = i
        BY <2>2, <4>1 DEF PhaseEvent
      <4>3. i <= k
        BY <2>1, <4>1
      <4> QED  BY <4>2, <4>3
    <3>2. k < expectedPhase
      BY <2>1
    <3> HIDE DEF k
    <3> QED  BY <1>2, <2>1, <3>1, <3>2, RecordedNot
  <2>4. EndingStatus \in {"failed", "unknown"}
    BY <1>1, <1>5, <2>3 DEF EndingStatus
  <2>5. ClosedPhases = Append(phases, PhaseEvent(expectedPhase, EndingStatus))
    BY <1>1, <2>4 DEF ClosedPhases
  <2>6. ClosedFailure = IF EndingStatus = "failed" THEN k + 1 ELSE None
    BY <1>1, <1>5, <2>1 DEF ClosedFailure
  <2>7. ClosedAs(ClosedPhases, k, EndingStatus)
    <3>1. /\ Len(ClosedPhases) = expectedPhase
          /\ \A i \in 1 .. k : ClosedPhases[i] = phases[i]
          /\ ClosedPhases[expectedPhase] = PhaseEvent(expectedPhase, EndingStatus)
      BY <1>2, <2>1, <2>2, <2>5
    <3>2. \A i \in 1 .. Upto(k) : ClosedPhases[i] = PhaseEvent(i, IF i <= k THEN "passed"
                                                                ELSE EndingStatus)
      BY <2>1, <2>2, <3>1 DEF CleanShutdown
    <3> QED  BY <1>2, <2>1, <2>4, <3>1, <3>2 DEF ClosedAs, Phase, QvacImport, CleanShutdown
  <2>8. EndingStatus = "unknown" => override.kind = "protocol" \/ (override.kind = "none" /\ exit.code = 0)
    BY DEF EndingStatus, CleanlyUnfinished
  <2>9. \A i \in 1 .. k : i \in DOMAIN phases /\ phases[i] = PhaseEvent(i, "passed")
    BY <1>2, <2>2
  <2> HIDE DEF k
  <2>10. Cut(k, EndingStatus)
    BY <1>5, <2>1, <2>4, <2>6, <2>7, <2>8, <2>9, CutFromClosed DEF Cut, Status
  <2> QED  BY <2>1, <2>4, <2>10 DEF Status
<1>6. CASE firstFailure # None
  <2> DEFINE k == firstFailure - 1
  <2>1. Broken /\ firstFailure \in Phase
    BY <1>6 DEF FailureInv, TypeInv, TypeOK
  <2>2. k \in 0 .. CleanShutdown /\ k # CleanShutdown /\ Upto(k) = firstFailure /\ k + 1 = firstFailure
    BY <2>1 DEF Phase, QvacImport, CleanShutdown, Upto
  <2>3. ClosedFailure = firstFailure /\ EndingStatus \in {"recorded", "unknown", "omitted"}
    BY <1>6, ClosedFailureStands DEF EndingStatus
  <2>4. \A i \in 1 .. Upto(k) : phases[i] = PhaseEvent(i, IF i <= k THEN "passed" ELSE "failed")
    BY <2>1, <2>2 DEF Broken, CleanShutdown
  <2>5. ClosedAs(ClosedPhases, k, "failed")
    <3>1. CASE ClosedPhases = phases
      BY <2>1, <2>2, <2>4, <3>1 DEF Broken, ClosedAs
    <3>2. CASE ClosedPhases # phases
      <4>1. EndingStatus = "unknown" /\ ClosedPhases = Append(phases, PhaseEvent(EndingPhase, "unknown"))
            /\ ~Recorded(EndingPhase)
        BY <2>3, <3>2 DEF ClosedPhases, EndingStatus
      <4>2. expectedPhase = CleanShutdown /\ EndingPhase = CleanShutdown
        BY <1>1, <2>1 DEF Broken
      <4>3. Len(phases) = firstFailure /\ firstFailure < CleanShutdown
        <5>1. Len(phases) # firstFailure + 1
          BY <1>2, <2>1, <4>1, <4>2 DEF Broken, Recorded, Phase, QvacImport, CleanShutdown
        <5>2. Len(phases) = firstFailure
          BY <1>2, <2>1, <5>1 DEF Broken, Phase, QvacImport, CleanShutdown
        <5>3. firstFailure # CleanShutdown
          BY <1>2, <2>1, <4>1, <4>2, <5>2 DEF Broken, Recorded, PhaseEvent, CleanShutdown
        <5> QED  BY <2>1, <5>2, <5>3 DEF Phase, QvacImport, CleanShutdown
      <4>4. /\ Len(ClosedPhases) = firstFailure + 1
            /\ \A i \in 1 .. firstFailure : ClosedPhases[i] = phases[i]
            /\ ClosedPhases[firstFailure + 1] = PhaseEvent(CleanShutdown, "unknown")
        BY <1>2, <4>1, <4>2, <4>3
      <4>5. ClosedPhases[firstFailure + 1].name = CleanShutdown
        BY <4>4 DEF PhaseEvent
      <4> QED  BY <2>1, <2>2, <2>4, <4>3, <4>4, <4>5 DEF ClosedAs, Phase, QvacImport, CleanShutdown
    <3> QED  BY <3>1, <3>2
  <2>6. \A i \in 1 .. k : i \in DOMAIN phases /\ phases[i] = PhaseEvent(i, "passed")
    BY <1>2, <2>1, <2>2 DEF Broken, Phase, QvacImport, CleanShutdown
  <2> HIDE DEF k
  <2>7. Cut(k, "failed")
    <3>1. "failed" \in Status
      BY DEF Status
    <3>2. ClosedFailure = k + 1
      BY <2>2, <2>3
    <3>3. /\ Reached(ReportedPhases, k, "failed") /\ LastCompletedPhase = k
          /\ AllPassed <=> "failed" = "passed"
      BY <2>2, <2>5, <3>1, <3>2, CutFromClosed
    <3> QED  BY <1>6, <2>2, <2>6, <3>2, <3>3 DEF Cut
  <2> QED  BY <2>2, <2>7 DEF Status
<1> QED  BY <1>4, <1>5, <1>6

(***************************************************************************)
(* How the run ended, by its cause.                                        *)
(***************************************************************************)
LEMMA ExitValues ==
  ASSUME TypeInv
  PROVE  /\ exit.code \in {NoCode, 0, 1}
         /\ exit.signal # NoSignal => exit.code = NoCode /\ exit # NoExit
         /\ exit.signal = NoSignal /\ exit # NoExit => exit.code \in {0, 1}
         /\ exit.signal = NoSignal <=> NormalizedSignal(exit.signal) = NoSignal
  BY DEF TypeInv, TypeOK, RootExit, NoExit, ExitBy, NoCode, NoSignal, NormalizedSignal

LEMMA TerminationCases ==
  ASSUME TypeInv
  PROVE  LET Ended(kind, code, signal) == TerminationEvent(kind, code, signal, LastCompletedPhase) IN
           /\ override.kind = "timeout" => Termination = Ended("timeout", NoCode, NoSignal)
           /\ override.kind = "protocol" => Termination = Ended("unknown", NoCode, NoSignal)
           /\ override.kind = "none" /\ exit = NoExit => Termination = Ended("unknown", NoCode, NoSignal)
           /\ override.kind = "none" /\ exit.signal # NoSignal =>
                Termination = Ended("signal", NoCode, NormalizedSignal(exit.signal))
           /\ override.kind = "none" /\ exit # NoExit /\ exit.signal = NoSignal =>
                Termination = IF exit.code = 0 THEN Ended("clean-exit", 0, NoSignal)
                                               ELSE Ended("exit-code", exit.code, NoSignal)
<1>1. override.kind = "timeout" =>
        Termination = TerminationEvent("timeout", NoCode, NoSignal, LastCompletedPhase)
  BY DEF Termination
<1>2. override.kind = "protocol" =>
        Termination = TerminationEvent("unknown", NoCode, NoSignal, LastCompletedPhase)
  BY DEF Termination
<1>3. override.kind = "none" /\ exit = NoExit =>
        Termination = TerminationEvent("unknown", NoCode, NoSignal, LastCompletedPhase)
  BY DEF Termination, NoExit, ExitBy, NoCode
<1>4. override.kind = "none" /\ exit.signal # NoSignal =>
        Termination = TerminationEvent("signal", NoCode, NormalizedSignal(exit.signal), LastCompletedPhase)
  BY ExitValues DEF Termination, NoCode
<1>5. override.kind = "none" /\ exit # NoExit /\ exit.signal = NoSignal /\ exit.code = 0 =>
        Termination = TerminationEvent("clean-exit", 0, NoSignal, LastCompletedPhase)
  BY DEF Termination
<1>6. override.kind = "none" /\ exit # NoExit /\ exit.signal = NoSignal /\ exit.code # 0 =>
        Termination = TerminationEvent("exit-code", exit.code, NoSignal, LastCompletedPhase)
  <2>1. exit # NoExit /\ exit.signal = NoSignal /\ exit.code # 0 => exit.code = 1
    BY ExitValues
  <2> QED  BY <2>1 DEF Termination
<1> QED  BY <1>1, <1>2, <1>3, <1>4, <1>5, <1>6

LEMMA ShapeOfTermination ==
  ASSUME TypeInv
  PROVE  /\ Termination.type = "termination"
         /\ Termination.last_completed_phase = LastCompletedPhase
         /\ TerminationShape(Termination)
<1> USE DEF TerminationEvent, TerminationShape
<1>1. CASE override.kind = "timeout"
  BY <1>1, TerminationCases DEF NoCode
<1>2. CASE override.kind = "protocol" \/ (override.kind = "none" /\ exit = NoExit)
  BY <1>2, TerminationCases DEF NoCode
<1>3. CASE override.kind = "none" /\ exit.signal # NoSignal
  BY <1>3, TerminationCases, ExitValues DEF NoCode
<1>4. CASE override.kind = "none" /\ exit # NoExit /\ exit.signal = NoSignal /\ exit.code = 0
  BY <1>4, TerminationCases DEF NoCode
<1>5. CASE override.kind = "none" /\ exit # NoExit /\ exit.signal = NoSignal /\ exit.code # 0
  <2>1. exit.code = 1
    BY <1>5, ExitValues
  <2>2. Termination = TerminationEvent("exit-code", 1, NoSignal, LastCompletedPhase)
    BY <1>5, <2>1, TerminationCases
  <2> QED  BY <2>2 DEF NoCode
<1>6. override.kind \in {"none", "timeout", "protocol"}
  BY DEF TypeInv, TypeOK, Override
<1> QED  BY <1>1, <1>2, <1>3, <1>4, <1>5, <1>6

(* What a result says of the phases: a pass is five passes, and a defined  *)
(* failure names the phase that failed.                                    *)
ResultFits(k, s) ==
  /\ Result.type = "result"
  /\ Result.workload_status \in {"passed", "failed", "unknown"}
  /\ Result.workload_status = "passed" => s = "passed"
  /\ Result.workload_status = "failed" => s = "failed" /\ Result.failure.phase = k + 1
  /\ s = "failed" /\ override.kind # "protocol" => Result.failure.phase = k + 1

LEMMA TimeoutFits ==
  ASSUME TypeInv, GrammarInv, FailureInv, CauseInv, stage = "sweeping",
         NEW k \in 0 .. CleanShutdown, NEW s \in Status, Cut(k, s), override.kind = "timeout"
  PROVE  /\ ResultFits(k, s)
         /\ ResultShape(Result, Termination)
         /\ Result.workload_status = "failed" => Result.failure.category = "timeout"
<1>1. Result = TimeoutResult
  BY DEF Result
<1>2. Termination.kind = "timeout"
  BY TerminationCases DEF TerminationEvent
<1>3. override.afterFailure = (firstFailure # None)
  BY DEF CauseInv
<1>4. CASE override.afterFailure
  <2>1. Result = Inconclusive(ClosedFailure, "CLEANUP_TIMEOUT_AFTER_FAILURE") /\ ClosedFailure = k + 1
    BY <1>1, <1>3, <1>4 DEF TimeoutResult, Cut
  <2> QED  BY <2>1, <1>2 DEF Inconclusive, ResultEvent, ResultFits, ResultShape
<1>5. CASE ~override.afterFailure /\ AllPassed
  <2>1. Result = Inconclusive(CleanShutdown, "TIMEOUT_AFTER_LIFECYCLE") /\ s = "passed"
    BY <1>1, <1>5 DEF TimeoutResult, Cut
  <2> QED  BY <2>1, <1>2 DEF Inconclusive, ResultEvent, ResultFits, ResultShape
<1>6. CASE ~override.afterFailure /\ ~AllPassed
  <2>1. Result = Failed("timeout", override.phase, "PHASE_TIMEOUT")
    BY <1>1, <1>6 DEF TimeoutResult
  <2>2. firstFailure = None /\ s = "failed"
    BY <1>3, <1>6 DEF Cut, Status
  <2>3. override.phase = expectedPhase /\ expectedPhase = Upto(k) /\ Upto(k) = k + 1
    BY <2>2, CurrentIsExpected DEF CauseInv, Cut, Reached, Upto
  <2> QED  BY <2>1, <2>2, <2>3, <1>2 DEF Failed, ResultEvent, ResultFits, ResultShape
<1> QED  BY <1>3, <1>4, <1>5, <1>6

LEMMA SignalFits ==
  ASSUME TypeInv, NEW k \in 0 .. CleanShutdown, NEW s \in Status, Cut(k, s),
         override.kind = "none", exit.signal # NoSignal
  PROVE  /\ ResultFits(k, s)
         /\ ResultShape(Result, Termination)
         /\ Termination.kind = "signal"
         /\ Result.workload_status = "failed" => Result.failure.category = "worker-crash"
<1>1. exit.code = NoCode
  BY ExitValues
<1>2. Result = SignalResult
  BY <1>1 DEF Result, ExitResult, NoCode
<1>3. Termination.kind = "signal"
  BY TerminationCases DEF TerminationEvent
<1>4. CASE s = "failed"
  <2>1. ClosedFailure = k + 1 /\ ClosedFailure # None
    BY <1>4 DEF Cut, None, CleanShutdown
  <2>2. Result = Failed("worker-crash", k + 1, "WORKER_SIGNAL")
    BY <1>2, <2>1 DEF SignalResult
  <2> QED  BY <2>2, <1>3, <1>4 DEF Failed, ResultEvent, ResultFits, ResultShape
<1>5. CASE s # "failed"
  <2>1. ClosedFailure = None /\ firstFailure = None
    BY <1>5 DEF Cut
  <2>2. s = "passed"
    BY <1>1, <1>5 DEF Cut, Status, NoCode
  <2>3. openPhase = None
    BY <2>1, <2>2 DEF Cut
  <2>4. Result = Inconclusive(CleanShutdown, "SIGNAL_AFTER_LIFECYCLE")
    BY <1>2, <2>1, <2>3 DEF SignalResult
  <2> QED  BY <2>2, <2>4, <1>3 DEF Inconclusive, ResultEvent, ResultFits, ResultShape
<1> QED  BY <1>4, <1>5

LEMMA ExitFits ==
  ASSUME TypeInv, NEW k \in 0 .. CleanShutdown, NEW s \in Status, Cut(k, s),
         override.kind = "none", exit.signal = NoSignal
  PROVE  /\ ResultFits(k, s)
         /\ exit # NoExit => ResultShape(Result, Termination)
         /\ Result.workload_status \in {"passed", "failed"} /\ exit # NoExit =>
              Termination = IF exit.code = 0
                              THEN TerminationEvent("clean-exit", 0, NoSignal, LastCompletedPhase)
                              ELSE TerminationEvent("exit-code", 1, NoSignal, LastCompletedPhase)
         /\ Result.workload_status = "failed" =>
              \/ Result.failure.category = "native-runtime" /\ exit.code # 0
              \/ Result.failure.category = "workload-failed"
<1>1. exit # NoExit => exit.code \in {0, 1}
  BY ExitValues
<1>2. exit # NoExit =>
        Termination = IF exit.code = 0
                        THEN TerminationEvent("clean-exit", 0, NoSignal, LastCompletedPhase)
                        ELSE TerminationEvent("exit-code", 1, NoSignal, LastCompletedPhase)
  BY <1>1, TerminationCases
<1>3. exit # NoExit => Termination.kind = IF exit.code = 0 THEN "clean-exit" ELSE "exit-code"
  BY <1>2 DEF TerminationEvent
<1>4. CASE AllPassed /\ exit.code = 0
  <2>1. Result = ResultEvent("passed", TRUE, "none", None, "") /\ s = "passed"
    BY <1>4 DEF Result, ExitResult, Cut
  <2> QED  BY <2>1, <1>2, <1>3, <1>4 DEF ResultEvent, ResultFits, ResultShape
<1>5. CASE ~(AllPassed /\ exit.code = 0) /\ (ClosedFailure = None \/ (exit.code = 0 /\ ClosedFailure = QvacImport))
  <2>1. PICK p : Result = Inconclusive(p, "RUNNER_EXIT_UNEXPECTED")
                 /\ (ClosedFailure # None => p = ClosedFailure)
    BY <1>5 DEF Result, ExitResult
  <2>2. s = "failed" => ClosedFailure # None /\ ClosedFailure = k + 1
    BY DEF Cut, None, CleanShutdown
  <2> QED  BY <2>1, <2>2, <1>2, <1>3 DEF Inconclusive, ResultEvent, ResultFits, ResultShape
<1>6. CASE ~(AllPassed /\ exit.code = 0) /\ ~(ClosedFailure = None \/ (exit.code = 0 /\ ClosedFailure = QvacImport))
  <2>1. Result = Failed(IF ClosedFailure = QvacImport THEN "native-runtime" ELSE "workload-failed",
                        ClosedFailure, "PHASE_FAILED")
    BY <1>6 DEF Result, ExitResult
  <2>2. s = "failed" /\ ClosedFailure = k + 1
    BY <1>6 DEF Cut
  <2> QED  BY <2>1, <2>2, <1>2, <1>3, <1>6 DEF Failed, ResultEvent, ResultFits, ResultShape
<1> QED  BY <1>4, <1>5, <1>6

LEMMA ProtocolFits ==
  ASSUME TypeInv, NEW k \in 0 .. CleanShutdown, NEW s \in Status, Cut(k, s),
         override.kind = "protocol"
  PROVE  ResultFits(k, s) /\ ResultShape(Result, Termination) /\ Result.workload_status = "unknown"
<1>1. Result = Inconclusive(override.phase, "RUNNER_PROTOCOL_INVALID")
  BY DEF Result
<1> QED  BY <1>1 DEF Inconclusive, ResultEvent, ResultFits, ResultShape

(***************************************************************************)
(* failureLifecycle, for the failure of the phase a report ends with.      *)
(***************************************************************************)
LEMMA FailsAtTheEnd ==
  ASSUME NEW k \in 0 .. CleanShutdown, NEW ps, Reached(ps, k, "failed"),
         NEW e, e.phases = ps, e.result.workload_status = "failed",
         ~e.result.completion_observed, e.result.failure.phase = k + 1,
         e.termination.kind \in PermittedTermination(e.result.failure.category),
         TerminationShape(e.termination),
         e.termination.kind = "exit-code" => e.termination.exit_code > 0,
         e.termination.last_completed_phase = k
  PROVE  FailureLifecycle(e)
<1>1. "failed" \in Status /\ k # CleanShutdown
  BY DEF Status, Reached
<1>2. k + 1 \in Phase /\ k + 1 - 1 = k
  BY <1>1 DEF Phase, QvacImport, CleanShutdown
<1>3. \A p \in Phase : StatusOf(ps, p) = IF p <= k THEN "passed"
                                         ELSE IF p = k + 1 THEN "failed" ELSE "absent"
  BY <1>1, ReachedStatus
<1>4. StatusOf(ps, k + 1) = "failed"
  BY <1>2, <1>3
<1>5. \A p \in Phase : p < k + 1 => StatusOf(ps, p) = "passed"
  BY <1>3 DEF Phase, QvacImport, CleanShutdown
<1>6. \A p \in Phase : p > k + 1 => StatusOf(ps, p) \notin {"passed", "failed"}
  BY <1>3 DEF Phase, QvacImport, CleanShutdown
<1>7. InLifecycleOrder(ps)
  BY <1>1, ReachedPhases
<1> QED  BY <1>2, <1>4, <1>5, <1>6, <1>7 DEF FailureLifecycle

(***************************************************************************)
(* The lists by type that the adapter takes from the flat list of events.  *)
(***************************************************************************)
BackendPart(b) == IF b = NoBackend THEN <<>> ELSE <<BackendEvent(b)>>
EventList(ps, b, t, r) == ps \o BackendPart(b) \o <<t, r>>
Middle(ps, b) == IF b = NoBackend THEN Len(ps) ELSE Len(ps) + 1

LEMMA EventAt ==
  ASSUME NEW ps \in Seq(PhaseRecord), Len(ps) \in 1 .. CleanShutdown,
         NEW b \in Backend \cup {NoBackend}, NEW t, NEW r
  PROVE  LET es == EventList(ps, b, t, r) IN
           /\ Len(es) = Middle(ps, b) + 2 /\ DOMAIN es = 1 .. Middle(ps, b) + 2
           /\ \A i \in 1 .. Len(ps) : es[i] = ps[i]
           /\ b # NoBackend => es[Len(ps) + 1] = BackendEvent(b)
           /\ es[Middle(ps, b) + 1] = t /\ es[Middle(ps, b) + 2] = r
<1> DEFINE n == Len(ps)
           m == Middle(ps, b)
           S == PhaseRecord \cup {BackendEvent(b), t, r}
           es == EventList(ps, b, t, r)
           front == ps \o BackendPart(b)
<1>1. ps \in Seq(S) /\ BackendPart(b) \in Seq(S) /\ <<t, r>> \in Seq(S)
  <2>1. BackendEvent(b) \in S /\ t \in S /\ r \in S /\ PhaseRecord \subseteq S
    OBVIOUS
  <2> HIDE DEF S
  <2>2. ps \in Seq(S)
    BY <2>1
  <2>3. BackendPart(b) \in Seq(S)
    BY <2>1 DEF BackendPart
  <2>4. <<t, r>> \in Seq(S)
    BY <2>1
  <2> QED  BY <2>2, <2>3, <2>4
<1>2. n \in Nat /\ m \in Nat /\ m = n + Len(BackendPart(b))
  BY DEF BackendPart, Middle
<1>3. /\ front \in Seq(S) /\ Len(front) = m
      /\ \A i \in 1 .. n + Len(BackendPart(b)) :
            front[i] = IF i <= n THEN ps[i] ELSE BackendPart(b)[i - n]
  BY <1>1, <1>2, ConcatProperties
<1>4. /\ es \in Seq(S) /\ Len(es) = m + 2
      /\ \A i \in 1 .. m + 2 : es[i] = IF i <= m THEN front[i] ELSE <<t, r>>[i - m]
  BY <1>1, <1>3, ConcatProperties DEF EventList
<1> HIDE DEF es, front, S
<1>5. \A i \in 1 .. n : es[i] = ps[i]
  BY <1>2, <1>3, <1>4
<1>6. b # NoBackend => es[n + 1] = BackendEvent(b)
  BY <1>2, <1>3, <1>4 DEF BackendPart, Middle
<1>7. es[m + 1] = t /\ es[m + 2] = r
  BY <1>2, <1>4
<1>8. DOMAIN es = 1 .. m + 2
  BY <1>4
<1> QED  BY <1>4, <1>5, <1>6, <1>7, <1>8 DEF es

LEMMA ByType ==
  ASSUME NEW ps \in Seq(PhaseRecord), Len(ps) \in 1 .. CleanShutdown,
         NEW b \in Backend \cup {NoBackend},
         NEW t, t.type = "termination", NEW r, r.type = "result"
  PROVE  LET es == EventList(ps, b, t, r) IN
           /\ Len(es) <= 32
           /\ OfType(es, "phase") = ps
           /\ OfType(es, "backend") = IF b = NoBackend THEN <<>> ELSE [n \in 1 .. 1 |-> BackendEvent(b)]
           /\ OfType(es, "termination") = [n \in 1 .. 1 |-> t]
           /\ OfType(es, "result") = [n \in 1 .. 1 |-> r]
<1> DEFINE n == Len(ps)
           m == Middle(ps, b)
           es == EventList(ps, b, t, r)
           At(type) == {i \in DOMAIN es : es[i].type = type}
<1>1. /\ Len(es) = m + 2 /\ DOMAIN es = 1 .. m + 2
      /\ \A i \in 1 .. n : es[i] = ps[i]
      /\ b # NoBackend => es[n + 1] = BackendEvent(b)
      /\ es[m + 1] = t /\ es[m + 2] = r
  BY EventAt
<1>2. /\ n \in 1 .. 5 /\ n \in Nat /\ n + 1 \in Int
      /\ m \in {n, n + 1} /\ m = (IF b = NoBackend THEN n ELSE n + 1)
      /\ m \in Nat /\ m + 1 \in Int /\ m + 2 \in Int
  BY DEF CleanShutdown, Middle
<1>3. \A i \in 1 .. n : es[i].type = "phase"
  <2> TAKE i \in 1 .. n
  <2>1. ps[i] \in PhaseRecord
    OBVIOUS
  <2> QED  BY <1>1, <2>1 DEF PhaseRecord
<1>4. b # NoBackend => es[n + 1].type = "backend"
  BY <1>1 DEF BackendEvent
<1>5. es[m + 1].type = "termination" /\ es[m + 2].type = "result"
  BY <1>1
<1>6. \A i \in 1 .. m + 2 : i \in 1 .. n \/ (b # NoBackend /\ i = n + 1) \/ i = m + 1 \/ i = m + 2
  BY <1>2
<1> HIDE DEF es, n, m
<1>7. At("phase") = 1 .. n
  BY <1>1, <1>2, <1>3, <1>4, <1>5, <1>6
<1>8. At("backend") = IF b = NoBackend THEN {} ELSE {n + 1}
  BY <1>1, <1>2, <1>3, <1>4, <1>5, <1>6
<1>9. At("termination") = {m + 1}
  BY <1>1, <1>2, <1>3, <1>4, <1>5, <1>6
<1>10. At("result") = {m + 2}
  BY <1>1, <1>2, <1>3, <1>4, <1>5, <1>6
<1>11. OfType(es, "phase") = ps
  <2>1. OfType(es, "phase") = [i \in 1 .. n |-> es[i]]
    BY <1>2, <1>7, KeepPrefix DEF OfType
  <2>2. ps = [i \in 1 .. n |-> ps[i]]
    BY DEF n
  <2>3. [i \in 1 .. n |-> es[i]] = [i \in 1 .. n |-> ps[i]]
    BY <1>1
  <2> QED  BY <2>1, <2>2, <2>3
<1>12. b # NoBackend => OfType(es, "backend") = [i \in 1 .. 1 |-> BackendEvent(b)]
  <2> SUFFICES ASSUME b # NoBackend PROVE OfType(es, "backend") = [i \in 1 .. 1 |-> BackendEvent(b)]
    OBVIOUS
  <2>1. OfType(es, "backend") = KeepAt(es, {n + 1})
    BY <1>8 DEF OfType
  <2>2. KeepAt(es, {n + 1}) = [i \in 1 .. 1 |-> es[n + 1]]
    BY <1>2, KeepOne
  <2> QED  BY <1>1, <2>1, <2>2
<1>13. b = NoBackend => OfType(es, "backend") = <<>>
  BY <1>8, KeepNone DEF OfType
<1>14. OfType(es, "termination") = [i \in 1 .. 1 |-> t]
  <2>1. OfType(es, "termination") = KeepAt(es, {m + 1})
    BY <1>9 DEF OfType
  <2>2. KeepAt(es, {m + 1}) = [i \in 1 .. 1 |-> es[m + 1]]
    BY <1>2, KeepOne
  <2> QED  BY <1>1, <2>1, <2>2
<1>15. OfType(es, "result") = [i \in 1 .. 1 |-> r]
  <2>1. OfType(es, "result") = KeepAt(es, {m + 2})
    BY <1>10 DEF OfType
  <2>2. KeepAt(es, {m + 2}) = [i \in 1 .. 1 |-> es[m + 2]]
    BY <1>2, KeepOne
  <2> QED  BY <1>1, <2>1, <2>2
<1>16. Len(es) <= 32
  BY <1>1, <1>2
<1> QED  BY <1>11, <1>12, <1>13, <1>14, <1>15, <1>16 DEF es

(* What a report shows of an inference was sent after it: the phases come  *)
(* first in the list.                                                      *)
LEMMA BackendAfterPhases ==
  ASSUME NEW ps \in Seq(PhaseRecord), Len(ps) \in 1 .. CleanShutdown,
         NEW b \in Backend \cup {NoBackend},
         NEW t, t.type = "termination", NEW r, r.type = "result"
  PROVE  ~BackendBeforeInference(EventList(ps, b, t, r))
<1> DEFINE n == Len(ps)
           m == Middle(ps, b)
           es == EventList(ps, b, t, r)
<1>1. /\ DOMAIN es = 1 .. m + 2
      /\ \A i \in 1 .. n : es[i] = ps[i]
      /\ b # NoBackend => es[n + 1] = BackendEvent(b)
      /\ es[m + 1] = t /\ es[m + 2] = r
  BY EventAt
<1>2. /\ n \in 1 .. 5 /\ n \in Nat /\ n + 1 \in Int
      /\ m \in {n, n + 1} /\ m = (IF b = NoBackend THEN n ELSE n + 1)
      /\ m \in Nat /\ m + 1 \in Int /\ m + 2 \in Int
  BY DEF CleanShutdown, Middle
<1>3. \A i \in 1 .. n : es[i].type = "phase"
  <2> TAKE i \in 1 .. n
  <2>1. ps[i] \in PhaseRecord
    OBVIOUS
  <2> QED  BY <1>1, <2>1 DEF PhaseRecord
<1>4. b # NoBackend => es[n + 1].type = "backend"
  BY <1>1 DEF BackendEvent
<1>5. es[m + 1].type = "termination" /\ es[m + 2].type = "result"
  BY <1>1
<1> HIDE DEF es, n, m
<1> SUFFICES ASSUME NEW i \in DOMAIN es, NEW j \in DOMAIN es,
                    es[i].type = "backend", i <= j, es[j].type = "phase"
             PROVE  FALSE
  BY DEF BackendBeforeInference, es
<1>6. \A x \in 1 .. m + 2 : x \in 1 .. n \/ (b # NoBackend /\ x = n + 1) \/ x = m + 1 \/ x = m + 2
  BY <1>2
<1>7. i \in Int /\ j \in Int /\ i > n
  BY <1>1, <1>2, <1>3
<1>8. j \in 1 .. n
  BY <1>1, <1>4, <1>5, <1>6
<1> QED  BY <1>2, <1>7, <1>8

(***************************************************************************)
(* The verdict of the supervisor, as the adapter and the validator see it. *)
(***************************************************************************)
ReportedBackend == IF InferenceAttempted(ReportedPhases) THEN backend ELSE NoBackend

LEMMA EventsOfVerdict ==
  Events(Verdict) = EventList(ReportedPhases, ReportedBackend, Termination, Result)
BY DEF Events, Verdict, EventList, BackendPart, ReportedBackend

LEMMA VerdictShape ==
  ASSUME TypeInv, NEW k \in 0 .. CleanShutdown, NEW s \in Status, Cut(k, s),
         Result.type = "result"
  PROVE  /\ WellShaped(Events(Verdict))
         /\ LET e == Adapt(Events(Verdict)) IN
              /\ e.phases = ReportedPhases
              /\ e.termination = Termination /\ e.result = Result
              /\ e.backend_observation.status = "observed" =>
                   StatusOf(e.phases, Inference) \in {"passed", "failed"}
<1> DEFINE ps == ReportedPhases
           es == Events(Verdict)
<1>1. Reached(ps, k, s)
  BY DEF Cut
<1>2. ps \in Seq(PhaseRecord) /\ Len(ps) \in 1 .. CleanShutdown
  <2>1. Upto(k) \in 1 .. CleanShutdown /\ ps \in Seq(PhaseRecord) /\ Len(ps) = Upto(k)
    BY <1>1, ReachedPhases
  <2> QED  BY <2>1
<1>3. ReportedBackend \in Backend \cup {NoBackend}
      /\ (ReportedBackend # NoBackend => InferenceAttempted(ps))
  BY DEF ReportedBackend, TypeInv, TypeOK
<1>4. Termination.type = "termination"
  BY ShapeOfTermination
<1>5. /\ Len(es) <= 32
      /\ OfType(es, "phase") = ps
      /\ OfType(es, "backend") = IF ReportedBackend = NoBackend THEN <<>>
                                 ELSE [n \in 1 .. 1 |-> BackendEvent(ReportedBackend)]
      /\ OfType(es, "termination") = [n \in 1 .. 1 |-> Termination]
      /\ OfType(es, "result") = [n \in 1 .. 1 |-> Result]
  BY <1>2, <1>3, <1>4, ByType, EventsOfVerdict
<1>6. ~BackendBeforeInference(es)
  BY <1>2, <1>3, <1>4, BackendAfterPhases, EventsOfVerdict
<1> HIDE DEF ps, es
<1>7. \A x : Len([n \in 1 .. 1 |-> x]) = 1 /\ Head([n \in 1 .. 1 |-> x]) = x
  <2> TAKE x
  <2>1. [n \in 1 .. 1 |-> x] = <<x>>
    OBVIOUS
  <2> QED  BY <2>1
<1>8. OfType(es, "backend") # <<>> => ReportedBackend # NoBackend
  BY <1>5
<1>9. Len(OfType(es, "backend")) <= 1
  <2>1. CASE ReportedBackend = NoBackend
    BY <1>5, <2>1
  <2>2. CASE ReportedBackend # NoBackend
    <3>1. OfType(es, "backend") = [n \in 1 .. 1 |-> BackendEvent(ReportedBackend)]
      BY <1>5, <2>2
    <3>2. Len(OfType(es, "backend")) = 1
      BY <1>7, <3>1
    <3>3. 1 <= 1
      OBVIOUS
    <3> QED  BY <3>2, <3>3, Zenon
  <2> QED  BY <2>1, <2>2
<1>10. OfType(es, "phase") # <<>>
  BY <1>2, <1>5
<1>11. Len(OfType(es, "termination")) = 1 /\ Head(OfType(es, "termination")) = Termination
  BY <1>5, <1>7
<1>12. Len(OfType(es, "result")) = 1 /\ Head(OfType(es, "result")) = Result
  BY <1>5, <1>7
<1>13. WellShaped(es)
  BY <1>3, <1>5, <1>6, <1>8, <1>9, <1>10, <1>11, <1>12 DEF WellShaped
<1>14. Adapt(es) = Evidence(ps, ObservationOf(es), Termination, Result)
  BY <1>5, <1>11, <1>12, <1>13 DEF Adapt
<1>15. /\ Adapt(es).phases = ps /\ Adapt(es).termination = Termination
       /\ Adapt(es).result = Result /\ Adapt(es).backend_observation = ObservationOf(es)
  BY <1>14 DEF Evidence
<1>16. ObservationOf(es).status = "observed" => OfType(es, "backend") # <<>>
  BY DEF ObservationOf, Unobserved
<1>17. OfType(es, "backend") # <<>> => StatusOf(ps, Inference) \in {"passed", "failed"}
  BY <1>1, <1>3, <1>8, ReachedInference
<1> QED  BY <1>13, <1>15, <1>16, <1>17 DEF ps, es

LEMMA VerdictAdmitted ==
  ASSUME TypeInv, GrammarInv, FailureInv, CauseInv, stage = "sweeping", ~abortRequested,
         NEW k \in 0 .. CleanShutdown, NEW s \in Status, Cut(k, s)
  PROVE  Admitted(Adapt(Events(Verdict)))
<1> DEFINE e == Adapt(Events(Verdict))
<1>1. override.kind \in {"none", "timeout", "protocol"}
  BY DEF TypeInv, TypeOK, Override
<1>2. override.kind = "none" => exit # NoExit
  BY DEF CauseInv, Finalized
<1>3. ResultFits(k, s) /\ ResultShape(Result, Termination)
  BY <1>1, <1>2, TimeoutFits, ProtocolFits, SignalFits, ExitFits
<1>4. /\ e.phases = ReportedPhases /\ e.termination = Termination /\ e.result = Result
      /\ e.backend_observation.status = "observed" =>
           StatusOf(e.phases, Inference) \in {"passed", "failed"}
  BY <1>3, VerdictShape DEF ResultFits
<1> HIDE DEF e
<1>5. Reached(ReportedPhases, k, s) /\ LastCompletedPhase = k
  BY DEF Cut
<1>6. InLifecycleOrder(ReportedPhases) /\ LastPassed(ReportedPhases) = k
  BY <1>5, ReachedPhases, ReachedLast
<1>7. TerminationShape(Termination) /\ Termination.last_completed_phase = k
  BY <1>5, ShapeOfTermination
<1>8. Result.workload_status = "passed" => ExactSuccess(ReportedPhases)
  <2> SUFFICES ASSUME Result.workload_status = "passed" PROVE ExactSuccess(ReportedPhases)
    OBVIOUS
  <2>1. s = "passed" /\ k = CleanShutdown /\ Upto(k) = CleanShutdown
    BY <1>3, <1>5 DEF ResultFits, Reached, Upto
  <2>2. /\ Len(ReportedPhases) = CleanShutdown
        /\ \A i \in 1 .. CleanShutdown : ReportedPhases[i].name = i /\ ReportedPhases[i].status = "passed"
    BY <1>5, <2>1, ReachedPhases
  <2> QED  BY <2>2 DEF ExactSuccess, Phase, QvacImport
<1>9. ASSUME Result.workload_status = "failed"
      PROVE  FailureLifecycle(e)
  <2>1. s = "failed" /\ Result.failure.phase = k + 1 /\ ~Result.completion_observed
    BY <1>3, <1>9 DEF ResultFits, ResultShape
  <2>2. Termination.kind \in PermittedTermination(Result.failure.category)
        /\ (Termination.kind = "exit-code" => Termination.exit_code > 0)
    <3>1. CASE override.kind = "timeout"
      BY <1>9, <3>1, TimeoutFits, TerminationCases DEF PermittedTermination, TerminationEvent
    <3>2. CASE override.kind = "protocol"
      BY <1>9, <3>2, ProtocolFits
    <3>3. CASE override.kind = "none" /\ exit.signal # NoSignal
      BY <1>9, <3>3, SignalFits DEF PermittedTermination
    <3>4. CASE override.kind = "none" /\ exit.signal = NoSignal
      <4>1. Termination = IF exit.code = 0
                            THEN TerminationEvent("clean-exit", 0, NoSignal, LastCompletedPhase)
                            ELSE TerminationEvent("exit-code", 1, NoSignal, LastCompletedPhase)
        BY <1>2, <1>9, <3>4, ExitFits
      <4>2. \/ Result.failure.category = "native-runtime" /\ exit.code # 0
            \/ Result.failure.category = "workload-failed"
        BY <1>9, <3>4, ExitFits
      <4>3. Termination.kind = IF exit.code = 0 THEN "clean-exit" ELSE "exit-code"
        BY <4>1 DEF TerminationEvent
      <4>4. Termination.kind = "exit-code" => Termination.exit_code = 1
        BY <4>1 DEF TerminationEvent
      <4> QED  BY <4>2, <4>3, <4>4 DEF PermittedTermination
    <3> QED  BY <1>1, <3>1, <3>2, <3>3, <3>4
  <2> QED  BY <1>4, <1>5, <1>7, <1>9, <2>1, <2>2, FailsAtTheEnd
<1>10. NoContradiction(e)
  BY <1>4, <1>8, <1>9 DEF NoContradiction
<1> QED  BY <1>3, <1>4, <1>6, <1>7, <1>10 DEF Admitted, e

LEMMA VerdictNamesFailure ==
  ASSUME TypeInv, GrammarInv, FailureInv, CauseInv, stage = "sweeping", ClosedFailure # None,
         NEW k \in 0 .. CleanShutdown, NEW s \in Status, Cut(k, s)
  PROVE  /\ StatusOf(ReportedPhases, ClosedFailure) = "failed"
         /\ \A p \in Phase : p > ClosedFailure => StatusOf(ReportedPhases, p) = "absent"
         /\ override.kind # "protocol" => Result.failure.phase = ClosedFailure
<1>1. s = "failed" /\ ClosedFailure = k + 1 /\ Reached(ReportedPhases, k, s)
  BY DEF Cut
<1>2. k # CleanShutdown /\ k + 1 \in Phase
  BY <1>1 DEF Reached, Phase, QvacImport, CleanShutdown
<1>3. StatusOf(ReportedPhases, k + 1) = "failed"
  BY <1>1, <1>2, ReachedStatus
<1>4. ASSUME NEW p \in Phase, p > k + 1
      PROVE  StatusOf(ReportedPhases, p) = "absent"
  <2>1. ~(p <= k) /\ p # k + 1
    BY <1>4 DEF Phase, QvacImport, CleanShutdown
  <2> QED  BY <1>1, <2>1, ReachedStatus
<1>5. override.kind # "protocol" => ResultFits(k, s)
  BY TimeoutFits, SignalFits, ExitFits DEF TypeInv, TypeOK, Override
<1> QED  BY <1>1, <1>3, <1>4, <1>5 DEF ResultFits

(***************************************************************************)
(* A supervisor that has settled does nothing any more.                    *)
(***************************************************************************)
LEMMA SettledStands ==
  ASSUME WatchInv, stage = "settled", [Next]_supervisorVars
  PROVE  UNCHANGED supervisorVars
<1>1. attached /\ ~Listening /\ timers = {} /\ Finalized
  BY DEF WatchInv, FinalizedAttached, TimersWhileListening, Listening, Finalized
<1>2. ~Attach /\ ~Abort /\ ~DisposeAfterLaunchFailure /\ ~KillTimer
  BY <1>1 DEF Attach, Abort, DisposeAfterLaunchFailure, KillTimer
<1>3. ASSUME NEW m \in Message, OnMessage(m) PROVE UNCHANGED supervisorVars
  BY <1>1, <1>3 DEF OnMessage, IgnoreMessage, RejectMessage, AcceptStart, AcceptBackend,
                    AcceptEnd, Deaf
<1>4. \A timer : ~Timeout(timer)
  BY <1>1 DEF Timeout
<1>5. \A e : ~Finalize(e)
  BY <1>1 DEF Finalize
<1>6. ~SweepKill /\ \A survivors : ~SweepDone(survivors)
  BY DEF SweepKill, SweepDone
<1> QED  BY <1>2, <1>3, <1>4, <1>5, <1>6
         DEF Next, PhaseTimer, OverallTimer, SettleTimer, OnExit

LEMMA ResolvedBySweep ==
  ASSUME [Next]_supervisorVars, completion # "resolved", completion' = "resolved"
  PROVE  SweepDone(FALSE)
<1>1. Next /\ completion' # completion
  BY DEF supervisorVars, ending
<1>2. ~Attach /\ ~Abort /\ ~DisposeAfterLaunchFailure /\ ~KillTimer /\ ~SweepKill
  BY <1>1 DEF Attach, Abort, DisposeAfterLaunchFailure, KillTimer, SweepKill, ending
<1>3. \A m \in Message : ~OnMessage(m)
  BY <1>1 DEF OnMessage, IgnoreMessage, RejectMessage, AcceptStart, AcceptBackend,
              AcceptEnd, supervisorVars, ending
<1>4. \A timer : ~Timeout(timer)
  BY <1>1 DEF Timeout, ending
<1>5. \A e : ~Finalize(e)
  BY <1>1 DEF Finalize
<1>6. PICK survivors \in BOOLEAN : SweepDone(survivors)
  BY <1>1, <1>2, <1>3, <1>4, <1>5 DEF Next, PhaseTimer, OverallTimer, SettleTimer, OnExit
<1>7. ~survivors
  BY <1>6 DEF SweepDone
<1> QED  BY <1>6, <1>7

(***************************************************************************)
(* The invariant of the supervisor, and the verdict it resolves with.      *)
(***************************************************************************)
VerdictInv ==
  /\ completion = "resolved" => stage = "settled"
  /\ ContractHonoured
  /\ FirstFailureReported

LEMMA NextVerdictInv ==
  TypeInv /\ WatchInv /\ GrammarInv /\ FailureInv /\ CauseInv /\ VerdictInv
    /\ [Next]_supervisorVars => VerdictInv'
<1> SUFFICES ASSUME TypeInv, WatchInv, GrammarInv, FailureInv, CauseInv, VerdictInv,
                    [Next]_supervisorVars
             PROVE  VerdictInv'
  OBVIOUS
<1>1. CASE completion = "resolved"
  <2>1. UNCHANGED <<completion, stage, verdict, abortRequested, firstFailure, override>>
    BY <1>1, SettledStands DEF VerdictInv, supervisorVars, lifecycle, ending
  <2> QED  BY <2>1 DEF VerdictInv, ContractHonoured, FirstFailureReported
<1>2. CASE completion # "resolved" /\ completion' = "resolved"
  <2>1. /\ stage = "sweeping" /\ stage' = "settled" /\ verdict' = Verdict
        /\ firstFailure' = ClosedFailure /\ UNCHANGED <<abortRequested, override>>
    BY <1>2, ResolvedBySweep DEF SweepDone
  <2>2. PICK k \in 0 .. CleanShutdown, s \in Status : Cut(k, s)
    BY <2>1, CutExists
  <2>3. Result.type = "result"
    BY DEF Result, TimeoutResult, ExitResult, SignalResult, Inconclusive, Failed, ResultEvent,
           TypeInv, TypeOK, Override
  <2>4. WellShaped(Events(Verdict))
    BY <2>2, <2>3, VerdictShape
  <2>5. ~abortRequested => Admitted(Adapt(Events(Verdict)))
    BY <2>1, <2>2, VerdictAdmitted
  <2>6. ContractHonoured'
    BY <2>1, <2>4, <2>5 DEF ContractHonoured
  <2>7. Verdict.phases = ReportedPhases /\ Verdict.result = Result
    BY DEF Verdict
  <2>8. FirstFailureReported'
    BY <2>1, <2>2, <2>7, VerdictNamesFailure DEF FirstFailureReported
  <2> QED  BY <2>1, <2>6, <2>8 DEF VerdictInv
<1>3. CASE completion' # "resolved"
  BY <1>3 DEF VerdictInv, ContractHonoured, FirstFailureReported
<1> QED  BY <1>1, <1>2, <1>3

SupervisorInv ==
  TypeInv /\ WatchInv /\ GrammarInv /\ PassInv /\ FailureInv /\ CauseInv /\ VerdictInv

LEMMA InitSupervisorInv == Init => SupervisorInv
<1>1. Init => VerdictInv
  BY DEF Init, SupervisorInit, VerdictInv, ContractHonoured, FirstFailureReported
<1> QED  BY <1>1, InitTypeInv, InitWatchInv, InitGrammarInv, InitPassInv, InitFailureInv
         DEF SupervisorInv

LEMMA NextSupervisorInv == SupervisorInv /\ [Next]_supervisorVars => SupervisorInv'
  BY NextTypeInv, NextWatchInv, NextGrammarInv, NextPassInv, NextFailureInv, NextCauseInv,
     NextVerdictInv DEF SupervisorInv

(* Whatever the child sends, however it ends and whichever timer fires     *)
(* first, the events of every verdict have the shape the adapter asks for, *)
(* and those of a run that was not aborted are admitted by the V1 contract *)
(* (#ensureTerminalPhase and #buildEvents against validate.js).            *)
THEOREM VerdictsAreAdmitted == Spec => []ContractHonoured
<1>1. SupervisorInv => ContractHonoured
  BY DEF SupervisorInv, VerdictInv
<1>2. QED
  BY <1>1, InitSupervisorInv, NextSupervisorInv, PTL DEF Spec

(* Every verdict keeps the first failed phase: its record is there, nothing *)
(* after it is, and the result names it unless the protocol was broken.     *)
THEOREM FirstFailureIsKept == Spec => []FirstFailureReported
<1>1. SupervisorInv => FirstFailureReported
  BY DEF SupervisorInv, VerdictInv
<1>2. QED
  BY <1>1, InitSupervisorInv, NextSupervisorInv, PTL DEF Spec

(***************************************************************************)
(* What a verdict tells of the phases that the child reported.             *)
(***************************************************************************)
Told(p) == \E i \in DOMAIN phases : phases[i] = PhaseEvent(p, "passed")

LEMMA FailedCategory ==
  ASSUME TypeInv, Result.workload_status = "failed"
  PROVE  LET category == Result.failure.category IN
           \/ category = "timeout" /\ override.kind = "timeout"
           \/ category = "worker-crash" /\ override.kind = "none" /\ exit.signal # NoSignal
           \/ category \in {"native-runtime", "workload-failed"} /\ override.kind = "none"
                /\ exit.signal = NoSignal
<1>1. CASE override.kind = "timeout"
  BY <1>1 DEF Result, TimeoutResult, Inconclusive, Failed, ResultEvent
<1>2. CASE override.kind = "protocol"
  BY <1>2 DEF Result, Inconclusive, ResultEvent
<1>3. CASE override.kind = "none" /\ exit.signal # NoSignal
  <2>0. exit.code = NoCode
    BY <1>3, ExitValues
  <2>1. Result = SignalResult
    BY <1>3, <2>0 DEF Result, ExitResult, NoCode
  <2>2. \/ SignalResult = Inconclusive(CleanShutdown, "SIGNAL_AFTER_LIFECYCLE")
        \/ \E p : SignalResult = Failed("worker-crash", p, "WORKER_SIGNAL")
    BY DEF SignalResult
  <2>3. Result.failure.category = "worker-crash"
    BY <2>1, <2>2 DEF Inconclusive, Failed, ResultEvent
  <2> QED  BY <1>3, <2>3
<1>4. CASE override.kind = "none" /\ exit.signal = NoSignal
  BY <1>4 DEF Result, ExitResult, Inconclusive, Failed, ResultEvent
<1> QED  BY <1>1, <1>2, <1>3, <1>4 DEF TypeInv, TypeOK, Override

LEMMA VerdictFacts ==
  ASSUME TypeInv, GrammarInv, FailureInv, CauseInv, stage = "sweeping"
  PROVE  /\ Result.workload_status = "passed" => \A p \in Phase : Told(p)
         /\ Result.workload_status = "failed" =>
              LET p == Result.failure.phase IN
                /\ p \in Phase
                /\ \A q \in 1 .. p - 1 : Told(q)
                /\ firstFailure # None => p = firstFailure
                /\ firstFailure = None => /\ p = expectedPhase /\ ~lifecycleTerminal
                                          /\ override.kind = "none" => exit.code # 0
<1>1. PICK k \in 0 .. CleanShutdown, s \in Status : Cut(k, s)
  BY CutExists
<1>2. ResultFits(k, s)
  BY <1>1, TimeoutFits, ProtocolFits, SignalFits, ExitFits DEF TypeInv, TypeOK, Override
<1>3. \A i \in 1 .. k : Told(i)
  BY <1>1 DEF Cut, Told
<1>4. s = "passed" => \A p \in Phase : Told(p)
  BY <1>1, <1>3 DEF Cut, Reached, Phase, QvacImport
<1>5. ASSUME s = "failed"
      PROVE  /\ k + 1 \in Phase /\ k + 1 - 1 = k
             /\ firstFailure # None => k + 1 = firstFailure
             /\ firstFailure = None => /\ k + 1 = expectedPhase /\ ~lifecycleTerminal
                                       /\ override.kind = "none" => exit.code # 0
  <2>1. k # CleanShutdown
    BY <1>1, <1>5 DEF Cut, Reached
  <2>2. k + 1 \in Phase /\ k + 1 - 1 = k /\ Upto(k) = k + 1
    BY <2>1 DEF Phase, QvacImport, CleanShutdown, Upto
  <2>3. firstFailure # None => k + 1 = firstFailure
    BY <1>1 DEF Cut
  <2>4. firstFailure = None => k + 1 = expectedPhase /\ ~lifecycleTerminal /\ EndingStatus = "failed"
    BY <1>1, <1>5, <2>2 DEF Cut
  <2>5. EndingStatus = "failed" => ~CleanlyUnfinished
    BY DEF EndingStatus
  <2> QED  BY <2>2, <2>3, <2>4, <2>5 DEF CleanlyUnfinished
<1> QED  BY <1>2, <1>3, <1>4, <1>5 DEF ResultFits
=============================================================================
