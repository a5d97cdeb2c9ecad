--------------------------- MODULE ReportContract ---------------------------
(***************************************************************************)
(* What a runner may say and what a report may contain: the list of events *)
(* a runner returns (packages/probe/src/runner.ts), the evidence that the  *)
(* StructuredRunnerAdapter makes of it, and the part of the V1 report      *)
(* contract (packages/schema) that speaks about an execution.              *)
(*                                                                         *)
(* A lifecycle phase is its position in PHASE_ORDER, so that lifecycle     *)
(* order is the order of the numbers.  Durations, wording and the fields   *)
(* of a report that describe the platform are left out.                    *)
(***************************************************************************)
EXTENDS Integers, Sequences, FiniteSets

QvacImport == 1
WorkerStart == 2
ModelLoad == 3
Inference == 4
CleanShutdown == 5

Phase == QvacImport .. CleanShutdown
None == 0                       \* JavaScript's null, for a phase

Backend == {"cpu", "gpu"}
NoBackend == "none"

NoCode == -1                    \* a null exit code
NoSignal == "none"              \* a null signal

(***************************************************************************)
(* The events of a runner.                                                 *)
(***************************************************************************)
PhaseEvent(p, s) == [type |-> "phase", name |-> p, status |-> s]
BackendEvent(b) == [type |-> "backend", backend |-> b]
TerminationEvent(k, c, s, last) ==
  [type |-> "termination", kind |-> k, exit_code |-> c, signal |-> s,
   last_completed_phase |-> last]
ResultEvent(status, completed, category, p, code) ==
  [type |-> "result", workload_status |-> status,
   completion_observed |-> completed,
   failure |-> [category |-> category, phase |-> p, code |-> code]]

(* The elements of s at the indices `at', in their order: JavaScript's     *)
(* filter, by position and without recursion.                              *)
KeepAt(s, at) ==
  LET Nth(k) == CHOOSE i \in at : Cardinality({j \in at : j <= i}) = k
  IN  [k \in 1 .. Cardinality(at) |-> s[Nth(k)]]

OfType(events, t) == KeepAt(events, {i \in DOMAIN events : events[i].type = t})

InferenceAttempted(phaseEvents) ==
  \E i \in DOMAIN phaseEvents : /\ phaseEvents[i].name = Inference
                                /\ phaseEvents[i].status \in {"passed", "failed"}

(***************************************************************************)
(* StructuredRunnerAdapter.run: the evidence a list of events stands for.  *)
(* A list of the wrong shape becomes the fixed rejected evidence.          *)
(***************************************************************************)
Evidence(phaseEvents, observation, termination, result) ==
  [phases |-> phaseEvents, backend_observation |-> observation,
   termination |-> termination, result |-> result]

Observed(b) == [status |-> "observed", backend |-> b]
Unobserved(s) == [status |-> s, backend |-> NoBackend]

RejectedEvidence ==
  Evidence(<<PhaseEvent(QvacImport, "unknown")>>,
           Unobserved("unavailable"),
           TerminationEvent("unknown", NoCode, NoSignal, None),
           ResultEvent("unknown", FALSE, "unknown", QvacImport, "RUNNER_EVENT_REJECTED"))

BackendBeforeInference(events) ==
  \E i, j \in DOMAIN events :
    /\ events[i].type = "backend"
    /\ i <= j
    /\ events[j].type = "phase" /\ events[j].name = Inference
    /\ \A k \in 1 .. j - 1 : ~(events[k].type = "phase" /\ events[k].name = Inference)

WellShaped(events) ==
  LET backends == OfType(events, "backend") IN
    /\ Len(events) <= 32
    /\ OfType(events, "phase") # <<>>
    /\ Len(backends) <= 1
    /\ Len(OfType(events, "termination")) = 1
    /\ Len(OfType(events, "result")) = 1
    /\ backends # <<>> => InferenceAttempted(OfType(events, "phase"))
    /\ ~BackendBeforeInference(events)

ObservationOf(events) ==
  LET backends == OfType(events, "backend") IN
    IF backends # <<>> THEN Observed(Head(backends).backend)
    ELSE IF InferenceAttempted(OfType(events, "phase")) THEN Unobserved("unavailable")
    ELSE Unobserved("not-reached")

Adapt(events) ==
  IF WellShaped(events)
    THEN Evidence(OfType(events, "phase"), ObservationOf(events),
                  Head(OfType(events, "termination")), Head(OfType(events, "result")))
    ELSE RejectedEvidence

(***************************************************************************)
(* The V1 contract on an execution: semanticErrors of schema/validate.js   *)
(* and the lifecycle evaluator of schema/evidence.js.                      *)
(***************************************************************************)
InLifecycleOrder(ps) ==
  \A i, j \in DOMAIN ps : i < j => ps[i].name < ps[j].name

StatusOf(ps, p) ==
  IF \E i \in DOMAIN ps : ps[i].name = p
    THEN ps[CHOOSE i \in DOMAIN ps : ps[i].name = p].status
    ELSE "absent"

LastPassed(ps) ==
  LET passed == {i \in DOMAIN ps : ps[i].status = "passed"}
      last == CHOOSE i \in passed : \A j \in passed : j <= i
  IN  IF passed = {} THEN None ELSE ps[last].name

ExactSuccess(ps) ==
  /\ Len(ps) = CleanShutdown
  /\ \A p \in Phase : ps[p].name = p /\ ps[p].status = "passed"

TerminationShape(t) ==
  /\ t.kind = "clean-exit" => t.exit_code = 0 /\ t.signal = NoSignal
  /\ (t.kind = "signal") <=> (t.signal # NoSignal)
  /\ t.kind = "exit-code" => t.exit_code # NoCode
  /\ t.kind \notin {"clean-exit", "exit-code"} => t.exit_code = NoCode

ResultShape(r, t) ==
  LET passed == r.workload_status = "passed" IN
    /\ passed => t.kind = "clean-exit"
    /\ passed <=> r.completion_observed
    /\ passed <=> (r.failure.category = "none")
    /\ r.failure.category = "missing-qvac" =>
         r.workload_status = "skipped" /\ t.kind = "not-started"
    /\ r.failure.category = "timeout" => t.kind = "timeout"
    /\ r.failure.category = "worker-crash" => t.kind \in {"signal", "exit-code"}

PermittedTermination(category) ==
  CASE category \in {"native-runtime", "worker-crash"} -> {"exit-code", "signal"}
    [] category = "timeout" -> {"timeout"}
    [] category = "workload-failed" -> {"clean-exit", "exit-code"}
    [] category = "spawn-error" -> {"spawn-error"}
    [] OTHER -> {}

(* failureLifecycle: a defined failure names the phase that was reached and *)
(* failed, after every earlier phase passed and before any later one ran.   *)
FailureLifecycle(e) ==
  LET f == e.result.failure IN
    /\ e.result.workload_status = "failed"
    /\ ~e.result.completion_observed
    /\ f.phase \in Phase
    /\ e.termination.kind \in PermittedTermination(f.category)
    /\ TerminationShape(e.termination)
    /\ e.termination.kind = "exit-code" => e.termination.exit_code > 0
    /\ InLifecycleOrder(e.phases)
    /\ StatusOf(e.phases, f.phase) = "failed"
    /\ \A p \in Phase : p < f.phase => StatusOf(e.phases, p) = "passed"
    /\ \A p \in Phase : p > f.phase => StatusOf(e.phases, p) \notin {"passed", "failed"}
    /\ e.termination.last_completed_phase = f.phase - 1

(* lifecycleContradictions is empty. *)
NoContradiction(e) ==
  /\ e.backend_observation.status = "observed" =>
       StatusOf(e.phases, Inference) \in {"passed", "failed"}
  /\ e.result.workload_status = "passed" => ExactSuccess(e.phases)
  /\ /\ e.result.workload_status = "failed"
     /\ PermittedTermination(e.result.failure.category) # {}
     => FailureLifecycle(e)

(* semanticErrors is empty, as far as it speaks about the execution. *)
Admitted(e) ==
  /\ InLifecycleOrder(e.phases)
  /\ TerminationShape(e.termination)
  /\ e.termination.last_completed_phase = LastPassed(e.phases)
  /\ ResultShape(e.result, e.termination)
  /\ NoContradiction(e)

(***************************************************************************)
(* What is claimed of an admitted report: evaluateV1ClaimEvidence of       *)
(* schema/evidence.js and deriveReportClaim of schema/claims.js, for a     *)
(* report whose profile, platform and packages are inside the V1 boundary. *)
(***************************************************************************)
RequestedBackend == "gpu"

BackendObserved(e) ==
  e.backend_observation.status = "observed" /\ e.backend_observation.backend \in Backend

SuccessEligible(e) ==
  /\ ExactSuccess(e.phases)
  /\ e.result.workload_status = "passed" /\ e.result.completion_observed
  /\ e.result.failure.category = "none"
  /\ BackendObserved(e)
  /\ e.termination = TerminationEvent("clean-exit", 0, NoSignal, CleanShutdown)

FailureEligible(e) == FailureLifecycle(e) /\ NoContradiction(e)

\* A workload that ran elsewhere than it was asked to says nothing of the
\* configuration that was asked for.
ReportClaim(e) ==
  IF BackendObserved(e) /\ e.backend_observation.backend # RequestedBackend THEN "unknown"
  ELSE IF SuccessEligible(e) THEN "observed-success"
  ELSE IF FailureEligible(e) THEN "observed-failure"
  ELSE "unknown"
=============================================================================
