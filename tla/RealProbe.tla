----------------------------- MODULE RealProbe -----------------------------
(***************************************************************************)
(* One contribution from the command to its last word: runEnabledRealCli   *)
(* over runRealProbePipeline, ProductionRealCoordinator, BoundRealOutput   *)
(* and the submission client.  Every action runs from one await to the     *)
(* next: disclosures, previews and decisions that are already taken do not *)
(* leave the microtask queue, so no signal is seen between them.  What the *)
(* coordinator waits for settles (Decides, Answers of the other modules).  *)
(***************************************************************************)
EXTENDS RealOutput

CONSTANT Submitting   \* runs of a build that has a relay origin configured

ASSUME SubmittingAssumption == Submitting \subseteq Process

VARIABLES
  at,          \* what the run waits for
  aborted,     \* its AbortSignal
  yes,         \* the questions the contributor answered with yes
  publish,     \* consent.publication of the final report
  said,        \* the last message, by what it claims
  sent,        \* the request has left
  queued       \* the relay holds the report

runVars == <<at, aborted, yes, publish, said, sent, queued>>
vars == <<outputVars, runVars>>

Init ==
  /\ OutputInit
  /\ at = [p \in Process |-> "start"]
  /\ aborted = [p \in Process |-> FALSE]
  /\ yes = [p \in Process |-> {}]
  /\ publish = [p \in Process |-> FALSE]
  /\ said = [p \in Process |-> "nothing"]
  /\ sent = [p \in Process |-> FALSE]
  /\ queued = [p \in Process |-> FALSE]

Waits(p, a) == at[p] = a
Running(p) == at[p] \notin {"done", "crashed"}

Await(p, a) == at' = [at EXCEPT ![p] = a] /\ UNCHANGED said
Say(p, m) == at' = [at EXCEPT ![p] = "done"] /\ said' = [said EXCEPT ![p] = m]

(* renderNonWrittenResult: "was cancelled. No report was written or        *)
(* uploaded", "No report was written. Nothing was uploaded" and "could not *)
(* complete the local report. Nothing was uploaded".                       *)
Cancelled(p) == Say(p, "cancelled")
Refused(p) == Say(p, "refused")
NotCompleted(p) == Say(p, "not-completed")

(* Both guards of the pipeline: what an await returned counts only if the  *)
(* signal has not fired meanwhile.                                         *)
Guarded(p, Result) ==
  \/ aborted[p] /\ Cancelled(p)
  \/ ~aborted[p] /\ Result

(* A boundary that fails, or whose answer is not exactly one of its forms.  *)
BoundaryFails(p) == NotCompleted(p)

(* A stage that could not clean up is fatal, cancelled or not: between its *)
(* rejection and the last word no signal is seen, and the coordinator does *)
(* not look at the one that has fired (modules Continuity and ExecutorRun).*)
CleanupFails(p) == NotCompleted(p)

(* dispatchCli, with the gate open: the host and both terminals are looked *)
(* at before the signal handlers are installed and the command is loaded.  *)
Dispatch(p) ==
  /\ Waits(p, "start")
  /\ Await(p, "load") \/ Refused(p) \/ NotCompleted(p)
  /\ UNCHANGED <<outputVars, aborted, yes, publish, sent, queued>>

LoadRealCli(p) ==
  /\ Waits(p, "load")
  /\ Guarded(p, Await(p, "normalize") \/ NotCompleted(p))
  /\ UNCHANGED <<outputVars, aborted, yes, publish, sent, queued>>

NormalizePath(p) ==
  /\ Waits(p, "normalize")
  /\ Guarded(p, Await(p, "vacancy") \/ NotCompleted(p))
  /\ UNCHANGED <<outputVars, aborted, yes, publish, sent, queued>>

(* BoundRealOutput.preflight: one lstat, long before the write. *)
Vacancy(p) ==
  /\ Waits(p, "vacancy")
  /\ Guarded(p, (path = Absent /\ Await(p, "local-run")) \/ NotCompleted(p))
  /\ UNCHANGED <<outputVars, aborted, yes, publish, sent, queued>>

(* The one question before the run; decideProjectCode and decideWorkload   *)
(* answer with what was said here.  The platform is collected at once.     *)
AllowLocalRun(p) ==
  /\ Waits(p, "local-run") /\ ~aborted[p]
  /\ yes' = [yes EXCEPT ![p] = @ \cup {"local-run"}]
  /\ Await(p, "resolve") \/ NotCompleted(p)
  /\ UNCHANGED <<outputVars, aborted, publish, sent, queued>>

DeclineLocalRun(p) ==
  /\ Waits(p, "local-run") /\ ~aborted[p]
  /\ Refused(p) \/ NotCompleted(p)
  /\ UNCHANGED <<outputVars, aborted, yes, publish, sent, queued>>

PromptCancelled_FirstOnly(p) ==
  /\ Waits(p, "local-run") /\ aborted[p]
  /\ Cancelled(p)
  /\ UNCHANGED <<outputVars, aborted, yes, publish, sent, queued>>

PromptCancelled(p) ==
  /\ at[p] \in {"local-run", "publication"} /\ aborted[p]
  /\ Cancelled(p)
  /\ UNCHANGED <<outputVars, aborted, yes, publish, sent, queued>>

(* Coordinator: realpath of the root and the audit of the project's SDK. *)
Resolve(p) ==
  /\ Waits(p, "resolve")
  /\ Guarded(p, Await(p, "locate") \/ BoundaryFails(p))
  /\ UNCHANGED <<outputVars, aborted, yes, publish, sent, queued>>

(* Coordinator: the project's Doctor is looked for, and run if there is a  *)
(* usable one.  Without evidence from it the workload still follows.       *)
Locate(p) ==
  /\ Waits(p, "locate")
  /\ Guarded(p, Await(p, "doctor") \/ Await(p, "acquire"))
  /\ UNCHANGED <<outputVars, aborted, yes, publish, sent, queued>>

Doctor(p) ==
  /\ Waits(p, "doctor")
  /\ CleanupFails(p) \/ Guarded(p, Await(p, "acquire"))
  /\ UNCHANGED <<outputVars, aborted, yes, publish, sent, queued>>

(* Coordinator: a capability, approved exactly once for exactly the        *)
(* disclosure shown, becomes a grant.  An ArtifactError other than an      *)
(* abort is fatal, cancelled or not.                                       *)
Acquire(p) ==
  /\ Waits(p, "acquire")
  /\ BoundaryFails(p) \/ Guarded(p, Await(p, "execute"))
  /\ UNCHANGED <<outputVars, aborted, yes, publish, sent, queued>>

BeginWrite(p) == Await(p, "write") /\ To(p, "open") /\ UNCHANGED <<path, staging, bytes, tries, answer>>

(* Executor, adapter, assembly and validation of the draft.  Without a     *)
(* relay there is no second question: the report is private.               *)
Execute(p) ==
  /\ Waits(p, "execute")
  /\ \/ CleanupFails(p) /\ UNCHANGED outputVars
     \/ /\ Guarded(p, \/ BoundaryFails(p) /\ UNCHANGED outputVars
                      \/ p \in Submitting /\ Await(p, "publication") /\ UNCHANGED outputVars
                      \/ p \notin Submitting /\ BeginWrite(p))
        /\ aborted[p] => UNCHANGED outputVars
  /\ UNCHANGED <<aborted, yes, publish, sent, queued>>

(* The second question; the final report is validated again. *)
AllowSubmission(p) ==
  /\ Waits(p, "publication") /\ ~aborted[p]
  /\ yes' = [yes EXCEPT ![p] = @ \cup {"submission"}]
  /\ publish' = [publish EXCEPT ![p] = TRUE]
  /\ BeginWrite(p) \/ (NotCompleted(p) /\ UNCHANGED outputVars)
  /\ UNCHANGED <<aborted, sent, queued>>

(* No, or no answer: the report stays private. *)
DeclineSubmission(p) ==
  /\ Waits(p, "publication") /\ ~aborted[p]
  /\ publish' = [publish EXCEPT ![p] = FALSE]
  /\ BeginWrite(p) \/ (NotCompleted(p) /\ UNCHANGED outputVars)
  /\ UNCHANGED <<aborted, yes, sent, queued>>

(* The write does not look at the signal. *)
Write(p) == Waits(p, "write") /\ WriteStep(p) /\ UNCHANGED runVars

(* What handleWrittenResult, or the rendering of a failed write, says.      *)
Settled(p, a) == Waits(p, "write") /\ At(p, "settled") /\ answer[p] = a

WriteFails(p) ==
  /\ Settled(p, "write-failed") \/ Settled(p, "cleanup-uncertain")
  /\ NotCompleted(p)
  /\ UNCHANGED <<outputVars, aborted, yes, publish, sent, queued>>

KeepPrivate_SignalFirst(p) ==
  /\ Settled(p, "written") /\ ~publish[p]
  /\ IF aborted[p] THEN Cancelled(p) ELSE Say(p, "private")
  /\ UNCHANGED <<outputVars, aborted, yes, publish, sent, queued>>

KeepPrivate(p) ==
  /\ Settled(p, "written") /\ ~publish[p]
  /\ Say(p, "private")
  /\ UNCHANGED <<outputVars, aborted, yes, publish, sent, queued>>

(* admitExactSubmission refuses the report: it stays local. *)
Ineligible(p) ==
  /\ Settled(p, "written") /\ publish[p]
  /\ Say(p, "ineligible")
  /\ UNCHANGED <<outputVars, aborted, yes, publish, sent, queued>>

(* The client refuses a signal that has fired; what is said of that leaves *)
(* the outcome of the queue open, as it does of a request that was made.   *)
Submit(p) ==
  /\ Settled(p, "written") /\ publish[p]
  /\ IF aborted[p] THEN Say(p, "unknown") /\ UNCHANGED sent
     ELSE Await(p, "fetch") /\ sent' = [sent EXCEPT ![p] = TRUE]
  /\ UNCHANGED <<outputVars, aborted, yes, publish, queued>>

(* fetch: a 202 comes from a relay that holds the report.  An abort, the   *)
(* timeout and every other answer are one error.                           *)
Respond(p) ==
  /\ Waits(p, "fetch")
  /\ (queued[p] /\ Await(p, "receipt")) \/ Say(p, "unknown")
  /\ UNCHANGED <<outputVars, aborted, yes, publish, sent, queued>>

ReadReceipt(p) ==
  /\ Waits(p, "receipt")
  /\ Say(p, "receipt") \/ Say(p, "unknown")
  /\ UNCHANGED <<outputVars, aborted, yes, publish, sent, queued>>

(* The relay takes in what reached it, also after its client gave up. *)
Enqueue(p) ==
  /\ sent[p] /\ ~queued[p]
  /\ queued' = [queued EXCEPT ![p] = TRUE]
  /\ UNCHANGED <<outputVars, at, aborted, yes, publish, said, sent>>

(* SIGINT, SIGTERM or SIGHUP; later ones find the signal fired.  Before the *)
(* handlers are there, a signal is a crash.                                *)
Abort(p) ==
  /\ Running(p) /\ at[p] # "start" /\ ~aborted[p]
  /\ aborted' = [aborted EXCEPT ![p] = TRUE]
  /\ UNCHANGED <<outputVars, at, yes, publish, said, sent, queued>>

(* SIGKILL, or a loss of power. *)
Crash(p) ==
  /\ Running(p)
  /\ Await(p, "crashed") /\ To(p, "crashed")
  /\ UNCHANGED <<path, staging, bytes, tries, answer, aborted, yes, publish, sent, queued>>

ProgramStep(p) ==
  \/ Dispatch(p) \/ LoadRealCli(p) \/ NormalizePath(p) \/ Vacancy(p) \/ PromptCancelled(p)
  \/ Resolve(p) \/ Locate(p) \/ Doctor(p) \/ Acquire(p) \/ Execute(p)
  \/ Write(p) \/ WriteFails(p) \/ KeepPrivate(p) \/ Ineligible(p) \/ Submit(p)
  \/ Respond(p) \/ ReadReceipt(p)

ContributorStep(p) ==
  \/ AllowLocalRun(p) \/ DeclineLocalRun(p)
  \/ AllowSubmission(p) \/ DeclineSubmission(p)

Next ==
  \/ Interfere /\ UNCHANGED runVars
  \/ \E p \in Process :
       ProgramStep(p) \/ ContributorStep(p) \/ Enqueue(p) \/ Abort(p) \/ Crash(p)

Spec == Init /\ [][Next]_vars

(* The calls a run waits for settle; the contributor need not answer. *)
FairSpec == Spec /\ \A p \in Process : WF_vars(ProgramStep(p))

(***************************************************************************)
(* Properties.                                                             *)
(***************************************************************************)
ProbeTypeOK ==
  /\ path \in {Absent, Outside} \cup Process
  /\ staging \in [Process -> BOOLEAN]
  /\ bytes \in [Process -> {"none", "partial", "exact", "changed"}]
  /\ step \in [Process -> {"idle", "open", "fill", "link", "linked", "unstage", "published",
                           "commit", "undo-look", "undo-unlink", "undo-look-again",
                           "undo-staging", "settled", "crashed"}]
  /\ tries \in [Process -> 0 .. 1]
  /\ answer \in [Process -> {"none", "written", "write-failed", "cleanup-uncertain"}]
  /\ at \in [Process -> {"start", "load", "normalize", "vacancy", "local-run", "resolve", "locate", "doctor",
                         "acquire", "execute", "publication", "write", "fetch", "receipt",
                         "done", "crashed"}]
  /\ aborted \in [Process -> BOOLEAN]
  /\ yes \in [Process -> SUBSET {"local-run", "submission"}]
  /\ publish \in [Process -> BOOLEAN]
  /\ said \in [Process -> {"nothing", "cancelled", "refused", "not-completed", "private",
                           "ineligible", "receipt", "unknown"}]
  /\ sent \in [Process -> BOOLEAN] /\ queued \in [Process -> BOOLEAN]

(* "write-failed" proves that the names Atlas made are gone                *)
(* (RealOutputBoundary), whichever step failed, whatever the outside and   *)
(* other runs did to the path meanwhile.                                   *)
WriteFailedLeavesNothing ==
  \A p \in Process : answer[p] = "write-failed" => ~staging[p] /\ path # p

(* What a run says last is true: a message that denies a report or a       *)
(* request comes only when there is none, a message that leaves a report   *)
(* comes only when it was written, and a receipt is of a queued report,    *)
(* whenever the signal fired and whatever failed.                          *)
SaysWhatHappened ==
  \A p \in Process :
    /\ said[p] \in {"cancelled", "refused"} => ~staging[p] /\ path # p /\ ~sent[p]
    /\ said[p] = "not-completed" => answer[p] # "written" /\ ~sent[p]
    /\ said[p] \in {"private", "ineligible"} => answer[p] = "written" /\ ~sent[p]
    /\ said[p] \in {"receipt", "unknown"} => answer[p] = "written"
    /\ said[p] = "receipt" => queued[p]

(* Nothing of the project runs before the contributor allowed the local    *)
(* run, and nothing is sent unless they answered the second question with  *)
(* yes and the report was saved first.                                     *)
EffectsAreConsented ==
  \A p \in Process :
    /\ at[p] \in {"resolve", "locate", "doctor", "acquire", "execute", "write"} =>
         "local-run" \in yes[p]
    /\ sent[p] => yes[p] = {"local-run", "submission"} /\ answer[p] = "written"

(* Once the signal has fired a run begins nothing: no child, no download,  *)
(* no write and no request.  What it waits for, the write included, ends.  *)
CancelBeginsNothing ==
  [][\A p \in Process : aborted[p] =>
       /\ at'[p] \in {at[p], "done", "crashed"} \/ (at[p] = "fetch" /\ at'[p] = "receipt")
       /\ sent'[p] = sent[p]]_vars

(* A cancelled run ends, wherever the signal found it. *)
CancelEnds == \A p \in Process : aborted[p] ~> ~Running(p)

(* Runs that share a path, and an outside that interferes with it, see     *)
(* the promise about reports.                                              *)
Stage(p) ==
  CASE step[p] \in {"idle", "open", "fill", "link"} -> "before"
    [] step[p] \in {"linked", "unstage", "published", "commit", "undo-look", "undo-unlink"} -> "holding"
    [] OTHER -> "after"

Report == INSTANCE ExclusiveReport
  WITH whole <- (path \in Process => bytes[path] = "exact"),
       stage <- [p \in Process |-> Stage(p)]

ImplementsExclusiveReport == Report!Spec
=============================================================================
