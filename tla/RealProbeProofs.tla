--------------------------- MODULE RealProbeProofs ---------------------------
(***************************************************************************)
(* Theorems about RealProbe for any number of runs that share a path, with *)
(* or without a relay.                                                     *)
(*   - The types are inductive.                                            *)
(*   - RunInv(p) ties what run p waits for to the step of its write, to    *)
(*     what was said and to what was allowed; it implies every safety      *)
(*     property, and with it the action property holds of each step.       *)
(*   - A step of one run leaves the others as they are (Same), so that     *)
(*     only the run that acts and the outside have to be looked at.        *)
(*   - With UnlinksItsOwn, each step is one of ExclusiveReport.            *)
(***************************************************************************)
EXTENDS RealProbe, TLAPS

RunStep(p) == ProgramStep(p) \/ ContributorStep(p) \/ Enqueue(p) \/ Abort(p) \/ Crash(p)

BeforeWrite == {"start", "load", "normalize", "vacancy", "local-run", "resolve", "locate",
                "doctor", "acquire", "execute", "publication"}
Allowed == {"resolve", "locate", "doctor", "acquire", "execute", "publication", "write"}
Unpublished == {"idle", "open", "fill", "link", "undo-look-again", "undo-staging"}
Both == {"local-run", "submission"}

Phases(p) ==
  /\ said[p] # "nothing" => at[p] = "done"
  /\ at[p] = "start" => ~aborted[p]
  /\ at[p] \in BeforeWrite => step[p] = "idle" /\ ~sent[p]
  /\ at[p] = "write" => step[p] \notin {"idle", "crashed"} /\ ~sent[p]
  /\ at[p] \in {"fetch", "receipt"} => answer[p] = "written"
  /\ step[p] \notin {"settled", "crashed"} => answer[p] = "none"

Files(p) ==
  /\ step[p] \in {"idle", "open"} => ~staging[p]
  /\ step[p] \in Unpublished => path # p
  /\ step[p] = "link" => bytes[p] = "exact"
  /\ answer[p] = "write-failed" => ~staging[p] /\ path # p

Consents(p) ==
  /\ at[p] \in Allowed => "local-run" \in yes[p]
  /\ publish[p] => yes[p] = Both
  /\ sent[p] => yes[p] = Both /\ answer[p] = "written"

LastWord(p) ==
  /\ said[p] \in {"cancelled", "refused"} => ~staging[p] /\ path # p /\ ~sent[p]
  /\ said[p] = "not-completed" => answer[p] # "written" /\ ~sent[p]
  /\ said[p] \in {"private", "ineligible"} => answer[p] = "written" /\ ~sent[p]
  /\ said[p] \in {"receipt", "unknown"} => answer[p] = "written"
  /\ said[p] = "receipt" => queued[p]
  /\ at[p] = "receipt" => queued[p]

RunInv(p) == Phases(p) /\ Files(p) /\ Consents(p) /\ LastWord(p)
ProbeInv == ProbeTypeOK /\ \A p \in Process : RunInv(p)

(* What the step of another run leaves of run q: all its state, and the    *)
(* path, unless it was q's and is taken away.                              *)
Same(q) ==
  /\ staging'[q] = staging[q] /\ bytes'[q] = bytes[q] /\ step'[q] = step[q]
  /\ tries'[q] = tries[q] /\ answer'[q] = answer[q]
  /\ at'[q] = at[q] /\ aborted'[q] = aborted[q] /\ yes'[q] = yes[q]
  /\ publish'[q] = publish[q] /\ said'[q] = said[q]
  /\ sent'[q] = sent[q] /\ queued'[q] = queued[q]
  /\ path' = q => path = q

(***************************************************************************)
(* Types.                                                                  *)
(***************************************************************************)
LEMMA InitialTypes == Init => ProbeTypeOK
BY PathAssumption DEF Init, OutputInit, ProbeTypeOK

LEMMA WriteKeepsTypes ==
  ASSUME ProbeTypeOK, NEW p \in Process, WriteStep(p)
  PROVE  /\ path' \in {Absent, Outside} \cup Process
         /\ staging' \in [Process -> BOOLEAN]
         /\ bytes' \in [Process -> {"none", "partial", "exact", "changed"}]
         /\ step' \in [Process -> {"idle", "open", "fill", "link", "linked", "unstage", "published",
                           "commit", "undo-look", "undo-unlink", "undo-look-again",
                           "undo-staging", "settled", "crashed"}]
         /\ tries' \in [Process -> 0 .. 1]
         /\ answer' \in [Process -> {"none", "written", "write-failed", "cleanup-uncertain"}]
<1> USE DEF ProbeTypeOK, At, To, Settle, Undo, Linked
<1>1. CASE Open(p)  BY <1>1, ZenonT(30) DEF Open
<1>2. CASE Fill(p)  BY <1>2 DEF Fill
<1>3. CASE Link(p)  BY <1>3 DEF Link
<1>4. CASE CheckLinked(p)  BY <1>4 DEF CheckLinked
<1>5. CASE Unstage(p)  BY <1>5, ZenonT(30) DEF Unstage
<1>6. CASE CheckPublished(p)  BY <1>6 DEF CheckPublished
<1>7. CASE Commit(p)  BY <1>7 DEF Commit
<1>8. CASE UndoLook(p)  BY <1>8 DEF UndoLook, AttemptFails
<1>9. CASE UndoUnlink(p)  BY <1>9 DEF UndoUnlink, AttemptFails
<1>10. CASE UndoLookAgain(p)  BY <1>10 DEF UndoLookAgain
<1>11. CASE UndoStaging(p)
  <2>1. CASE UNCHANGED staging  BY <1>11, <2>1 DEF UndoStaging
  <2>2. ASSUME NEW a \in {"write-failed", "cleanup-uncertain"}, Settle(p, a),
               staging' = [staging EXCEPT ![p] = FALSE]
        PROVE  /\ staging' \in [Process -> BOOLEAN]
               /\ step' = [step EXCEPT ![p] = "settled"]
               /\ answer' \in [Process -> {"none", "written", "write-failed", "cleanup-uncertain"}]
    BY <2>2
  <2> QED  BY <1>11, <2>1, <2>2 DEF UndoStaging
<1> QED
  BY <1>1, <1>2, <1>3, <1>4, <1>5, <1>6, <1>7, <1>8, <1>9, <1>10, <1>11 DEF WriteStep

LEMMA Types == Spec => []ProbeTypeOK
<1>1. ASSUME ProbeTypeOK, [Next]_vars  PROVE ProbeTypeOK'
  <2> USE <1>1 DEF Await, Say, Cancelled, Refused, NotCompleted, Guarded, BoundaryFails, Waits
  <2>1. CASE UNCHANGED vars  BY <2>1 DEF vars, outputVars, runVars, ProbeTypeOK
  <2>2. CASE Interfere /\ UNCHANGED runVars
    BY <2>2 DEF Interfere, runVars, ProbeTypeOK
  <2>3. ASSUME NEW p \in Process, ProgramStep(p)  PROVE ProbeTypeOK'
    <3>1. CASE Dispatch(p)  BY <3>1 DEF Dispatch, outputVars, ProbeTypeOK
    <3>2. CASE LoadRealCli(p)  BY <3>2 DEF LoadRealCli, outputVars, ProbeTypeOK
    <3>3. CASE NormalizePath(p)  BY <3>3 DEF NormalizePath, outputVars, ProbeTypeOK
    <3>4. CASE Vacancy(p)  BY <3>4 DEF Vacancy, outputVars, ProbeTypeOK
    <3>5. CASE PromptCancelled(p)  BY <3>5 DEF PromptCancelled, outputVars, ProbeTypeOK
    <3>6. CASE Resolve(p)  BY <3>6 DEF Resolve, outputVars, ProbeTypeOK
    <3>7. CASE Locate(p)  BY <3>7 DEF Locate, outputVars, ProbeTypeOK
    <3>8. CASE Doctor(p)  BY <3>8 DEF Doctor, CleanupFails, outputVars, ProbeTypeOK
    <3>9. CASE Acquire(p)  BY <3>9 DEF Acquire, outputVars, ProbeTypeOK
    <3>10. CASE Execute(p)
      <4>1. CASE CleanupFails(p) /\ UNCHANGED outputVars
        BY <3>10, <4>1 DEF Execute, CleanupFails, outputVars, ProbeTypeOK
      <4>2. CASE UNCHANGED outputVars
        BY <3>10, <4>2 DEF Execute, CleanupFails, BeginWrite, outputVars, ProbeTypeOK
      <4>3. CASE BeginWrite(p)
        BY <3>10, <4>3 DEF Execute, BeginWrite, To, outputVars, ProbeTypeOK
      <4> QED  BY <3>10, <4>1, <4>2, <4>3 DEF Execute
    <3>11. CASE Write(p)  BY <3>11, WriteKeepsTypes DEF Write, runVars, ProbeTypeOK
    <3>12. CASE WriteFails(p)  BY <3>12 DEF WriteFails, outputVars, ProbeTypeOK
    <3>13. CASE KeepPrivate(p)  BY <3>13 DEF KeepPrivate, outputVars, ProbeTypeOK
    <3>14. CASE Ineligible(p)  BY <3>14 DEF Ineligible, outputVars, ProbeTypeOK
    <3>15. CASE Submit(p)
      <4>1. CASE aborted[p]  BY <3>15, <4>1, SMTT(30) DEF Submit, outputVars, ProbeTypeOK
      <4>2. CASE ~aborted[p]  BY <3>15, <4>2, ZenonT(30) DEF Submit, outputVars, ProbeTypeOK
      <4> QED  BY <4>1, <4>2
    <3>16. CASE Respond(p)  BY <3>16 DEF Respond, outputVars, ProbeTypeOK
    <3>17. CASE ReadReceipt(p)  BY <3>17 DEF ReadReceipt, outputVars, ProbeTypeOK
    <3> QED
      BY <2>3, <3>1, <3>2, <3>3, <3>4, <3>5, <3>6, <3>7, <3>8, <3>9, <3>10, <3>11, <3>12,
         <3>13, <3>14, <3>15, <3>16, <3>17 DEF ProgramStep
  <2>4. ASSUME NEW p \in Process, ContributorStep(p)  PROVE ProbeTypeOK'
    <3>1. CASE AllowLocalRun(p)  BY <3>1 DEF AllowLocalRun, outputVars, ProbeTypeOK
    <3>2. CASE DeclineLocalRun(p)  BY <3>2 DEF DeclineLocalRun, outputVars, ProbeTypeOK
    <3>3. CASE AllowSubmission(p)
      BY <3>3 DEF AllowSubmission, BeginWrite, To, outputVars, ProbeTypeOK
    <3>4. CASE DeclineSubmission(p)
      BY <3>4 DEF DeclineSubmission, BeginWrite, To, outputVars, ProbeTypeOK
    <3> QED  BY <2>4, <3>1, <3>2, <3>3, <3>4 DEF ContributorStep
  <2>5. ASSUME NEW p \in Process, Enqueue(p) \/ Abort(p) \/ Crash(p)  PROVE ProbeTypeOK'
    BY <2>5, ZenonT(30) DEF Enqueue, Abort, Crash, To, outputVars, ProbeTypeOK
  <2> QED  BY <1>1, <2>1, <2>2, <2>3, <2>4, <2>5 DEF Next
<1> QED  BY <1>1, InitialTypes, PTL DEF Spec

(***************************************************************************)
(* Frame: a step of one run and the others.                                *)
(***************************************************************************)
LEMMA WriteLeavesOthers ==
  ASSUME ProbeTypeOK, NEW p \in Process, NEW q \in Process, q # p, WriteStep(p)
  PROVE  /\ staging'[q] = staging[q] /\ bytes'[q] = bytes[q] /\ step'[q] = step[q]
         /\ tries'[q] = tries[q] /\ answer'[q] = answer[q]
         /\ path' = q => path = q
<1> USE PathAssumption DEF ProbeTypeOK, At, To, Settle, Undo, Linked
<1>1. CASE Open(p)  BY <1>1 DEF Open
<1>2. CASE Fill(p)  BY <1>2 DEF Fill
<1>3. CASE Link(p)  BY <1>3 DEF Link
<1>4. CASE CheckLinked(p)  BY <1>4 DEF CheckLinked
<1>5. CASE Unstage(p)  BY <1>5 DEF Unstage
<1>6. CASE CheckPublished(p)  BY <1>6 DEF CheckPublished
<1>7. CASE Commit(p)  BY <1>7 DEF Commit
<1>8. CASE UndoLook(p)  BY <1>8 DEF UndoLook, AttemptFails
<1>9. CASE UndoUnlink(p)  BY <1>9 DEF UndoUnlink, AttemptFails
<1>10. CASE UndoLookAgain(p)  BY <1>10 DEF UndoLookAgain
<1>11. CASE UndoStaging(p)  BY <1>11 DEF UndoStaging
<1> QED
  BY <1>1, <1>2, <1>3, <1>4, <1>5, <1>6, <1>7, <1>8, <1>9, <1>10, <1>11 DEF WriteStep

LEMMA OthersAreLeft ==
  ASSUME ProbeTypeOK, NEW p \in Process, NEW q \in Process, q # p, RunStep(p)
  PROVE  Same(q)
<1> USE DEF Same, ProbeTypeOK, outputVars, Await, Say, Cancelled, Refused, NotCompleted,
            Guarded, BoundaryFails, CleanupFails, BeginWrite, To
<1>1. CASE Dispatch(p)  BY <1>1 DEF Dispatch
<1>2. CASE LoadRealCli(p)  BY <1>2 DEF LoadRealCli
<1>3. CASE NormalizePath(p)  BY <1>3 DEF NormalizePath
<1>4. CASE Vacancy(p)  BY <1>4 DEF Vacancy
<1>5. CASE PromptCancelled(p)  BY <1>5 DEF PromptCancelled
<1>6. CASE Resolve(p)  BY <1>6 DEF Resolve
<1>7. CASE Locate(p)  BY <1>7 DEF Locate
<1>8. CASE Doctor(p)  BY <1>8 DEF Doctor
<1>9. CASE Acquire(p)  BY <1>9 DEF Acquire
<1>10. CASE Execute(p)  BY <1>10 DEF Execute
<1>11. CASE WriteFails(p)  BY <1>11 DEF WriteFails
<1>12. CASE KeepPrivate(p)  BY <1>12 DEF KeepPrivate
<1>13. CASE Ineligible(p)  BY <1>13 DEF Ineligible
<1>14. CASE Submit(p)  BY <1>14 DEF Submit
<1>15. CASE Respond(p)  BY <1>15 DEF Respond
<1>16. CASE ReadReceipt(p)  BY <1>16 DEF ReadReceipt
<1>17. CASE AllowLocalRun(p)  BY <1>17 DEF AllowLocalRun
<1>18. CASE DeclineLocalRun(p)  BY <1>18 DEF DeclineLocalRun
<1>19. CASE AllowSubmission(p)  BY <1>19 DEF AllowSubmission
<1>20. CASE DeclineSubmission(p)  BY <1>20 DEF DeclineSubmission
<1>21. CASE Enqueue(p)  BY <1>21 DEF Enqueue
<1>22. CASE Abort(p)  BY <1>22 DEF Abort
<1>23. CASE Crash(p)  BY <1>23 DEF Crash
<1>24. CASE Write(p)  BY <1>24, WriteLeavesOthers DEF Write, runVars
<1> QED
  BY <1>1, <1>2, <1>3, <1>4, <1>5, <1>6, <1>7, <1>8, <1>9, <1>10, <1>11, <1>12, <1>13, <1>14, <1>15, <1>16, <1>17, <1>18, <1>19, <1>20, <1>21, <1>22, <1>23, <1>24
     DEF RunStep, ProgramStep, ContributorStep

LEMMA InvariantOfOthers ==
  ASSUME NEW q \in Process, RunInv(q), Same(q)
  PROVE  RunInv(q)'
BY DEF RunInv, Phases, Files, Consents, LastWord, Same

(***************************************************************************)
(* The run that acts.                                                      *)
(***************************************************************************)
LEMMA OwnProgramStep ==
  ASSUME ProbeTypeOK, NEW p \in Process, RunInv(p), ProgramStep(p), ~Write(p)
  PROVE  RunInv(p)'
<1> USE DEF RunInv, Phases, Files, Consents, LastWord, ProbeTypeOK, outputVars, Waits,
            Await, Say, Cancelled, Refused, NotCompleted, Guarded, BoundaryFails,
            BeforeWrite, Allowed, Unpublished, Both
<1>1. CASE Dispatch(p)  BY <1>1 DEF Dispatch
<1>2. CASE LoadRealCli(p)  BY <1>2 DEF LoadRealCli
<1>3. CASE NormalizePath(p)  BY <1>3 DEF NormalizePath
<1>4. CASE Vacancy(p)  BY <1>4 DEF Vacancy
<1>5. CASE PromptCancelled(p)  BY <1>5 DEF PromptCancelled
<1>6. CASE Resolve(p)  BY <1>6 DEF Resolve
<1>7. CASE Locate(p)  BY <1>7 DEF Locate
<1>8. CASE Doctor(p)  BY <1>8 DEF Doctor, CleanupFails
<1>9. CASE Acquire(p)  BY <1>9 DEF Acquire, CleanupFails
<1>10. CASE Execute(p)  BY <1>10 DEF Execute, CleanupFails, BeginWrite, To
<1>11. CASE WriteFails(p)  BY <1>11 DEF WriteFails, Settled, At
<1>12. CASE KeepPrivate(p)  BY <1>12 DEF KeepPrivate, Settled, At
<1>13. CASE Ineligible(p)  BY <1>13 DEF Ineligible, Settled, At
<1>14. CASE Submit(p)  BY <1>14 DEF Submit, Settled, At
<1>15. CASE Respond(p)  BY <1>15 DEF Respond
<1>16. CASE ReadReceipt(p)  BY <1>16 DEF ReadReceipt
<1> QED  BY <1>1, <1>2, <1>3, <1>4, <1>5, <1>6, <1>7, <1>8, <1>9, <1>10, <1>11, <1>12, <1>13, <1>14, <1>15, <1>16 DEF ProgramStep, Write

LEMMA OwnContributorStep ==
  ASSUME ProbeTypeOK, NEW p \in Process, RunInv(p), ContributorStep(p)
  PROVE  RunInv(p)'
<1> USE DEF RunInv, Phases, Files, Consents, LastWord, ProbeTypeOK, outputVars, Waits,
            Await, Say, Cancelled, Refused, NotCompleted, Guarded, BoundaryFails,
            BeforeWrite, Allowed, Unpublished, Both
<1>1. CASE AllowLocalRun(p)  BY <1>1 DEF AllowLocalRun
<1>2. CASE DeclineLocalRun(p)  BY <1>2 DEF DeclineLocalRun
<1>3. CASE AllowSubmission(p)  BY <1>3 DEF AllowSubmission, BeginWrite, To
<1>4. CASE DeclineSubmission(p)  BY <1>4 DEF DeclineSubmission, BeginWrite, To
<1> QED  BY <1>1, <1>2, <1>3, <1>4 DEF ContributorStep

LEMMA OwnOtherStep ==
  ASSUME ProbeTypeOK, NEW p \in Process, RunInv(p), Enqueue(p) \/ Abort(p) \/ Crash(p)
  PROVE  RunInv(p)'
<1> USE DEF RunInv, Phases, Files, Consents, LastWord, ProbeTypeOK, outputVars,
            BeforeWrite, Allowed, Unpublished, Both
<1>1. CASE Enqueue(p)  BY <1>1 DEF Enqueue
<1>2. CASE Abort(p)  BY <1>2 DEF Abort
<1>3. CASE Crash(p)  BY <1>3 DEF Crash, Running, Await, To
<1> QED  BY <1>1, <1>2, <1>3

LEMMA OwnWrite ==
  ASSUME ProbeTypeOK, NEW p \in Process, RunInv(p), Write(p)
  PROVE  RunInv(p)'
<1>1. /\ at[p] = "write" /\ said[p] = "nothing" /\ ~sent[p]
      /\ step[p] \notin {"idle", "crashed"}
  BY DEF RunInv, Phases, Consents, Write, Waits, ProbeTypeOK
<1>2. UNCHANGED runVars  BY DEF Write
<1>3. /\ Files(p)'
      /\ step'[p] \notin {"idle", "crashed"}
      /\ step'[p] \notin {"settled", "crashed"} => answer'[p] = "none"
  <2> USE <1>1, PathAssumption
      DEF Files, RunInv, Phases, ProbeTypeOK, At, To, Settle, Undo, Linked, Unpublished
  <2>1. CASE Open(p)  BY <2>1 DEF Open
  <2>2. CASE Fill(p)  BY <2>2 DEF Fill
  <2>3. CASE Link(p)  BY <2>3 DEF Link
  <2>4. CASE CheckLinked(p)  BY <2>4 DEF CheckLinked
  <2>5. CASE Unstage(p)  BY <2>5 DEF Unstage
  <2>6. CASE CheckPublished(p)  BY <2>6 DEF CheckPublished
  <2>7. CASE Commit(p)  BY <2>7 DEF Commit
  <2>8. CASE UndoLook(p)  BY <2>8 DEF UndoLook, AttemptFails
  <2>9. CASE UndoUnlink(p)  BY <2>9 DEF UndoUnlink, AttemptFails
  <2>10. CASE UndoLookAgain(p)  BY <2>10 DEF UndoLookAgain
  <2>11. CASE UndoStaging(p)  BY <2>11 DEF UndoStaging
  <2> QED
    BY <2>1, <2>2, <2>3, <2>4, <2>5, <2>6, <2>7, <2>8, <2>9, <2>10, <2>11 DEF Write, WriteStep
<1>4. Phases(p)' /\ Consents(p)' /\ LastWord(p)'
  BY <1>1, <1>2, <1>3 DEF RunInv, Phases, Consents, LastWord, runVars, BeforeWrite
<1> QED  BY <1>3, <1>4 DEF RunInv
LEMMA InvariantOfOutside ==
  ASSUME ProbeTypeOK, NEW p \in Process, RunInv(p), Interfere, UNCHANGED runVars
  PROVE  RunInv(p)'
<1> USE PathAssumption
    DEF RunInv, Phases, Files, Consents, LastWord, ProbeTypeOK, Interfere, runVars
<1>1. CASE path' \in {Absent, Outside} /\ UNCHANGED bytes  BY <1>1
<1>2. CASE /\ path \in Process /\ bytes' = [bytes EXCEPT ![path] = "changed"]
           /\ UNCHANGED path
  BY <1>2 DEF Unpublished
<1> QED  BY <1>1, <1>2

LEMMA Invariance == Spec => []ProbeInv
<1>1. ASSUME Init, NEW p \in Process  PROVE RunInv(p)
  <2>1. path # p  BY <1>1, PathAssumption DEF Init, OutputInit
  <2>2. /\ at[p] = "start" /\ said[p] = "nothing" /\ step[p] = "idle" /\ answer[p] = "none"
        /\ ~aborted[p] /\ ~staging[p] /\ ~sent[p] /\ ~publish[p]
    BY <1>1 DEF Init, OutputInit
  <2> QED  BY <2>1, <2>2 DEF RunInv, Phases, Files, Consents, LastWord, Allowed
<1>2. ASSUME ProbeTypeOK, \A p \in Process : RunInv(p), [Next]_vars, NEW q \in Process
      PROVE  RunInv(q)'
  <2>1. CASE UNCHANGED vars
    BY <1>2, <2>1 DEF vars, outputVars, runVars, RunInv, Phases, Files, Consents, LastWord
  <2>2. CASE Interfere /\ UNCHANGED runVars  BY <1>2, <2>2, InvariantOfOutside
  <2>3. ASSUME NEW p \in Process, RunStep(p), p # q  PROVE RunInv(q)'
    BY <1>2, <2>3, OthersAreLeft, InvariantOfOthers
  <2>4. CASE RunStep(q)
    BY <1>2, <2>4, OwnProgramStep, OwnContributorStep, OwnOtherStep, OwnWrite DEF RunStep
  <2> QED  BY <1>2, <2>1, <2>2, <2>3, <2>4 DEF Next, RunStep
<1> DEFINE Inv == \A p \in Process : RunInv(p)
<1>3. ProbeTypeOK /\ Inv /\ [Next]_vars => Inv'
  BY <1>2
<1>4. Init => Inv
  BY <1>1
<1> HIDE DEF Inv
<1>5. Spec => []Inv
  BY <1>3, <1>4, Types, PTL DEF Spec
<1> QED  BY <1>5, Types, PTL DEF ProbeInv, Inv

(***************************************************************************)
(* What the invariant implies.                                             *)
(***************************************************************************)

(* Every variable keeps its type, for any number of runs. *)
THEOREM ProbeTypeCorrect == Spec => []ProbeTypeOK
BY Types

(* An answer "write-failed" is true: whichever file operation failed, and  *)
(* whatever other runs and the outside do, before and after, to the path.  *)
THEOREM FailedWritesLeaveNothing == Spec => []WriteFailedLeavesNothing
<1>1. ProbeInv => WriteFailedLeavesNothing
  BY DEF ProbeInv, RunInv, Files, WriteFailedLeavesNothing
<1> QED  BY <1>1, Invariance, PTL

(* The last word of a run is true, whenever its signal fires and whatever  *)
(* fails: what a cancelled run denies did not happen, and a receipt is of  *)
(* a report the relay holds.                                               *)
THEOREM LastWordIsTrue == Spec => []SaysWhatHappened
<1>1. ProbeInv => SaysWhatHappened
  BY DEF ProbeInv, RunInv, LastWord, SaysWhatHappened
<1> QED  BY <1>1, Invariance, PTL

(* Project code and workload run, a report is written and a request leaves *)
(* only on the answers that allow them.                                    *)
THEOREM ConsentPrecedesEffects == Spec => []EffectsAreConsented
<1>1. ProbeInv => EffectsAreConsented
  BY DEF ProbeInv, RunInv, Consents, EffectsAreConsented, Allowed, Both
<1> QED  BY <1>1, Invariance, PTL

(* A run whose signal has fired begins no child, no download, no write and *)
(* no request, in any of its steps.                                        *)
THEOREM CancelledRunsBeginNothing == Spec => CancelBeginsNothing
<1> DEFINE Quiet(q) == aborted[q] =>
             /\ at'[q] \in {at[q], "done", "crashed"} \/ (at[q] = "fetch" /\ at'[q] = "receipt")
             /\ sent'[q] = sent[q]
<1>1. ASSUME ProbeInv, [Next]_vars, NEW q \in Process  PROVE Quiet(q)
  <2>1. CASE UNCHANGED vars  BY <2>1 DEF vars, runVars
  <2>2. CASE Interfere /\ UNCHANGED runVars  BY <2>2 DEF runVars
  <2>3. ASSUME NEW p \in Process, RunStep(p), p # q  PROVE Quiet(q)
    BY <1>1, <2>3, OthersAreLeft DEF Same, ProbeInv
  <2>4. ASSUME ProgramStep(q), aborted[q]  PROVE Quiet(q)
    <3> USE <1>1, <2>4 DEF ProbeInv, RunInv, Phases, ProbeTypeOK, Await, Say, Cancelled, Refused,
                NotCompleted, Guarded, BoundaryFails, CleanupFails, Waits
    <3>1. CASE Dispatch(q) \/ LoadRealCli(q) \/ NormalizePath(q) \/ Vacancy(q) \/ PromptCancelled(q)
      BY <3>1 DEF Dispatch, LoadRealCli, NormalizePath, Vacancy, PromptCancelled
    <3>2. CASE Resolve(q) \/ Locate(q) \/ Doctor(q) \/ Acquire(q)
      BY <3>2 DEF Resolve, Locate, Doctor, Acquire
    <3>3. CASE Execute(q) \/ Write(q)  BY <3>3 DEF Execute, Write, runVars
    <3>4. CASE WriteFails(q) \/ KeepPrivate(q) \/ Ineligible(q) \/ Submit(q)
      BY <3>4 DEF WriteFails, KeepPrivate, Ineligible, Submit
    <3>5. CASE Respond(q) \/ ReadReceipt(q)  BY <3>5 DEF Respond, ReadReceipt
    <3> QED  BY <3>1, <3>2, <3>3, <3>4, <3>5 DEF ProgramStep
  <2>5. ASSUME ContributorStep(q), aborted[q]  PROVE FALSE
    BY <2>5 DEF ContributorStep, AllowLocalRun, DeclineLocalRun, AllowSubmission, DeclineSubmission
  <2>6. CASE Enqueue(q) \/ Abort(q) \/ Crash(q)
    BY <1>1, <2>6 DEF Enqueue, Abort, Crash, Await, ProbeInv, ProbeTypeOK
  <2> QED  BY <1>1, <2>1, <2>2, <2>3, <2>4, <2>5, <2>6 DEF Next, RunStep
<1>2. ProbeInv /\ [Next]_vars => \A q \in Process : Quiet(q)
  BY <1>1
<1> DEFINE AllQuiet == \A p \in Process : Quiet(p)
<1>3. ProbeInv /\ [Next]_vars => [AllQuiet]_vars
  BY <1>2
<1> QED  BY <1>3, Invariance, PTL DEF Spec, CancelBeginsNothing

(***************************************************************************)
(* The refinement.  While nobody replaces the path between the lstat and   *)
(* the unlink of an undo, a run at its unlink holds the path: its step     *)
(* takes away its own report, as Report!Leave says.                        *)
(***************************************************************************)
UnlinksItsOwn == \A p \in Process : step[p] = "undo-unlink" => path = p

LEMMA PathIsHeld == ~RacesUnlink => (Spec => []UnlinksItsOwn)
<1> SUFFICES ASSUME ~RacesUnlink  PROVE Spec => []UnlinksItsOwn
  OBVIOUS
<1>1. Init => UnlinksItsOwn
  BY DEF Init, OutputInit, UnlinksItsOwn
<1>2. ASSUME ProbeTypeOK, UnlinksItsOwn, [Next]_vars, NEW q \in Process, step'[q] = "undo-unlink"
      PROVE  path' = q
  <2> USE <1>2, PathAssumption DEF UnlinksItsOwn, ProbeTypeOK
  <2>1. CASE UNCHANGED vars  BY <2>1 DEF vars, outputVars
  <2>2. CASE Interfere /\ UNCHANGED runVars
    <3>1. step'[q] = step[q] /\ \A p \in Process : step[p] # "undo-unlink"
      BY <2>2 DEF Interfere, MayInterfere, At
    <3> QED  BY <3>1
  <2>3. ASSUME NEW p \in Process, RunStep(p), ~Write(p)  PROVE path' = q
    <3>1. path' = path /\ (step'[q] = step[q] \/ step'[q] \in {"open", "crashed"})
      <4>1. UNCHANGED outputVars \/ BeginWrite(p) \/ Crash(p)
        BY <2>3 DEF RunStep, ProgramStep, ContributorStep, Dispatch, LoadRealCli, NormalizePath,
           Vacancy, PromptCancelled, Resolve, Locate, Doctor, Acquire, Execute, Guarded,
           WriteFails, KeepPrivate, Ineligible, Submit, Respond, ReadReceipt, AllowLocalRun,
           DeclineLocalRun, AllowSubmission, DeclineSubmission, Enqueue, Abort
      <4> QED  BY <2>3, <4>1 DEF outputVars, BeginWrite, Crash, To
    <3> QED  BY <3>1
  <2>4. ASSUME NEW p \in Process, Write(p)  PROVE path' = q
    <3> USE <2>4 DEF At, To, Settle, Undo, Linked
    <3>1. CASE Open(p)  BY <3>1 DEF Open
    <3>2. CASE Fill(p)  BY <3>2 DEF Fill
    <3>3. CASE Link(p)  BY <3>3 DEF Link
    <3>4. CASE CheckLinked(p)  BY <3>4 DEF CheckLinked
    <3>5. CASE Unstage(p)  BY <3>5 DEF Unstage
    <3>6. CASE CheckPublished(p)  BY <3>6 DEF CheckPublished
    <3>7. CASE Commit(p)  BY <3>7 DEF Commit
    <3>8. CASE UndoLook(p)  BY <3>8 DEF UndoLook, AttemptFails
    <3>9. CASE UndoUnlink(p)  BY <3>9 DEF UndoUnlink, AttemptFails
    <3>10. CASE UndoLookAgain(p)  BY <3>10 DEF UndoLookAgain
    <3>11. CASE UndoStaging(p)  BY <3>11 DEF UndoStaging
    <3> QED
      BY <3>1, <3>2, <3>3, <3>4, <3>5, <3>6, <3>7, <3>8, <3>9, <3>10, <3>11 DEF Write, WriteStep
  <2> QED  BY <2>1, <2>2, <2>3, <2>4 DEF Next, RunStep
<1>3. ProbeTypeOK /\ UnlinksItsOwn /\ [Next]_vars => UnlinksItsOwn'
  BY <1>2 DEF UnlinksItsOwn
<1> QED  BY <1>1, <1>3, Types, PTL DEF Spec

(* The abstract state after a step of p that leaves or changes the path.   *)
whole == path \in Process => bytes[path] = "exact"
stages == [p \in Process |-> Stage(p)]

StageOf(s) ==
  CASE s \in {"idle", "open", "fill", "link"} -> "before"
    [] s \in {"linked", "unstage", "published", "commit", "undo-look", "undo-unlink"} -> "holding"
    [] OTHER -> "after"

LEMMA StageMoves ==
  ASSUME ProbeTypeOK, NEW p \in Process, NEW s, To(p, s)
  PROVE  /\ stages' = [stages EXCEPT ![p] = StageOf(s)]
         /\ stages[p] = StageOf(step[p])
BY ZenonT(30) DEF stages, Stage, StageOf, To, ProbeTypeOK

AbstractStep == [Report!Next]_(Report!vars)

LEMMA WriteRefines ==
  ASSUME ProbeTypeOK, UnlinksItsOwn, NEW p \in Process, RunInv(p), WriteStep(p)
  PROVE  AbstractStep
<1>1. stages \in [Process -> {"before", "holding", "after"}]
  BY DEF stages, Stage

(* The kinds of step: a stutter, a step back, and an answer. *)
<1>2. ASSUME NEW s, To(p, s), StageOf(s) = StageOf(step[p]), UNCHANGED <<path, answer>>, whole' = whole
      PROVE  AbstractStep
  <2>1. stages' = stages  BY <1>1, <1>2, StageMoves
  <2> QED  BY <1>2, <2>1 DEF AbstractStep, Report!vars, whole, stages
<1>3. ASSUME NEW s, To(p, s), StageOf(s) = "after", StageOf(step[p]) # "after", UNCHANGED answer,
             IF path = p THEN path' = Absent ELSE path' = path /\ whole' = whole
      PROVE  AbstractStep
  <2>1. stages' = [stages EXCEPT ![p] = "after"] /\ stages[p] # "after"  BY <1>3, StageMoves
  <2>2. path = p => whole'  BY <1>3, PathAssumption DEF whole
  <2>3. Report!Leave(p)  BY <1>3, <2>1, <2>2 DEF Report!Leave, whole, stages
  <2> QED  BY <2>3 DEF AbstractStep, Report!Next
<1>4. ASSUME NEW a \in {"written", "write-failed", "cleanup-uncertain"}, Settle(p, a),
             answer[p] = "none", UNCHANGED path, whole' = whole,
             a = "written" => path = p /\ whole, a = "write-failed" => path # p
      PROVE  AbstractStep
  <2>1. stages' = [stages EXCEPT ![p] = "after"]  BY <1>4, StageMoves DEF Settle, StageOf
  <2>2. Report!Answer(p, a)  BY <1>4, <2>1 DEF Report!Answer, Settle, whole, stages
  <2> QED  BY <2>2 DEF AbstractStep, Report!Next

<1>5. /\ answer[p] = "none" \/ step[p] \in {"settled", "crashed"}
      /\ step[p] \in Unpublished => path # p
      /\ step[p] = "link" => bytes[p] = "exact"
      /\ step[p] = "undo-unlink" => path = p
  BY DEF RunInv, Phases, Files, UnlinksItsOwn
<1>6. UNCHANGED <<path, bytes>> => whole' = whole
  BY DEF whole
<1>7. ASSUME Undo(p), step[p] \in {"fill", "link"} \/ Linked(p)  PROVE AbstractStep
  <2>1. CASE Linked(p)  BY <1>2, <1>6, <1>7, <2>1 DEF Undo, Linked, StageOf
  <2>2. CASE ~Linked(p)
    BY <1>3, <1>5, <1>6, <1>7, <2>2 DEF Undo, Linked, StageOf, Unpublished
  <2> QED  BY <2>1, <2>2
<1>8. CASE Open(p)
  <2>1. step[p] = "open" /\ path # p /\ answer[p] = "none"
    BY <1>5, <1>8 DEF Open, At, Unpublished
  <2>2. CASE Settle(p, "write-failed") /\ UNCHANGED bytes
    BY <1>4, <1>6, <1>8, <2>1, <2>2 DEF Open
  <2>3. CASE bytes' = [bytes EXCEPT ![p] = "partial"] /\ To(p, "fill") /\ UNCHANGED answer
    <3>1. whole' = whole  BY <1>8, <2>1, <2>3 DEF whole, Open, ProbeTypeOK
    <3> QED  BY <1>2, <1>8, <2>1, <2>3, <3>1 DEF Open, StageOf
  <2> QED  BY <1>8, <2>2, <2>3 DEF Open
<1>9. CASE Fill(p)
  <2>1. step[p] = "fill" /\ path # p /\ answer[p] = "none"
    BY <1>5, <1>9 DEF Fill, At, Unpublished
  <2>2. CASE Settle(p, "cleanup-uncertain") /\ UNCHANGED <<path, staging, bytes, tries>>
    BY <1>4, <1>6, <2>1, <2>2
  <2>3. CASE bytes' = [bytes EXCEPT ![p] = "exact"] /\ To(p, "link") /\ UNCHANGED <<path, staging, tries, answer>>
    <3>1. whole' = whole  BY <2>1, <2>3 DEF whole, ProbeTypeOK
    <3> QED  BY <1>2, <2>1, <2>3, <3>1 DEF StageOf
  <2> QED  BY <1>7, <1>9, <2>1, <2>2, <2>3 DEF Fill
<1>10. CASE Link(p)
  <2>1. step[p] = "link" /\ bytes[p] = "exact"  BY <1>5, <1>10 DEF Link, At
  <2>2. CASE path = Absent /\ path' = p /\ To(p, "linked") /\ UNCHANGED <<staging, bytes, tries, answer>>
    <3>1. stages[p] = "before" /\ stages' = [stages EXCEPT ![p] = "holding"]
      BY <2>1, <2>2, StageMoves DEF StageOf
    <3>2. whole'  BY <2>1, <2>2 DEF whole
    <3>3. Report!Publish(p)  BY <2>2, <3>1, <3>2 DEF Report!Publish, whole, stages
    <3> QED  BY <3>3 DEF AbstractStep, Report!Next
  <2> QED  BY <1>7, <1>10, <2>1, <2>2 DEF Link
<1>11. CASE CheckLinked(p)
  BY <1>2, <1>6, <1>7, <1>11 DEF CheckLinked, At, Linked, StageOf
<1>12. CASE Unstage(p)
  BY <1>2, <1>6, <1>7, <1>12 DEF Unstage, At, Linked, StageOf
<1>13. CASE CheckPublished(p)
  BY <1>2, <1>6, <1>7, <1>13 DEF CheckPublished, At, Linked, StageOf
<1>14. CASE Commit(p)
  BY <1>4, <1>5, <1>6, <1>7, <1>14 DEF Commit, At, Linked, whole
<1>15. ASSUME AttemptFails(p), step[p] \in {"undo-look", "undo-unlink"}  PROVE AbstractStep
  BY <1>2, <1>4, <1>5, <1>6, <1>15 DEF AttemptFails, StageOf
<1>16. CASE UndoLook(p)
  <2>1. step[p] = "undo-look"  BY <1>16 DEF UndoLook, At
  <2>2. CASE To(p, IF path = p THEN "undo-unlink" ELSE "undo-staging")
             /\ UNCHANGED <<path, staging, bytes, tries, answer>>
    BY <1>2, <1>3, <1>6, <2>1, <2>2 DEF StageOf
  <2> QED  BY <1>15, <1>16, <2>1, <2>2 DEF UndoLook
<1>17. CASE UndoUnlink(p)
  <2>1. step[p] = "undo-unlink" /\ path = p  BY <1>5, <1>17 DEF UndoUnlink, At
  <2>2. CASE path' = Absent /\ To(p, IF path = Absent THEN "undo-staging" ELSE "undo-look-again")
             /\ UNCHANGED answer
    BY <1>3, <2>1, <2>2 DEF StageOf
  <2> QED  BY <1>15, <1>17, <2>1, <2>2 DEF UndoUnlink
<1>18. CASE UndoLookAgain(p)
  BY <1>2, <1>4, <1>5, <1>6, <1>18 DEF UndoLookAgain, At, StageOf
<1>19. CASE UndoStaging(p)
  <2>1. step[p] = "undo-staging" /\ path # p /\ answer[p] = "none" /\ whole' = whole
    BY <1>5, <1>6, <1>19 DEF UndoStaging, At, Unpublished
  <2>2. UNCHANGED path  BY <1>19 DEF UndoStaging
  <2>3. \E a \in {"write-failed", "cleanup-uncertain"} : Settle(p, a)  BY <1>19 DEF UndoStaging
  <2> QED  BY <1>4, <2>1, <2>2, <2>3
<1> QED
  BY <1>8, <1>9, <1>10, <1>11, <1>12, <1>13, <1>14, <1>16, <1>17, <1>18, <1>19 DEF WriteStep

LEMMA OtherStepsRefine ==
  ASSUME ProbeTypeOK, NEW p \in Process, RunInv(p), RunStep(p), ~Write(p)
  PROVE  AbstractStep
<1>1. ASSUME UNCHANGED outputVars  PROVE AbstractStep
  <2>1. UNCHANGED <<path, answer>> /\ whole' = whole /\ stages' = stages
    BY <1>1 DEF outputVars, whole, stages, Stage
  <2> QED  BY <2>1 DEF AbstractStep, Report!vars, whole, stages
<1>2. ASSUME BeginWrite(p), step[p] = "idle"  PROVE AbstractStep
  <2>1. stages' = [stages EXCEPT ![p] = "before"] /\ stages[p] = "before"
    BY <1>2, StageMoves DEF BeginWrite, StageOf
  <2>2. stages' = stages  BY <2>1 DEF stages
  <2>3. UNCHANGED <<path, answer>> /\ whole' = whole  BY <1>2 DEF BeginWrite, whole
  <2> QED  BY <2>2, <2>3 DEF AbstractStep, Report!vars, whole, stages
<1>3. ASSUME Crash(p)  PROVE AbstractStep
  <2>1. stages' = [stages EXCEPT ![p] = "after"]  BY <1>3, StageMoves DEF Crash, StageOf
  <2>2. Report!Crash(p)  BY <1>3, <2>1 DEF Crash, Report!Crash, whole, stages
  <2> QED  BY <2>2 DEF AbstractStep, Report!Next
<1>4. at[p] \in {"execute", "publication"} => step[p] = "idle"
  BY DEF RunInv, Phases, BeforeWrite
<1>5. CASE ProgramStep(p)
  BY <1>1, <1>2, <1>4, <1>5
     DEF ProgramStep, Dispatch, LoadRealCli, NormalizePath, Vacancy, PromptCancelled, Resolve,
         Locate, Doctor, Acquire, Execute, Guarded, Waits, WriteFails, KeepPrivate, Ineligible,
         Submit, Respond, ReadReceipt
<1>6. CASE ContributorStep(p)
  BY <1>1, <1>2, <1>4, <1>6
     DEF ContributorStep, AllowLocalRun, DeclineLocalRun, AllowSubmission, DeclineSubmission, Waits
<1>7. CASE Enqueue(p) \/ Abort(p)  BY <1>1, <1>7 DEF Enqueue, Abort
<1> QED  BY <1>3, <1>5, <1>6, <1>7 DEF RunStep

LEMMA OutsideRefines ==
  ASSUME ProbeTypeOK, Interfere
  PROVE  AbstractStep
<1>1. stages' = stages  BY DEF Interfere, stages, Stage
<1>2. CASE path' \in {Absent, Outside} /\ UNCHANGED bytes
  <2>1. whole'  BY <1>2, PathAssumption DEF whole
  <2> QED  BY <1>1, <1>2, <2>1 DEF Interfere, AbstractStep, Report!Next, Report!Interfere, whole, stages
<1>3. CASE /\ path \in Process /\ bytes' = [bytes EXCEPT ![path] = "changed"]
           /\ UNCHANGED path
  <2>1. ~whole'  BY <1>3 DEF whole, ProbeTypeOK
  <2> QED  BY <1>1, <1>3, <2>1 DEF Interfere, AbstractStep, Report!Next, Report!Interfere, whole, stages
<1> QED  BY <1>2, <1>3 DEF Interfere

(* Reports are published exclusively: whole, once, where nothing was, and  *)
(* only their own run takes them back, for any number of runs and whatever *)
(* the outside does to the path except between an lstat and its unlink.    *)
THEOREM ReportsAreExclusive == ~RacesUnlink => (Spec => ImplementsExclusiveReport)
<1> SUFFICES ASSUME ~RacesUnlink  PROVE Spec => ImplementsExclusiveReport
  OBVIOUS
<1>1. Init => Report!Init
  <2> SUFFICES ASSUME Init  PROVE Report!Init
    OBVIOUS
  <2>1. whole  BY PathAssumption DEF Init, OutputInit, whole
  <2>2. stages = [p \in Process |-> "before"]  BY DEF Init, OutputInit, stages, Stage
  <2> QED  BY <2>1, <2>2 DEF Init, OutputInit, Report!Init, whole, stages
<1>2. ProbeInv /\ UnlinksItsOwn /\ [Next]_vars => AbstractStep
  <2> SUFFICES ASSUME ProbeInv, UnlinksItsOwn, [Next]_vars  PROVE AbstractStep
    OBVIOUS
  <2>1. CASE UNCHANGED vars
    <3>1. whole' = whole /\ stages' = stages /\ UNCHANGED <<path, answer>>
      BY <2>1 DEF vars, outputVars, whole, stages, Stage
    <3> QED  BY <3>1 DEF AbstractStep, Report!vars, whole, stages
  <2>2. CASE Interfere  BY <2>2, OutsideRefines DEF ProbeInv
  <2>3. ASSUME NEW p \in Process, RunStep(p)  PROVE AbstractStep
    BY <2>3, WriteRefines, OtherStepsRefine DEF ProbeInv, Write
  <2> QED  BY <2>1, <2>2, <2>3 DEF Next, RunStep
<1> QED
  BY <1>1, <1>2, Invariance, PathIsHeld, PTL
  DEF Spec, ImplementsExclusiveReport, Report!Spec, AbstractStep
=============================================================================
