---------------------- MODULE ArtifactAcquisitionProofs ----------------------
(***************************************************************************)
(* Theorems about the acquisition, for any set of attempts, overlapping or *)
(* not.                                                                    *)
(***************************************************************************)
EXTENDS ArtifactAcquisition, TLAPS

(***************************************************************************)
(* Type correctness.  A child sends a bounded number of messages because   *)
(* each place of its program bounds the number sent so far.                *)
(***************************************************************************)
Budget(pc) ==
  CASE pc \in {"none", "boot"} -> 0
    [] pc \in {"look", "open", "hash"} -> 1
    [] pc \in {"reserve", "capacity"} -> 2
    [] pc \in {"hit", "stage", "staged"} -> 3
    [] pc \in {"stream", "link", "linked"} -> 4
    [] pc \in {"unlink", "unlinked"} -> 5
    [] pc = "sync" -> 6
    [] pc \in {"recheck", "ready", "unpublish", "unstage", "complain"} -> 7
    [] pc = "report" -> 8
    [] OTHER -> 9

SentInv == \A s \in Session : Len(sent[s]) <= Budget(worker[s])
IdleInv == \A s \in Session : parent[s] = "idle" => worker[s] = "none"
TypeInv == TypeOK /\ SentInv /\ IdleInv

Pc == Failing \cup {"none", "boot", "ready", "report", "unpublish", "unstage",
                    "complain", "finished", "failed", "dead"}

LEMMA BudgetFits == \A pc \in Pc : Budget(pc) \in 0 .. MaxMessages
  BY DEF Pc, Failing, Budget, MaxMessages

LEMMA BudgetTable ==
  /\ Budget("boot") = 0 /\ Budget("none") = 0
  /\ Budget("look") = 1 /\ Budget("open") = 1 /\ Budget("hash") = 1
  /\ Budget("reserve") = 2 /\ Budget("capacity") = 2
  /\ Budget("hit") = 3 /\ Budget("stage") = 3 /\ Budget("staged") = 3
  /\ Budget("stream") = 4 /\ Budget("link") = 4 /\ Budget("linked") = 4
  /\ Budget("unlink") = 5 /\ Budget("unlinked") = 5 /\ Budget("sync") = 6
  /\ Budget("recheck") = 7 /\ Budget("ready") = 7 /\ Budget("unpublish") = 7
  /\ Budget("unstage") = 7 /\ Budget("complain") = 7 /\ Budget("report") = 8
  /\ Budget("finished") = 9 /\ Budget("failed") = 9 /\ Budget("dead") = 9
  BY DEF Budget

LEMMA MessageTable ==
  /\ "accepted" \in Tokens \cup Terminals /\ "cache-hit" \in Tokens \cup Terminals
  /\ "cache-miss" \in Tokens \cup Terminals /\ "capacity-ok" \in Tokens \cup Terminals
  /\ "staging-open" \in Tokens \cup Terminals /\ "hard-linked" \in Tokens \cup Terminals
  /\ "staging-unlinked" \in Tokens \cup Terminals
  /\ "directory-synced" \in Tokens \cup Terminals /\ "ready" \in Tokens \cup Terminals
  /\ "success-hit" \in Tokens \cup Terminals /\ "success-miss" \in Tokens \cup Terminals
  /\ "error" \in Tokens \cup Terminals
  BY DEF Tokens, Terminals

LEMMA BudgetOfDead == \A pc \in Pc : Budget(pc) <= Budget("dead")
  BY DEF Pc, Failing, Budget

(* A step of the child at one place that sends at most one message keeps   *)
(* the types, if the place it goes to has the budget for the message.      *)
LEMMA SayType ==
  ASSUME TypeInv, NEW s \in Session, NEW pc \in Pc, NEW token \in Tokens \cup Terminals,
         Goes(s, pc), Says(s, token), Budget(worker[s]) < Budget(pc)
  PROVE  /\ worker' \in [Session -> Pc]
         /\ sent' \in [Session -> Seq(Tokens \cup Terminals)]
         /\ \A t \in Session : Len(sent'[t]) <= MaxMessages
         /\ SentInv'
<1> USE BudgetFits DEF Goes, Says
<1>1. worker \in [Session -> Pc] /\ sent \in [Session -> Seq(Tokens \cup Terminals)]
  BY DEF TypeInv, TypeOK, Pc
<1>2. worker' \in [Session -> Pc] /\ sent' \in [Session -> Seq(Tokens \cup Terminals)]
  BY <1>1
<1>3. \A t \in Session : Len(sent'[t]) <= Budget(worker'[t])
  <2> TAKE t \in Session
  <2>1. CASE t = s
    BY <1>1, <2>1, SMTT(30) DEF TypeInv, SentInv, MaxMessages
  <2>2. CASE t # s
    BY <1>1, <2>2 DEF TypeInv, SentInv
  <2>3. QED
    BY <2>1, <2>2
<1>4. \A t \in Session : Len(sent'[t]) <= MaxMessages
  BY <1>2, <1>3 DEF MaxMessages
<1>5. QED
  BY <1>2, <1>3, <1>4 DEF SentInv

LEMMA MoveType ==
  ASSUME TypeInv, NEW s \in Session, NEW pc \in Pc, Goes(s, pc), UNCHANGED sent,
         Budget(worker[s]) <= Budget(pc)
  PROVE  /\ worker' \in [Session -> Pc]
         /\ sent' \in [Session -> Seq(Tokens \cup Terminals)]
         /\ \A t \in Session : Len(sent'[t]) <= MaxMessages
         /\ SentInv'
<1> USE BudgetFits DEF Goes
<1>1. worker \in [Session -> Pc] /\ sent \in [Session -> Seq(Tokens \cup Terminals)]
  BY DEF TypeInv, TypeOK, Pc
<1>2. worker' \in [Session -> Pc]
  BY <1>1
<1>3. \A t \in Session : Len(sent'[t]) <= Budget(worker'[t])
  <2> TAKE t \in Session
  <2>1. CASE t = s
    BY <1>1, <2>1 DEF TypeInv, SentInv, MaxMessages
  <2>2. CASE t # s
    BY <1>1, <2>2 DEF TypeInv, SentInv
  <2>3. QED
    BY <2>1, <2>2
<1>4. QED
  BY <1>1, <1>2, <1>3 DEF SentInv, TypeInv, TypeOK

LEMMA InitTypeInv == Init => TypeInv
<1> SUFFICES ASSUME Init PROVE TypeInv
  OBVIOUS
<1>1. /\ worker \in [Session -> Pc] /\ exit \in [Session -> {"none", "0", "1", "killed"}]
      /\ sent \in [Session -> Seq(Tokens \cup Terminals)]
      /\ \A s \in Session : Len(sent[s]) = 0
  BY DEF Init, Pc
<1>2. \A s \in Session : Budget(worker[s]) = 0
  BY DEF Init, Budget
<1>3. QED
  BY <1>1, <1>2 DEF Init, TypeInv, TypeOK, SentInv, IdleInv, Pc, Result, File, MaxMessages

(* The steps of the child.                                                 *)
LEMMA WorkerTypeInv ==
  ASSUME TypeInv, NEW s \in Session, WorkerStep(s)
  PROVE  TypeInv'
<1> DEFINE Typed == /\ worker' \in [Session -> Pc]
                    /\ sent' \in [Session -> Seq(Tokens \cup Terminals)]
                    /\ \A t \in Session : Len(sent'[t]) <= MaxMessages
                    /\ SentInv'
<1>1. Typed
  <2> USE BudgetTable, MessageTable DEF At, Pc, Failing
  <2>1. CASE Accept(s)
    BY <2>1, SayType DEF Accept
  <2>2. CASE LookMiss(s)
    BY <2>2, SayType DEF LookMiss
  <2>3. CASE LookFound(s)
    BY <2>3, MoveType DEF LookFound
  <2>4. CASE OpenCache(s)
    BY <2>4, MoveType DEF OpenCache
  <2>5. CASE HashCache(s)
    BY <2>5, SayType, MoveType DEF HashCache
  <2>6. CASE CheckCapacity(s)
    BY <2>6, SayType DEF CheckCapacity
  <2>7. CASE Stage(s)
    BY <2>7, MoveType DEF Stage
  <2>8. CASE AnnounceStaging(s)
    BY <2>8, SayType DEF AnnounceStaging
  <2>9. CASE Stream(s)
    BY <2>9, MoveType DEF Stream
  <2>10. CASE Link(s)
    BY <2>10, MoveType DEF Link
  <2>11. CASE AnnounceLink(s)
    BY <2>11, SayType DEF AnnounceLink
  <2>12. CASE UnlinkStaging(s)
    BY <2>12, MoveType DEF UnlinkStaging
  <2>13. CASE ConfirmPublished(s)
    BY <2>13, SayType DEF ConfirmPublished
  <2>14. CASE SyncDirectory(s)
    BY <2>14, SayType DEF SyncDirectory
  <2>15. CASE Recheck(s)
    BY <2>15, MoveType DEF Recheck
  <2>16. CASE SayReady(s)
    BY <2>16, SayType DEF SayReady
  <2>17. CASE ReportSuccess(s)
    BY <2>17, SayType DEF ReportSuccess
  <2>18. CASE Fail(s)
    BY <2>18, MoveType DEF Fail, AfterFailure
  <2>19. CASE SendFails(s)
    BY <2>19, MoveType DEF SendFails
  <2>20. CASE Unpublish(s)
    BY <2>20, MoveType DEF Unpublish
  <2>21. CASE Unstage(s)
    BY <2>21, MoveType DEF Unstage
  <2>22. CASE Complain(s)
    BY <2>22, SayType DEF Complain
  <2>23. CASE WorkerExits(s)
    BY <2>23, MoveType DEF WorkerExits
  <2>24. CASE WorkerKilled(s)
    <3>1. worker[s] \in Pc
      BY DEF TypeInv, TypeOK
    <3>2. QED
      BY <2>24, <3>1, BudgetOfDead, MoveType DEF WorkerKilled
  <2>25. QED
    BY <2>1, <2>2, <2>3, <2>4, <2>5, <2>6, <2>7, <2>8, <2>9, <2>10, <2>11, <2>12,
       <2>13, <2>14, <2>15, <2>16, <2>17, <2>18, <2>19, <2>20, <2>21, <2>22, <2>23, <2>24
       DEF WorkerStep
<1>2. UNCHANGED <<parentVars, recovery>>
  BY DEF WorkerStep, Accept, LookMiss, LookFound, OpenCache, HashCache, CheckCapacity, Stage,
     AnnounceStaging, Stream, Link, AnnounceLink, UnlinkStaging, ConfirmPublished,
     SyncDirectory, Recheck, SayReady, ReportSuccess, Fail, SendFails, Unpublish, Unstage,
     Complain, WorkerExits, WorkerKilled
<1> DEFINE Stored == /\ blob' \in File \cup {NoFile} /\ partial' \subseteq Session
                     /\ stuck' \subseteq Session
                     /\ bytes' \in [File -> {"none", "pinned", "other"}]
                     /\ seen' \in [Session -> File \cup {NoFile}]
                     /\ exit' \in [Session -> {"none", "0", "1", "killed"}]
<1>3. Stored
  <2> USE DEF TypeInv, TypeOK, File
  <2>1. CASE OpenCache(s)
    BY <2>1 DEF OpenCache, directoryVars
  <2>2. CASE Stage(s)
    BY <2>2 DEF Stage
  <2>3. CASE Stream(s)
    BY <2>3 DEF Stream
  <2>4. CASE Link(s)
    BY <2>4 DEF Link
  <2>5. CASE UnlinkStaging(s)
    BY <2>5 DEF UnlinkStaging
  <2>6. CASE Unpublish(s)
    BY <2>6 DEF Unpublish
  <2>7. CASE Unstage(s)
    BY <2>7 DEF Unstage
  <2>8. CASE WorkerExits(s)
    BY <2>8 DEF WorkerExits, directoryVars
  <2>9. CASE WorkerKilled(s)
    BY <2>9 DEF WorkerKilled, directoryVars
  <2>10. CASE UNCHANGED <<directoryVars, seen, exit>>
    BY <2>10 DEF directoryVars
  <2>11. QED
    BY <2>1, <2>2, <2>3, <2>4, <2>5, <2>6, <2>7, <2>8, <2>9, <2>10
       DEF WorkerStep, Accept, LookMiss, LookFound, HashCache, CheckCapacity, AnnounceStaging,
       AnnounceLink, ConfirmPublished, SyncDirectory, Recheck, SayReady, ReportSuccess, Fail,
       SendFails, Complain
<1>4. IdleInv'
  <2>1. worker[s] # "none"
    BY DEF WorkerStep, Accept, LookMiss, LookFound, OpenCache, HashCache, CheckCapacity, Stage,
       AnnounceStaging, Stream, Link, AnnounceLink, UnlinkStaging, ConfirmPublished,
       SyncDirectory, Recheck, SayReady, ReportSuccess, Fail, SendFails, Unpublish, Unstage,
       Complain, WorkerExits, WorkerKilled, At, Failing, WorkerGone
  <2>2. \E pc : Goes(s, pc)
    BY DEF WorkerStep, Accept, LookMiss, LookFound, OpenCache, HashCache, CheckCapacity, Stage,
       AnnounceStaging, Stream, Link, AnnounceLink, UnlinkStaging, ConfirmPublished,
       SyncDirectory, Recheck, SayReady, ReportSuccess, Fail, SendFails, Unpublish, Unstage,
       Complain, WorkerExits, WorkerKilled
  <2>3. QED
    BY <1>2, <2>1, <2>2 DEF TypeInv, TypeOK, IdleInv, Goes, parentVars
<1>5. QED
  BY <1>1, <1>2, <1>3, <1>4 DEF TypeInv, TypeOK, Pc, parentVars

LEMMA ResultTable ==
  /\ "granted" \in Result /\ Declined \in Result /\ Aborted \in Result
  /\ TimedOut \in Result /\ ProtocolInvalid \in Result /\ WorkerFailed \in Result
  /\ CleanupFailed \in Result /\ ChildError \in Result
  BY DEF Result

LEMMA VerdictType == \A s \in Session : Verdict(s) \in Result
  BY DEF Verdict, ExitVerdict, Result

(* The steps of the parent and of the recovery child.                      *)
LEMMA NextTypeInv == TypeInv /\ [Next]_vars => TypeInv'
<1> SUFFICES ASSUME TypeInv, [Next]_vars PROVE TypeInv'
  OBVIOUS
<1>1. CASE UNCHANGED vars
  BY <1>1 DEF TypeInv, TypeOK, SentInv, IdleInv, vars, directoryVars, parentVars, workerVars
<1>2. ASSUME NEW s \in Session, SessionStep(s) PROVE TypeInv'
  <2> USE ResultTable DEF Enters, Answer, In, IdleInv
  <2>1. CASE Begin(s)
    <3>1. parent[s] = "idle" /\ worker[s] = "none"
      BY <2>1 DEF Begin, TypeInv
    <3>2. CASE Enters(s, "waiting") /\ Goes(s, "boot") /\ UNCHANGED result
      <4>1. Budget("none") = 0 /\ Budget("boot") = 0
        BY BudgetTable
      <4>2. UNCHANGED sent
        BY <2>1 DEF Begin
      <4>3. SentInv'
        BY <3>1, <3>2, <4>1, <4>2 DEF Goes, SentInv, TypeInv, TypeOK
      <4>4. QED
        BY <2>1, <3>2, <4>3 DEF Begin, Goes, TypeInv, TypeOK, directoryVars
    <3>3. ASSUME NEW r \in Result, Answer(s, r), UNCHANGED worker PROVE TypeInv'
      BY <2>1, <3>3 DEF Begin, TypeInv, TypeOK, SentInv, directoryVars
    <3>4. QED
      BY <2>1, <3>2, <3>3 DEF Begin
  <2>2. CASE CallerAborts(s)
    BY <2>2 DEF CallerAborts, TypeInv, TypeOK, SentInv, directoryVars, workerVars
  <2>3. CASE \E o \in {"exit", "abort", "protocol", "timeout"} : Observe(s, o)
    BY <2>3 DEF Observe, TypeInv, TypeOK, SentInv, directoryVars, workerVars
  <2>4. CASE Reaped(s)
    <3> DEFINE v == Verdict(s)
    <3>1. v \in Result
      BY VerdictType
    <3> HIDE DEF v
    <3>2. CASE NeedsRecovery(s)
      <4>1. /\ Enters(s, "recovering") /\ pending' = [pending EXCEPT ![s] = v]
            /\ recovery' = [recovery EXCEPT ![s] = "active"] /\ UNCHANGED result
        BY <2>4, <3>2 DEF Reaped, v
      <4>2. QED
        BY <2>4, <3>1, <4>1 DEF Reaped, TypeInv, TypeOK, SentInv, directoryVars, workerVars
    <3>3. CASE ~NeedsRecovery(s)
      <4>1. Answer(s, v) /\ UNCHANGED <<pending, recovery>>
        BY <2>4, <3>3 DEF Reaped, v
      <4>2. QED
        BY <2>4, <3>1, <4>1 DEF Reaped, TypeInv, TypeOK, SentInv, directoryVars, workerVars
    <3>4. QED
      BY <3>2, <3>3
  <2>5. CASE ReapFails(s)
    <3>1. CASE Enters(s, "reaping-again")
      BY <2>5, <3>1, ZenonT(30) DEF ReapFails, TypeInv, TypeOK, SentInv, directoryVars, workerVars
    <3>2. CASE Answer(s, CleanupFailed)
      BY <2>5, <3>2 DEF ReapFails, TypeInv, TypeOK, SentInv, directoryVars, workerVars
    <3>3. QED
      BY <2>5, <3>1, <3>2 DEF ReapFails
  <2>6. CASE RecoveryEnds(s)
    <3>1. PICK r \in Result \cup {"none"} : Answer(s, r)
      BY <2>6 DEF RecoveryEnds, TypeInv, TypeOK
    <3>2. QED
      BY <2>6, <3>1 DEF RecoveryEnds, TypeInv, TypeOK, SentInv, directoryVars, workerVars
  <2>7. CASE ParentLost(s)
    BY <2>7 DEF ParentLost, TypeInv, TypeOK, SentInv, directoryVars, workerVars
  <2>8. CASE WorkerStep(s)
    BY <2>8, WorkerTypeInv
  <2>9. CASE Recover(s)
    <3>1. /\ partial' \subseteq Session
          /\ recovery' \in [Session -> {"none", "active", "cleared", "failed"}]
      <4>1. CASE s \notin partial \/ Recoverable(s)
        <5>1. /\ partial' = partial \ {s}
              /\ recovery' = [recovery EXCEPT ![s] = "cleared"]
          BY <2>9, <4>1 DEF Recover
        <5>2. QED
          BY <5>1 DEF TypeInv, TypeOK
      <4>2. CASE ~(s \notin partial \/ Recoverable(s))
        <5>1. /\ partial' = partial
              /\ recovery' = [recovery EXCEPT ![s] = "failed"]
          BY <2>9, <4>2 DEF Recover
        <5>2. QED
          BY <5>1 DEF TypeInv, TypeOK
      <4>3. QED
        BY <4>1, <4>2
    <3>2. QED
      BY <2>9, <3>1 DEF Recover, TypeInv, TypeOK, SentInv, parentVars, workerVars
  <2>10. CASE RecoveryDies(s)
    BY <2>10 DEF RecoveryDies, TypeInv, TypeOK, SentInv, directoryVars, parentVars, workerVars
  <2>11. QED
    BY <1>2, <2>1, <2>2, <2>3, <2>4, <2>5, <2>6, <2>7, <2>8, <2>9, <2>10
       DEF SessionStep, SupervisorStep
<1>3. QED
  BY <1>1, <1>2 DEF Next

(* The variables keep their types for any set of attempts, and no child    *)
(* sends more messages than its parent accepts.                            *)
THEOREM ArtifactTypeCorrect == Spec => []TypeOK
<1>1. TypeInv => TypeOK
  BY DEF TypeInv
<1>2. QED
  BY InitTypeInv, NextTypeInv, <1>1, PTL DEF Spec

(***************************************************************************)
(* Where a child can be while its files exist, and what the parent knows   *)
(* when it answers.                                                        *)
(***************************************************************************)
StagedAt == {"staged", "stream", "link", "linked", "unlink", "unpublish", "unstage",
             "complain", "failed", "dead"}
PublishedAt == {"linked", "unlink", "unlinked", "sync", "recheck", "ready", "report",
                "finished", "unpublish", "unstage", "complain", "failed", "dead"}
AnnouncedAt == {"stream", "link", "linked", "unlink", "unlinked", "sync", "recheck"}

FilesInv(s) ==
  /\ s \in partial => worker[s] \in StagedAt
  /\ blob = s => worker[s] \in PublishedAt /\ Acknowledged(s) /\ bytes[s] = "pinned"
  /\ worker[s] \in AnnouncedAt => Acknowledged(s)
  /\ worker[s] = "link" => bytes[s] = "pinned"
  /\ worker[s] \in {"complain", "failed"} /\ s \in partial => s \in stuck
  /\ worker[s] = "dead" /\ exit[s] # "killed" /\ s \in partial =>
       s \in stuck /\ exit[s] = "1"
  /\ recovery[s] = "cleared" => s \notin partial

AnswerInv(s) ==
  /\ recovery[s] # "none" => worker[s] = "dead" /\ parent[s] \in {"recovering", "done", "lost"}
  /\ parent[s] = "recovering" => worker[s] = "dead"
  /\ result[s] # "none" => parent[s] = "done"
  /\ parent[s] = "done" /\ result[s] # CleanupFailed =>
       /\ WorkerGone(s) /\ recovery[s] # "active"
       /\ Acknowledged(s) /\ s \in partial => result[s] = ChildError /\ s \in stuck

AttemptInv == \A s \in Session : FilesInv(s) /\ AnswerInv(s)
IInv == TypeInv /\ AttemptInv

LEMMA InitAttemptInv == Init => AttemptInv
  BY FilesDiffer DEF Init, AttemptInv, FilesInv, AnswerInv, StagedAt, PublishedAt, AnnouncedAt,
     CleanupFailed, WorkerGone, Acknowledged

(* What a step of one attempt leaves alone of another.                     *)
Frame(s) ==
  \A t \in Session \ {s} :
    /\ worker'[t] = worker[t] /\ sent'[t] = sent[t] /\ bytes'[t] = bytes[t]
    /\ exit'[t] = exit[t] /\ parent'[t] = parent[t] /\ result'[t] = result[t]
    /\ recovery'[t] = recovery[t]
    /\ t \in partial' <=> t \in partial
    /\ t \in stuck' <=> t \in stuck
    /\ blob' = t => blob = t

LEMMA FrameKeeps ==
  ASSUME AttemptInv, NEW s \in Session, Frame(s), (FilesInv(s) /\ AnswerInv(s))'
  PROVE  AttemptInv'
<1> SUFFICES ASSUME NEW t \in Session, t # s PROVE (FilesInv(t) /\ AnswerInv(t))'
  BY DEF AttemptInv
<1>1. Acknowledged(t)' <=> Acknowledged(t)
  BY DEF Frame, Acknowledged
<1>2. QED
  BY <1>1 DEF Frame, AttemptInv, FilesInv, AnswerInv, WorkerGone

LEMMA AckStays ==
  ASSUME TypeInv, NEW s \in Session, NEW token, Says(s, token), Acknowledged(s)
  PROVE  Acknowledged(s)'
<1>1. PICK i \in DOMAIN sent[s] : sent[s][i] = "staging-open"
  BY DEF Acknowledged
<1>2. sent[s] \in Seq(Tokens \cup Terminals) /\ sent'[s] = Append(sent[s], token)
  BY DEF TypeInv, TypeOK, Says
<1>3. i \in DOMAIN sent'[s] /\ sent'[s][i] = "staging-open"
  BY <1>1, <1>2
<1>4. QED
  BY <1>3 DEF Acknowledged

LEMMA AckSaid ==
  ASSUME TypeInv, NEW s \in Session, Says(s, "staging-open")
  PROVE  Acknowledged(s)'
<1>1. sent[s] \in Seq(Tokens \cup Terminals) /\ sent'[s] = Append(sent[s], "staging-open")
  BY DEF TypeInv, TypeOK, Says
<1>2. Len(sent[s]) + 1 \in DOMAIN sent'[s] /\ sent'[s][Len(sent[s]) + 1] = "staging-open"
  BY <1>1
<1>3. QED
  BY <1>2 DEF Acknowledged

(* A message that is not the announcement acknowledges nothing new.        *)
LEMMA AckOnlySaid ==
  ASSUME TypeInv, NEW s \in Session, NEW token, Says(s, token), token # "staging-open",
         Acknowledged(s)'
  PROVE  Acknowledged(s)
<1>1. PICK i \in DOMAIN sent'[s] : sent'[s][i] = "staging-open"
  BY DEF Acknowledged
<1>2. sent[s] \in Seq(Tokens \cup Terminals) /\ sent'[s] = Append(sent[s], token)
  BY DEF TypeInv, TypeOK, Says
<1>3. i \in DOMAIN sent[s] /\ sent[s][i] = "staging-open"
  BY <1>1, <1>2
<1>4. QED
  BY <1>3 DEF Acknowledged

LEMMA WorkerFrame ==
  ASSUME TypeInv, NEW s \in Session, WorkerStep(s)
  PROVE  Frame(s) /\ UNCHANGED <<parent, result, recovery>>
<1> USE FilesDiffer DEF TypeInv, TypeOK, Frame, Goes, Says, directoryVars, parentVars, File
<1>1. CASE Accept(s)
  BY <1>1 DEF Accept
<1>2. CASE LookMiss(s)
  BY <1>2 DEF LookMiss
<1>3. CASE LookFound(s)
  BY <1>3 DEF LookFound
<1>4. CASE OpenCache(s)
  BY <1>4 DEF OpenCache
<1>5. CASE HashCache(s)
  BY <1>5 DEF HashCache
<1>6. CASE CheckCapacity(s)
  BY <1>6 DEF CheckCapacity
<1>7. CASE Stage(s)
  BY <1>7 DEF Stage
<1>8. CASE AnnounceStaging(s)
  BY <1>8 DEF AnnounceStaging
<1>9. CASE Stream(s)
  BY <1>9 DEF Stream
<1>10. CASE Link(s)
  BY <1>10 DEF Link
<1>11. CASE AnnounceLink(s)
  BY <1>11 DEF AnnounceLink
<1>12. CASE UnlinkStaging(s)
  BY <1>12 DEF UnlinkStaging
<1>13. CASE ConfirmPublished(s)
  BY <1>13 DEF ConfirmPublished
<1>14. CASE SyncDirectory(s)
  BY <1>14 DEF SyncDirectory
<1>15. CASE Recheck(s)
  BY <1>15 DEF Recheck
<1>16. CASE SayReady(s)
  BY <1>16 DEF SayReady
<1>17. CASE ReportSuccess(s)
  BY <1>17 DEF ReportSuccess
<1>18. CASE Fail(s)
  BY <1>18 DEF Fail
<1>19. CASE SendFails(s)
  BY <1>19 DEF SendFails
<1>20. CASE Unpublish(s)
  BY <1>20 DEF Unpublish
<1>21. CASE Unstage(s)
  BY <1>21 DEF Unstage
<1>22. CASE Complain(s)
  BY <1>22 DEF Complain
<1>23. CASE WorkerExits(s)
  BY <1>23 DEF WorkerExits
<1>24. CASE WorkerKilled(s)
  BY <1>24 DEF WorkerKilled
<1>25. QED
  BY <1>1, <1>2, <1>3, <1>4, <1>5, <1>6, <1>7, <1>8, <1>9, <1>10, <1>11, <1>12, <1>13, <1>14,
     <1>15, <1>16, <1>17, <1>18, <1>19, <1>20, <1>21, <1>22, <1>23, <1>24 DEF WorkerStep

LEMMA AliveBefore ==
  ASSUME NEW s \in Session, WorkerStep(s)
  PROVE  ~WorkerGone(s)
  BY DEF WorkerStep, Accept, LookMiss, LookFound, OpenCache, HashCache, CheckCapacity, Stage,
     AnnounceStaging, Stream, Link, AnnounceLink, UnlinkStaging, ConfirmPublished,
     SyncDirectory, Recheck, SayReady, ReportSuccess, Fail, SendFails, Unpublish, Unstage,
     Complain, WorkerExits, WorkerKilled, At, Failing, WorkerGone

(* Every step of the child keeps what was acknowledged.                    *)
LEMMA AckKept ==
  ASSUME TypeInv, NEW s \in Session, WorkerStep(s), Acknowledged(s)
  PROVE  Acknowledged(s)'
<1>1. CASE UNCHANGED sent
  BY <1>1 DEF Acknowledged
<1>2. CASE \E token : Says(s, token)
  BY <1>2, AckStays
<1>3. QED
  BY <1>1, <1>2 DEF WorkerStep, Accept, LookMiss, LookFound, OpenCache, HashCache,
     CheckCapacity, Stage, AnnounceStaging, Stream, Link, AnnounceLink, UnlinkStaging,
     ConfirmPublished, SyncDirectory, Recheck, SayReady, ReportSuccess, Fail, SendFails,
     Unpublish, Unstage, Complain, WorkerExits, WorkerKilled, workerVars

LEMMA WorkerAttemptInv ==
  ASSUME IInv, NEW s \in Session, WorkerStep(s)
  PROVE  AttemptInv'
<1>1. Frame(s) /\ UNCHANGED <<parent, result, recovery>>
  BY WorkerFrame DEF IInv
<1>2. ~WorkerGone(s)
  BY AliveBefore
<1>3. FilesInv(s) /\ AnswerInv(s)
  BY DEF IInv, AttemptInv
<1>4. AnswerInv(s)'
  BY <1>1, <1>2, <1>3 DEF AnswerInv, WorkerGone
<1>5. FilesInv(s)'
  <2> DEFINE a == Acknowledged(s)
  <2>1. a => a'
    BY AckKept DEF IInv
  <2>2. recovery'[s] # "cleared"
    BY <1>1, <1>2, <1>3 DEF AnswerInv, WorkerGone
  <2>3. AnnounceStaging(s) => a'
    BY AckSaid DEF IInv, AnnounceStaging
  <2> USE FilesDiffer, <1>2, <1>3, <2>1, <2>2
      DEF FilesInv, StagedAt, PublishedAt, AnnouncedAt, Goes, At, directoryVars, WorkerGone
  <2>4. /\ worker \in [Session -> Pc] /\ bytes \in [File -> {"none", "pinned", "other"}]
        /\ exit \in [Session -> {"none", "0", "1", "killed"}] /\ s \in File
    BY DEF IInv, TypeInv, TypeOK, Pc, File
  <2> HIDE DEF a
  <2> USE <2>4
  <2>5. CASE Accept(s)
    BY <2>5 DEF Accept, a
  <2>6. CASE LookMiss(s)
    BY <2>6 DEF LookMiss, a
  <2>7. CASE LookFound(s)
    BY <2>7 DEF LookFound, a
  <2>8. CASE OpenCache(s)
    BY <2>8 DEF OpenCache, a
  <2>9. CASE HashCache(s)
    BY <2>9 DEF HashCache, a
  <2>10. CASE CheckCapacity(s)
    BY <2>10 DEF CheckCapacity, a
  <2>11. CASE Stage(s)
    BY <2>11 DEF Stage, a
  <2>12. CASE AnnounceStaging(s)
    BY <2>12, <2>3 DEF AnnounceStaging, a
  <2>13. CASE Stream(s)
    BY <2>13 DEF Stream, a
  <2>14. CASE Link(s)
    BY <2>14 DEF Link, a
  <2>15. CASE AnnounceLink(s)
    BY <2>15 DEF AnnounceLink, a
  <2>16. CASE UnlinkStaging(s)
    BY <2>16 DEF UnlinkStaging, a
  <2>17. CASE ConfirmPublished(s)
    BY <2>17 DEF ConfirmPublished, a
  <2>18. CASE SyncDirectory(s)
    BY <2>18 DEF SyncDirectory, a
  <2>19. CASE Recheck(s)
    BY <2>19 DEF Recheck, a
  <2>20. CASE SayReady(s)
    BY <2>20 DEF SayReady, a
  <2>21. CASE ReportSuccess(s)
    BY <2>21 DEF ReportSuccess, a
  <2>22. CASE Fail(s)
    BY <2>22 DEF Fail, AfterFailure, Failing, a
  <2>23. CASE SendFails(s)
    BY <2>23 DEF SendFails, a
  <2>24. CASE Unpublish(s)
    BY <2>24 DEF Unpublish, a
  <2>25. CASE Unstage(s)
    BY <2>25 DEF Unstage, a
  <2>26. CASE Complain(s)
    BY <2>26 DEF Complain, a
  <2>27. CASE WorkerExits(s)
    BY <2>27 DEF WorkerExits, a
  <2>28. CASE WorkerKilled(s)
    BY <2>28 DEF WorkerKilled, a
  <2>29. QED
    BY <2>5, <2>6, <2>7, <2>8, <2>9, <2>10, <2>11, <2>12, <2>13, <2>14, <2>15, <2>16, <2>17,
       <2>18, <2>19, <2>20, <2>21, <2>22, <2>23, <2>24, <2>25, <2>26, <2>27, <2>28
       DEF WorkerStep
<1>6. QED
  BY <1>1, <1>4, <1>5, FrameKeeps DEF IInv

(* An attempt is recovered only when its child did not report on itself.   *)
LEMMA OwnReport ==
  ASSUME NEW s \in Session, Verdict(s) \in {"granted", ChildError}
  PROVE  exit[s] # "killed" /\ (Verdict(s) = "granted" => exit[s] # "1")
  BY DEF Verdict, ExitVerdict, CleanupFailed, Aborted, TimedOut, ProtocolInvalid, WorkerFailed,
     ChildError

LEMMA NextAttemptInv == IInv /\ [Next]_vars => AttemptInv'
<1> SUFFICES ASSUME IInv, [Next]_vars PROVE AttemptInv'
  OBVIOUS
<1>1. CASE UNCHANGED vars
  BY <1>1 DEF IInv, AttemptInv, FilesInv, AnswerInv, WorkerGone, Acknowledged, vars,
     directoryVars, parentVars, workerVars
<1>2. ASSUME NEW s \in Session, SessionStep(s) PROVE AttemptInv'
  <2>1. FilesInv(s) /\ AnswerInv(s)
    BY DEF IInv, AttemptInv
  <2>2. /\ worker \in [Session -> Pc] /\ partial \subseteq Session
        /\ DOMAIN parent = Session /\ DOMAIN result = Session /\ DOMAIN recovery = Session
    BY DEF IInv, TypeInv, TypeOK, Pc
  <2>3. parent[s] = "idle" => worker[s] = "none"
    BY DEF IInv, TypeInv, IdleInv
  <2> USE <2>1, <2>2, <2>3 DEF FilesInv, AnswerInv, StagedAt, PublishedAt, AnnouncedAt,
          directoryVars, workerVars, Enters, Answer, In, WorkerGone
  <2>4. CASE Begin(s)
    <3>1. Acknowledged(s)' <=> Acknowledged(s)
      BY <2>4 DEF Begin, Acknowledged
    <3>2. Frame(s)
      BY <2>4 DEF Begin, Frame, Goes
    <3>3. (FilesInv(s) /\ AnswerInv(s))'
      BY <2>4, <3>1 DEF Begin, Goes
    <3>4. QED
      BY <3>2, <3>3, FrameKeeps DEF IInv
  <2>5. CASE CallerAborts(s) \/ RecoveryDies(s)
    <3>1. Acknowledged(s)' <=> Acknowledged(s)
      BY <2>5 DEF CallerAborts, RecoveryDies, Acknowledged, parentVars
    <3>2. Frame(s)
      BY <2>5 DEF CallerAborts, RecoveryDies, Frame, parentVars
    <3>3. (FilesInv(s) /\ AnswerInv(s))'
      BY <2>5, <3>1 DEF CallerAborts, RecoveryDies, parentVars
    <3>4. QED
      BY <3>2, <3>3, FrameKeeps DEF IInv
  <2>6. CASE \E o \in {"exit", "abort", "protocol", "timeout"} : Observe(s, o)
    <3>1. Acknowledged(s)' <=> Acknowledged(s)
      BY <2>6 DEF Observe, Acknowledged
    <3>2. Frame(s)
      BY <2>6 DEF Observe, Frame
    <3>3. (FilesInv(s) /\ AnswerInv(s))'
      BY <2>6, <3>1 DEF Observe
    <3>4. QED
      BY <3>2, <3>3, FrameKeeps DEF IInv
  <2>7. CASE Reaped(s)
    <3> DEFINE v == Verdict(s)
    <3>1. Acknowledged(s)' <=> Acknowledged(s)
      BY <2>7 DEF Reaped, Acknowledged
    <3>2. Frame(s)
      BY <2>7 DEF Reaped, Frame
    <3>3. v \in {"granted", ChildError} /\ s \in partial => v = ChildError /\ s \in stuck
      BY <2>7, OwnReport DEF Reaped
    <3>4. Acknowledged(s) /\ ~NeedsRecovery(s) /\ s \in partial =>
            v = ChildError /\ s \in stuck
      BY <3>3 DEF NeedsRecovery
    <3> HIDE DEF v
    <3>5. (FilesInv(s) /\ AnswerInv(s))'
      <4>1. CASE NeedsRecovery(s)
        BY <2>7, <3>1, <4>1 DEF Reaped
      <4>2. CASE ~NeedsRecovery(s)
        <5>1. Answer(s, v) /\ UNCHANGED recovery
          BY <2>7, <4>2 DEF Reaped, v
        <5>2. QED
          BY <2>7, <3>1, <3>4, <4>2, <5>1 DEF Reaped
      <4>3. QED
        BY <4>1, <4>2
    <3>6. QED
      BY <3>2, <3>5, FrameKeeps DEF IInv
  <2>8. CASE ReapFails(s)
    <3>1. Acknowledged(s)' <=> Acknowledged(s)
      BY <2>8 DEF ReapFails, Acknowledged
    <3>2. Frame(s)
      BY <2>8 DEF ReapFails, Frame
    <3>3. (FilesInv(s) /\ AnswerInv(s))'
      BY <2>8, <3>1 DEF ReapFails
    <3>4. QED
      BY <3>2, <3>3, FrameKeeps DEF IInv
  <2>9. CASE RecoveryEnds(s)
    <3>1. Acknowledged(s)' <=> Acknowledged(s)
      BY <2>9 DEF RecoveryEnds, Acknowledged
    <3>2. Frame(s)
      BY <2>9 DEF RecoveryEnds, Frame
    <3>3. (FilesInv(s) /\ AnswerInv(s))'
      BY <2>9, <3>1 DEF RecoveryEnds
    <3>4. QED
      BY <3>2, <3>3, FrameKeeps DEF IInv
  <2>10. CASE ParentLost(s)
    <3>1. Acknowledged(s)' <=> Acknowledged(s)
      BY <2>10 DEF ParentLost, Acknowledged
    <3>2. Frame(s)
      BY <2>10 DEF ParentLost, Frame
    <3>3. (FilesInv(s) /\ AnswerInv(s))'
      BY <2>10, <3>1 DEF ParentLost
    <3>4. QED
      BY <3>2, <3>3, FrameKeeps DEF IInv
  <2>11. CASE WorkerStep(s)
    BY <2>11, WorkerAttemptInv
  <2>12. CASE Recover(s)
    <3>1. Acknowledged(s)' <=> Acknowledged(s)
      BY <2>12 DEF Recover, Acknowledged
    <3>2. Frame(s)
      BY <2>12 DEF Recover, Frame, parentVars
    <3>3. (FilesInv(s) /\ AnswerInv(s))'
      BY <2>12, <3>1 DEF Recover, parentVars
    <3>4. QED
      BY <3>2, <3>3, FrameKeeps DEF IInv
  <2>13. QED
    BY <1>2, <2>4, <2>5, <2>6, <2>7, <2>8, <2>9, <2>10, <2>11, <2>12
       DEF SessionStep, SupervisorStep
<1>3. QED
  BY <1>1, <1>2 DEF Next

LEMMA Inductive == Spec => []IInv
<1>1. Init => IInv
  BY InitTypeInv, InitAttemptInv DEF IInv
<1>2. IInv /\ [Next]_vars => IInv'
  BY NextTypeInv, NextAttemptInv DEF IInv
<1>3. QED
  BY <1>1, <1>2, PTL DEF Spec

(* Nothing but the pinned bytes is ever published, with any number of      *)
(* attempts that overlap, crash and recover in any way.                    *)
THEOREM PublishedIsPinned == Spec => []BlobIsVerified
<1>1. IInv => BlobIsVerified
  BY DEF IInv, AttemptInv, FilesInv, BlobIsVerified
<1>2. QED
  BY Inductive, <1>1, PTL

(* An answer other than cleanup-failed leaves a partial, or a blob with    *)
(* two links, only if it is the error that the child reported itself and a *)
(* name could not be removed.                                              *)
THEOREM AnswersLeaveNothing == Spec => []SettledClean
<1>1. IInv => SettledClean
  <2> SUFFICES ASSUME IInv, NEW s \in Session, In(s, "done"), result[s] # CleanupFailed
               PROVE  /\ WorkerGone(s) /\ recovery[s] # "active"
                      /\ (Acknowledged(s) /\ s \in partial) \/ Links(s) = 2 =>
                           result[s] = ChildError /\ s \in stuck
    BY DEF SettledClean
  <2>1. FilesInv(s) /\ AnswerInv(s)
    BY DEF IInv, AttemptInv
  <2>2. Links(s) = 2 => Acknowledged(s) /\ s \in partial
    BY <2>1 DEF FilesInv, Links
  <2>3. QED
    BY <2>1, <2>2 DEF AnswerInv, In
<1>2. QED
  BY Inductive, <1>1, PTL

(* A file leaves the pinned name only by its own attempt, before that      *)
(* attempt is granted, and nothing is ever overwritten.                    *)
THEOREM PublishedIsNotClobbered == Spec => NoClobber
<1> DEFINE Keeps == blob' # blob =>
                      \/ blob = NoFile
                      \/ blob' = NoFile /\ blob \in Session /\ result[blob] # "granted"
                         /\ ~WorkerGone(blob)
<1>1. IInv /\ [Next]_vars => [Keeps]_vars
  <2> SUFFICES ASSUME IInv, NEW s \in Session, SessionStep(s), blob' # blob, blob # NoFile
               PROVE  blob' = NoFile /\ blob = s /\ result[s] # "granted" /\ ~WorkerGone(s)
    BY DEF Next
  <2>1. FilesInv(s) /\ AnswerInv(s)
    BY DEF IInv, AttemptInv
  <2>2. Unpublish(s)
    BY DEF SessionStep, SupervisorStep, WorkerStep, directoryVars, Accept, LookMiss, LookFound,
       OpenCache, HashCache, CheckCapacity, Stage, AnnounceStaging, Stream, Link, AnnounceLink,
       UnlinkStaging, ConfirmPublished, SyncDirectory, Recheck, SayReady, ReportSuccess, Fail,
       SendFails, Unstage, Complain, WorkerExits, WorkerKilled, Begin, CallerAborts, Observe,
       Reaped, ReapFails, RecoveryEnds, ParentLost, Recover, RecoveryDies
  <2>3. QED
    BY <2>1, <2>2 DEF Unpublish, At, AnswerInv, WorkerGone, CleanupFailed
<1>2. QED
  BY Inductive, <1>1, PTL DEF Spec, NoClobber


(***************************************************************************)
(* What a child has said, at each place of its program.                    *)
(***************************************************************************)
Spoken(m, states, k) == Len(m) = k /\ \A i \in 1 .. k : m[i] = states[i]
Ended(m, states, k, token) ==
  Len(m) = k + 1 /\ m[k + 1] = token /\ \A i \in 1 .. k : m[i] = states[i]

\* Some states of either route, the last of them not "ready".
Underway(m) ==
  \/ \E k \in 1 .. 3 : Spoken(m, HitStates, k)
  \/ \E k \in 1 .. 7 : Spoken(m, MissStates, k)
Whole(m) == Spoken(m, HitStates, 4) \/ Spoken(m, MissStates, 8)
Reported(m) ==
  \/ Ended(m, HitStates, 4, "success-hit")
  \/ Ended(m, MissStates, 8, "success-miss")
Complained(m) ==
  \/ \E k \in 1 .. 3 : Ended(m, HitStates, k, "error")
  \/ \E k \in 1 .. 7 : Ended(m, MissStates, k, "error")
Unended(m) == Len(m) = 0 \/ Underway(m) \/ Whole(m)
Proper(m) == Unended(m) \/ Reported(m) \/ Complained(m)

TalkAt(pc, m, file) ==
  /\ pc \in {"none", "boot"} => Len(m) = 0
  /\ pc \in {"look", "open", "hash"} => Spoken(m, MissStates, 1)
  /\ pc = "reserve" => Spoken(m, HitStates, 2)
  /\ pc = "hit" => Spoken(m, HitStates, 3)
  /\ pc \in {"hash", "reserve", "hit"} => file # NoFile
  /\ pc = "capacity" => Spoken(m, MissStates, 2)
  /\ pc \in {"stage", "staged"} => Spoken(m, MissStates, 3)
  /\ pc \in {"stream", "link", "linked"} => Spoken(m, MissStates, 4)
  /\ pc \in {"unlink", "unlinked"} => Spoken(m, MissStates, 5)
  /\ pc = "sync" => Spoken(m, MissStates, 6)
  /\ pc = "recheck" => Spoken(m, MissStates, 7)
  /\ pc \in {"none", "boot", "look", "open", "capacity", "stage", "staged", "stream", "link",
             "linked", "unlink", "unlinked", "sync", "recheck"} => file = NoFile
  /\ pc = "ready" => IF file = NoFile THEN Spoken(m, MissStates, 7) ELSE Spoken(m, HitStates, 3)
  /\ pc = "report" => IF file = NoFile THEN Spoken(m, MissStates, 8) ELSE Spoken(m, HitStates, 4)
  /\ pc \in {"unpublish", "unstage", "complain"} => Underway(m)
  /\ pc = "finished" => Reported(m)
  /\ pc = "failed" => Complained(m) \/ Underway(m) \/ Whole(m)

TalkInv(s) ==
  /\ TalkAt(worker[s], sent[s], seen[s])
  /\ Proper(sent[s])
  /\ worker[s] = "dead" => exit[s] # "none"
  /\ exit[s] = "0" => Reported(sent[s])
  /\ exit[s] = "1" => ~Reported(sent[s])
  /\ exit[s] # "none" => worker[s] = "dead"

LEMMA Routes ==
  /\ Len(HitStates) = 4 /\ Len(MissStates) = 8
  /\ HitStates[1] = "accepted" /\ HitStates[2] = "cache-hit" /\ HitStates[3] = "capacity-ok"
  /\ HitStates[4] = "ready"
  /\ MissStates[1] = "accepted" /\ MissStates[2] = "cache-miss" /\ MissStates[3] = "capacity-ok"
  /\ MissStates[4] = "staging-open" /\ MissStates[5] = "hard-linked"
  /\ MissStates[6] = "staging-unlinked" /\ MissStates[7] = "directory-synced"
  /\ MissStates[8] = "ready"
  /\ HitStates \in Seq(Tokens) /\ MissStates \in Seq(Tokens)
  BY DEF HitStates, MissStates, Tokens

Message == Tokens \cup Terminals

LEMMA SpokenOn ==
  ASSUME NEW m \in Seq(Message), NEW states, NEW k \in Nat, Spoken(m, states, k),
         NEW token \in Message, states[k + 1] = token
  PROVE  Spoken(Append(m, token), states, k + 1)
  BY DEF Spoken

LEMMA SpokenEnds ==
  ASSUME NEW m \in Seq(Message), NEW states, NEW k \in Nat, Spoken(m, states, k),
         NEW token \in Message
  PROVE  Ended(Append(m, token), states, k, token)
  BY DEF Spoken, Ended

\* The two routes part after the first state.
LEMMA FirstOfBoth ==
  ASSUME NEW m, Spoken(m, MissStates, 1)
  PROVE  Spoken(m, HitStates, 1)
  BY Routes DEF Spoken

(* What a child may have said its parent accepts.                          *)
LEMMA RoutePrefix ==
  ASSUME NEW m \in Seq(Message), NEW k \in Nat,
         (Spoken(m, HitStates, k) /\ k <= 4) \/ (Spoken(m, MissStates, k) /\ k <= 8)
  PROVE  LegalPrefix(m)
<1>1. CASE Spoken(m, HitStates, k) /\ k <= 4
  <2>1. IsPrefix(m, HitStates)
    BY <1>1, Routes DEF Spoken, IsPrefix
  <2> QED  BY <2>1 DEF LegalPrefix
<1>2. CASE Spoken(m, MissStates, k) /\ k <= 8
  <2>1. IsPrefix(m, MissStates)
    BY <1>2, Routes DEF Spoken, IsPrefix
  <2> QED  BY <2>1 DEF LegalPrefix
<1> QED  BY <1>1, <1>2

LEMMA NotTerminal ==
  /\ \A k \in 1 .. 4 : HitStates[k] \notin Terminals
  /\ \A k \in 1 .. 8 : MissStates[k] \notin Terminals
  /\ \A k \in 1 .. 3 : HitStates[k] # "ready"
  /\ \A k \in 1 .. 7 : MissStates[k] # "ready"
  BY Routes DEF Terminals

LEMMA UnendedIsLegal ==
  ASSUME NEW m \in Seq(Message), Unended(m)
  PROVE  LegalSequence(m) /\ ~HasTerminal(m)
<1>1. PICK k \in 0 .. 8 : (Spoken(m, HitStates, k) /\ k <= 4) \/ Spoken(m, MissStates, k)
  BY DEF Unended, Underway, Whole, Spoken
<1>2. LegalPrefix(m)
  BY <1>1, RoutePrefix
<1>3. ~HasTerminal(m) /\ Len(m) <= MaxMessages
  BY <1>1, NotTerminal DEF Spoken, HasTerminal, MaxMessages
<1> QED  BY <1>2, <1>3 DEF LegalSequence, States

LEMMA StatesOfEnded ==
  ASSUME NEW m \in Seq(Message), NEW states, NEW k \in Nat, NEW token \in Terminals,
         Ended(m, states, k, token)
  PROVE  /\ HasTerminal(m) /\ m[Len(m)] = token /\ Len(m) = k + 1
         /\ States(m) \in Seq(Message) /\ Spoken(States(m), states, k)
<1>1. Len(m) = k + 1 /\ m[Len(m)] = token /\ m # <<>>
  BY DEF Ended
<1>2. HasTerminal(m)
  BY <1>1 DEF HasTerminal
<1>3. States(m) = SubSeq(m, 1, k)
  BY <1>1, <1>2 DEF States
<1>4. SubSeq(m, 1, k) \in Seq(Message) /\ Spoken(SubSeq(m, 1, k), states, k)
  BY <1>1 DEF Ended, Spoken
<1> QED  BY <1>1, <1>2, <1>3, <1>4

LEMMA WholeIs ==
  ASSUME NEW m \in Seq(Message), NEW states \in Seq(Tokens), Spoken(m, states, Len(states))
  PROVE  m = states
  BY DEF Spoken

LEMMA ReportedIsLegal ==
  ASSUME NEW m \in Seq(Message), Reported(m)
  PROVE  LegalSequence(m) /\ HasTerminal(m) /\ m[Len(m)] # "error"
<1>1. CASE Ended(m, HitStates, 4, "success-hit")
  <2>1. /\ HasTerminal(m) /\ m[Len(m)] = "success-hit" /\ Len(m) = 5
        /\ States(m) \in Seq(Message) /\ Spoken(States(m), HitStates, 4)
    <3>1. "success-hit" \in Terminals /\ 4 \in Nat /\ 4 + 1 = 5
      BY DEF Terminals
    <3> QED  BY <1>1, <3>1, StatesOfEnded
  <2>2. States(m) = HitStates
    BY <2>1, Routes, WholeIs
  <2>3. LegalPrefix(States(m))
    <3>1. 4 \in Nat /\ 4 <= 4
      OBVIOUS
    <3> QED  BY <2>1, <3>1, RoutePrefix
  <2> QED  BY <2>1, <2>2, <2>3 DEF LegalSequence, ExactSuccess, MaxMessages
<1>2. CASE Ended(m, MissStates, 8, "success-miss")
  <2>1. /\ HasTerminal(m) /\ m[Len(m)] = "success-miss" /\ Len(m) = 9
        /\ States(m) \in Seq(Message) /\ Spoken(States(m), MissStates, 8)
    <3>1. "success-miss" \in Terminals /\ 8 \in Nat /\ 8 + 1 = 9
      BY DEF Terminals
    <3> QED  BY <1>2, <3>1, StatesOfEnded
  <2>2. States(m) = MissStates
    BY <2>1, Routes, WholeIs
  <2>3. LegalPrefix(States(m))
    <3>1. 8 \in Nat /\ 8 <= 8
      OBVIOUS
    <3> QED  BY <2>1, <3>1, RoutePrefix
  <2> QED  BY <2>1, <2>2, <2>3 DEF LegalSequence, ExactSuccess, MaxMessages
<1> QED  BY <1>1, <1>2 DEF Reported

LEMMA ComplainedIsLegal ==
  ASSUME NEW m \in Seq(Message), Complained(m)
  PROVE  LegalSequence(m) /\ HasTerminal(m) /\ m[Len(m)] = "error"
<1>1. PICK k \in 1 .. 7 :
        (Ended(m, HitStates, k, "error") /\ k <= 3) \/ Ended(m, MissStates, k, "error")
  BY DEF Complained
<1>2. /\ HasTerminal(m) /\ m[Len(m)] = "error" /\ Len(m) = k + 1 /\ States(m) \in Seq(Message)
      /\ (Spoken(States(m), HitStates, k) /\ k <= 3) \/ Spoken(States(m), MissStates, k)
  BY <1>1, StatesOfEnded DEF Terminals
<1>3. LegalPrefix(States(m))
  BY <1>2, RoutePrefix
<1>4. States(m) # <<>> /\ States(m)[Len(States(m))] # "ready"
  BY <1>2, NotTerminal DEF Spoken
<1> QED  BY <1>2, <1>3, <1>4 DEF LegalSequence, LegalErrorPrefix, MaxMessages


LEMMA ProperIsLegal ==
  ASSUME NEW m \in Seq(Message), Proper(m)
  PROVE  LegalSequence(m)
  BY UnendedIsLegal, ReportedIsLegal, ComplainedIsLegal DEF Proper

(* What the parent concludes of it.                                        *)
OutcomeInv(s) ==
  /\ outcome[s] = "protocol" => worker[s] = "dead" /\ sent[s] = <<>>
  /\ pending[s] \notin {ProtocolInvalid, "granted"}
  /\ result[s] = ProtocolInvalid => worker[s] = "dead" /\ sent[s] = <<>>
  /\ result[s] = "granted" => worker[s] = "dead" /\ exit[s] = "0"

HonestInv == \A s \in Session : TalkInv(s) /\ OutcomeInv(s)

(***************************************************************************)
(* The store as its clients see it, while attempts do not overlap.         *)
(***************************************************************************)
Pinned == blob # NoFile /\ bytes[blob] = "pinned"

\* A child that found or has published the pinned file, or ended so.
Secured(s) ==
  \/ worker[s] \in {"reserve", "hit", "ready", "report", "finished"}
  \/ worker[s] = "dead" /\ exit[s] = "0"

OneAtATime == \A s, t \in Session : ~Settled(s) /\ ~Settled(t) => s = t
StoreInv(s) ==
  /\ worker[s] \in {"sync", "recheck"} => blob = s
  /\ Secured(s) =>
       Pinned /\ \A t \in Session : t # s /\ ~WorkerGone(t) => blob # t

SerialInv == OneAtATime /\ \A s \in Session : StoreInv(s)


---------------------------------------------------------------------------
(* The child speaks by its routes.                                         *)

LEMMA Grows ==
  ASSUME NEW m \in Seq(Message), NEW token \in Message
  PROVE  LET n == Append(m, token) IN
         /\ Len(m) = 0 /\ token = "accepted" => Spoken(n, MissStates, 1)
         /\ Spoken(m, MissStates, 1) /\ token = "cache-miss" => Spoken(n, MissStates, 2)
         /\ Spoken(m, MissStates, 1) /\ token = "cache-hit" => Spoken(n, HitStates, 2)
         /\ Spoken(m, HitStates, 2) /\ token = "capacity-ok" => Spoken(n, HitStates, 3)
         /\ Spoken(m, HitStates, 3) /\ token = "ready" => Spoken(n, HitStates, 4)
         /\ Spoken(m, MissStates, 2) /\ token = "capacity-ok" => Spoken(n, MissStates, 3)
         /\ Spoken(m, MissStates, 3) /\ token = "staging-open" => Spoken(n, MissStates, 4)
         /\ Spoken(m, MissStates, 4) /\ token = "hard-linked" => Spoken(n, MissStates, 5)
         /\ Spoken(m, MissStates, 5) /\ token = "staging-unlinked" => Spoken(n, MissStates, 6)
         /\ Spoken(m, MissStates, 6) /\ token = "directory-synced" => Spoken(n, MissStates, 7)
         /\ Spoken(m, MissStates, 7) /\ token = "ready" => Spoken(n, MissStates, 8)
<1> DEFINE n == Append(m, token)
<1>1. CASE Len(m) = 0
  <2>1. Spoken(m, MissStates, 0) /\ 0 \in Nat /\ 0 + 1 = 1
    BY <1>1 DEF Spoken
  <2>2. token = "accepted" => Spoken(n, MissStates, 1)
    BY <2>1, SpokenOn, Routes
  <2> QED  BY <1>1, <2>2 DEF Spoken
<1>2. Spoken(m, MissStates, 1) => Spoken(m, HitStates, 1)
  BY FirstOfBoth
<1>3. ASSUME NEW k \in 1 .. 3, Spoken(m, HitStates, k), token = HitStates[k + 1]
      PROVE  Spoken(n, HitStates, k + 1)
  BY <1>3, SpokenOn
<1>4. ASSUME NEW k \in 1 .. 7, Spoken(m, MissStates, k), token = MissStates[k + 1]
      PROVE  Spoken(n, MissStates, k + 1)
  BY <1>4, SpokenOn
<1>5. /\ Spoken(m, HitStates, 1) /\ token = HitStates[2] => Spoken(n, HitStates, 2)
      /\ Spoken(m, HitStates, 2) /\ token = HitStates[3] => Spoken(n, HitStates, 3)
      /\ Spoken(m, HitStates, 3) /\ token = HitStates[4] => Spoken(n, HitStates, 4)
  BY <1>3
<1>6. /\ Spoken(m, MissStates, 1) /\ token = MissStates[2] => Spoken(n, MissStates, 2)
      /\ Spoken(m, MissStates, 2) /\ token = MissStates[3] => Spoken(n, MissStates, 3)
      /\ Spoken(m, MissStates, 3) /\ token = MissStates[4] => Spoken(n, MissStates, 4)
      /\ Spoken(m, MissStates, 4) /\ token = MissStates[5] => Spoken(n, MissStates, 5)
      /\ Spoken(m, MissStates, 5) /\ token = MissStates[6] => Spoken(n, MissStates, 6)
      /\ Spoken(m, MissStates, 6) /\ token = MissStates[7] => Spoken(n, MissStates, 7)
      /\ Spoken(m, MissStates, 7) /\ token = MissStates[8] => Spoken(n, MissStates, 8)
  BY <1>4
<1>7. Len(m) = 0 => ~Spoken(m, MissStates, 1)
  BY DEF Spoken
<1> HIDE DEF n
<1>8. CASE Len(m) # 0
  BY <1>2, <1>5, <1>6, <1>8, Routes DEF n
<1> QED  BY <1>1, <1>8

LEMMA Closes ==
  ASSUME NEW m \in Seq(Message)
  PROVE  /\ Underway(m) => Complained(Append(m, "error"))
         /\ Spoken(m, HitStates, 4) => Reported(Append(m, "success-hit"))
         /\ Spoken(m, MissStates, 8) => Reported(Append(m, "success-miss"))
<1>1. "error" \in Message /\ "success-hit" \in Message /\ "success-miss" \in Message
  BY DEF Message, Terminals
<1> QED  BY <1>1, SpokenEnds DEF Underway, Complained, Reported

LEMMA UnderwayWhen ==
  ASSUME NEW m, NEW k \in 1 .. 7, (Spoken(m, HitStates, k) /\ k <= 3) \/ Spoken(m, MissStates, k)
  PROVE  Underway(m)
<1>1. k <= 3 => k \in 1 .. 3
  OBVIOUS
<1> QED  BY <1>1 DEF Underway

LEMMA UnderwayNow ==
  ASSUME NEW m
  PROVE  /\ Spoken(m, MissStates, 1) => Underway(m)
         /\ Spoken(m, HitStates, 2) => Underway(m)
         /\ Spoken(m, HitStates, 3) => Underway(m)
         /\ Spoken(m, MissStates, 2) => Underway(m)
         /\ Spoken(m, MissStates, 3) => Underway(m)
         /\ Spoken(m, MissStates, 4) => Underway(m)
         /\ Spoken(m, MissStates, 5) => Underway(m)
         /\ Spoken(m, MissStates, 6) => Underway(m)
         /\ Spoken(m, MissStates, 7) => Underway(m)
<1>1. /\ 1 \in 1 .. 7 /\ 2 \in 1 .. 7 /\ 3 \in 1 .. 7 /\ 4 \in 1 .. 7 /\ 5 \in 1 .. 7
      /\ 6 \in 1 .. 7 /\ 7 \in 1 .. 7 /\ 2 <= 3 /\ 3 <= 3
  OBVIOUS
<1> QED  BY <1>1, UnderwayWhen

LEMMA TalkIsProper ==
  ASSUME NEW pc \in Pc, NEW m, NEW file, TalkAt(pc, m, file), pc # "dead"
  PROVE  Proper(m)
  BY UnderwayNow DEF TalkAt, Proper, Unended, Whole, Pc, Failing

LEMMA FailingIsUnderway ==
  ASSUME NEW pc \in Failing, NEW m, NEW file, TalkAt(pc, m, file)
  PROVE  Underway(m)
  BY UnderwayNow DEF TalkAt, Failing

LEMMA ReportedAlone ==
  ASSUME NEW m \in Seq(Message), Complained(m) \/ Unended(m)
  PROVE  ~Reported(m)
  BY UnendedIsLegal, ComplainedIsLegal, ReportedIsLegal

\* The steps of a child before its end.
LEMMA WorkerTalks ==
  ASSUME TypeInv, NEW s \in Session, TalkInv(s), WorkerStep(s),
         ~WorkerExits(s), ~WorkerKilled(s)
  PROVE  /\ TalkAt(worker'[s], sent'[s], seen'[s])
         /\ worker'[s] # "dead" /\ exit' = exit
<1> DEFINE m == sent[s]  file == seen[s]
<1>1. /\ worker \in [Session -> Pc] /\ sent \in [Session -> Seq(Message)]
      /\ DOMAIN seen = Session
  BY DEF TypeInv, TypeOK, Pc, Message
<1>2. m \in Seq(Message)
  BY <1>1
<1>3. TalkAt(worker[s], m, file)
  BY DEF TalkInv
<1>4. \A token : Says(s, token) => sent'[s] = Append(m, token)
  BY <1>1 DEF Says
<1>5. \A pc : Goes(s, pc) => worker'[s] = pc
  BY <1>1 DEF Goes
<1>6. /\ "accepted" \in Message /\ "cache-hit" \in Message /\ "cache-miss" \in Message
      /\ "capacity-ok" \in Message /\ "staging-open" \in Message /\ "hard-linked" \in Message
      /\ "staging-unlinked" \in Message /\ "directory-synced" \in Message /\ "ready" \in Message
      /\ "success-hit" \in Message /\ "success-miss" \in Message /\ "error" \in Message
  BY MessageTable DEF Message
<1>7. \A token \in Message :
        LET n == Append(m, token) IN
        /\ Len(m) = 0 /\ token = "accepted" => Spoken(n, MissStates, 1)
        /\ Spoken(m, MissStates, 1) /\ token = "cache-miss" => Spoken(n, MissStates, 2)
        /\ Spoken(m, MissStates, 1) /\ token = "cache-hit" => Spoken(n, HitStates, 2)
        /\ Spoken(m, HitStates, 2) /\ token = "capacity-ok" => Spoken(n, HitStates, 3)
        /\ Spoken(m, HitStates, 3) /\ token = "ready" => Spoken(n, HitStates, 4)
        /\ Spoken(m, MissStates, 2) /\ token = "capacity-ok" => Spoken(n, MissStates, 3)
        /\ Spoken(m, MissStates, 3) /\ token = "staging-open" => Spoken(n, MissStates, 4)
        /\ Spoken(m, MissStates, 4) /\ token = "hard-linked" => Spoken(n, MissStates, 5)
        /\ Spoken(m, MissStates, 5) /\ token = "staging-unlinked" => Spoken(n, MissStates, 6)
        /\ Spoken(m, MissStates, 6) /\ token = "directory-synced" => Spoken(n, MissStates, 7)
        /\ Spoken(m, MissStates, 7) /\ token = "ready" => Spoken(n, MissStates, 8)
  BY <1>2, Grows
<1> HIDE DEF m, file
<1> USE <1>3, <1>4, <1>5, <1>6, <1>7 DEF At, TalkAt
<1>8. seen' = seen => seen'[s] = file
  BY DEF file
<1>9. sent' = sent => sent'[s] = m
  BY DEF m
<1> USE <1>8, <1>9
<1>10. CASE Accept(s)
  BY <1>10 DEF Accept
<1>11. CASE LookMiss(s)
  BY <1>11 DEF LookMiss
<1>12. CASE LookFound(s)
  BY <1>12 DEF LookFound
<1>13. CASE OpenCache(s)
  <2>1. CASE Goes(s, "hash") /\ seen' = [seen EXCEPT ![s] = blob] /\ blob # NoFile
    <3>1. seen'[s] # NoFile
      BY <1>1, <2>1
    <3> QED  BY <1>13, <2>1, <3>1 DEF OpenCache
  <2>2. CASE Goes(s, "complain") /\ UNCHANGED seen
    BY <1>13, <2>2, UnderwayNow DEF OpenCache
  <2> QED  BY <1>13, <2>1, <2>2 DEF OpenCache
<1>14. CASE HashCache(s)
  BY <1>14, UnderwayNow DEF HashCache
<1>15. CASE CheckCapacity(s)
  BY <1>15 DEF CheckCapacity
<1>16. CASE Stage(s)
  BY <1>16 DEF Stage
<1>17. CASE AnnounceStaging(s)
  BY <1>17 DEF AnnounceStaging
<1>18. CASE Stream(s)
  BY <1>18, UnderwayNow DEF Stream
<1>19. CASE Link(s)
  BY <1>19, UnderwayNow DEF Link
<1>20. CASE AnnounceLink(s)
  BY <1>20, UnderwayNow DEF AnnounceLink
<1>21. CASE UnlinkStaging(s)
  BY <1>21 DEF UnlinkStaging
<1>22. CASE ConfirmPublished(s)
  BY <1>22, UnderwayNow DEF ConfirmPublished
<1>23. CASE SyncDirectory(s)
  BY <1>23 DEF SyncDirectory
<1>24. CASE Recheck(s)
  BY <1>24 DEF Recheck
<1>25. CASE SayReady(s)
  BY <1>25 DEF SayReady
<1>26. CASE ReportSuccess(s)
  BY <1>26, <1>2, Closes DEF ReportSuccess, file
<1>27. CASE Fail(s)
  <2>1. Underway(m)
    BY <1>27, FailingIsUnderway DEF Fail
  <2>2. worker'[s] \in {"complain", "unstage", "unpublish"}
    BY <1>27 DEF Fail, AfterFailure, Failing
  <2>3. sent'[s] = m /\ seen'[s] = file /\ exit' = exit
    BY <1>27 DEF Fail
  <2> QED  BY <2>1, <2>2, <2>3
<1>28. CASE SendFails(s)
  BY <1>28, UnderwayNow DEF SendFails, Whole
<1>29. CASE Unpublish(s)
  BY <1>29 DEF Unpublish
<1>30. CASE Unstage(s)
  BY <1>30 DEF Unstage
<1>31. CASE Complain(s)
  BY <1>31, <1>2, Closes DEF Complain
<1> QED
  BY <1>10, <1>11, <1>12, <1>13, <1>14, <1>15, <1>16, <1>17, <1>18, <1>19, <1>20, <1>21, <1>22,
     <1>23, <1>24, <1>25, <1>26, <1>27, <1>28, <1>29, <1>30, <1>31 DEF WorkerStep


LEMMA OneMoves ==
  ASSUME TypeInv, NEW s \in Session, WorkerStep(s)
  PROVE  \A t \in Session \ {s} :
           /\ worker'[t] = worker[t] /\ sent'[t] = sent[t]
           /\ seen'[t] = seen[t] /\ exit'[t] = exit[t]
<1> USE DEF TypeInv, TypeOK, Goes, Says
<1>1. \E pc : Goes(s, pc)
  BY DEF WorkerStep, Accept, LookMiss, LookFound, OpenCache, HashCache, CheckCapacity, Stage,
     AnnounceStaging, Stream, Link, AnnounceLink, UnlinkStaging, ConfirmPublished,
     SyncDirectory, Recheck, SayReady, ReportSuccess, Fail, SendFails, Unpublish, Unstage,
     Complain, WorkerExits, WorkerKilled
<1>2. UNCHANGED sent \/ \E token : Says(s, token)
  BY DEF WorkerStep, Accept, LookMiss, LookFound, OpenCache, HashCache, CheckCapacity, Stage,
     AnnounceStaging, Stream, Link, AnnounceLink, UnlinkStaging, ConfirmPublished,
     SyncDirectory, Recheck, SayReady, ReportSuccess, Fail, SendFails, Unpublish, Unstage,
     Complain, WorkerExits, WorkerKilled
<1>3. UNCHANGED seen \/ \E f : seen' = [seen EXCEPT ![s] = f]
  BY DEF WorkerStep, Accept, LookMiss, LookFound, OpenCache, HashCache, CheckCapacity, Stage,
     AnnounceStaging, Stream, Link, AnnounceLink, UnlinkStaging, ConfirmPublished,
     SyncDirectory, Recheck, SayReady, ReportSuccess, Fail, SendFails, Unpublish, Unstage,
     Complain, WorkerExits, WorkerKilled
<1>4. UNCHANGED exit \/ \E code : exit' = [exit EXCEPT ![s] = code]
  BY DEF WorkerStep, Accept, LookMiss, LookFound, OpenCache, HashCache, CheckCapacity, Stage,
     AnnounceStaging, Stream, Link, AnnounceLink, UnlinkStaging, ConfirmPublished,
     SyncDirectory, Recheck, SayReady, ReportSuccess, Fail, SendFails, Unpublish, Unstage,
     Complain, WorkerExits, WorkerKilled
<1> QED  BY <1>1, <1>2, <1>3, <1>4

LEMMA SentIsMessages == ASSUME TypeInv, NEW s \in Session PROVE sent[s] \in Seq(Message)
  BY DEF TypeInv, TypeOK, Message

LEMMA WorkerKeepsTalk ==
  ASSUME TypeInv, TypeInv', NEW s \in Session, TalkInv(s), WorkerStep(s)
  PROVE  TalkInv(s)'
<1>1. /\ worker \in [Session -> Pc] /\ worker' \in [Session -> Pc] /\ DOMAIN exit = Session
  BY DEF TypeInv, TypeOK, Pc
<1>2. ~WorkerGone(s) /\ exit[s] = "none"
  BY AliveBefore DEF TalkInv, WorkerGone
<1>3. CASE ~WorkerExits(s) /\ ~WorkerKilled(s)
  <2>1. TalkAt(worker'[s], sent'[s], seen'[s]) /\ worker'[s] # "dead" /\ exit' = exit
    BY <1>3, WorkerTalks
  <2>2. Proper(sent'[s])
    BY <1>1, <2>1, TalkIsProper
  <2> QED  BY <1>2, <2>1, <2>2 DEF TalkInv
<1>4. CASE WorkerExits(s)
  <2>1. /\ worker'[s] = "dead" /\ sent' = sent /\ seen' = seen
        /\ \/ (worker[s] = "finished" /\ exit'[s] = "0")
           \/ (worker[s] = "failed" /\ exit'[s] = "1")
    BY <1>1, <1>4 DEF WorkerExits, Goes
  <2>2. worker[s] = "finished" => Reported(sent[s])
    BY DEF TalkInv, TalkAt
  <2>3. worker[s] = "failed" => ~Reported(sent[s])
    BY SentIsMessages, ReportedAlone DEF TalkInv, TalkAt, Unended
  <2>4. TalkAt("dead", sent[s], seen[s])
    BY DEF TalkAt
  <2> QED  BY <2>1, <2>2, <2>3, <2>4 DEF TalkInv
<1>5. CASE WorkerKilled(s)
  <2>1. worker'[s] = "dead" /\ sent' = sent /\ seen' = seen /\ exit'[s] = "killed"
    BY <1>1, <1>5 DEF WorkerKilled, Goes
  <2>2. TalkAt("dead", sent[s], seen[s])
    BY DEF TalkAt
  <2> QED  BY <2>1, <2>2 DEF TalkInv
<1> QED  BY <1>3, <1>4, <1>5

\* The parent and the recovery leave what was said alone.
LEMMA ParentIsSilent ==
  ASSUME IInv, NEW s \in Session, SessionStep(s), ~WorkerStep(s)
  PROVE  /\ UNCHANGED <<sent, seen, exit>>
         /\ \/ worker' = worker
            \/ /\ worker[s] = "none" /\ worker' = [worker EXCEPT ![s] = "boot"]
               /\ UNCHANGED <<outcome, pending, result>>
<1>1. UNCHANGED <<sent, seen, exit>>
  BY DEF SessionStep, SupervisorStep, Begin, CallerAborts, Observe, Reaped, ReapFails,
     RecoveryEnds, ParentLost, Recover, RecoveryDies, workerVars
<1>2. CASE Begin(s)
  BY <1>1, <1>2 DEF Begin, Goes, IInv, TypeInv, IdleInv, In
<1>3. CASE ~Begin(s)
  BY <1>1, <1>3
     DEF SessionStep, SupervisorStep, CallerAborts, Observe, Reaped, ReapFails,
         RecoveryEnds, ParentLost, Recover, RecoveryDies, workerVars
<1> QED  BY <1>2, <1>3

LEMMA TalkKept ==
  ASSUME IInv, IInv', HonestInv, NEW s \in Session, SessionStep(s), NEW t \in Session
  PROVE  TalkInv(t)'
<1>0. TalkInv(t) /\ DOMAIN worker = Session
  BY DEF HonestInv, IInv, TypeInv, TypeOK
<1>1. CASE WorkerStep(s) /\ t = s
  BY <1>0, <1>1, WorkerKeepsTalk DEF IInv
<1>2. CASE WorkerStep(s) /\ t # s
  BY <1>0, <1>2, OneMoves DEF IInv, TalkInv
<1>3. CASE ~WorkerStep(s) /\ worker' = worker
  BY <1>0, <1>3, ParentIsSilent DEF TalkInv
<1>4. CASE ~WorkerStep(s) /\ worker' # worker
  <2>1. /\ UNCHANGED <<sent, seen, exit>> /\ worker[s] = "none"
        /\ worker' = [worker EXCEPT ![s] = "boot"]
    BY <1>4, ParentIsSilent
  <2>2. CASE t = s
    <3>1. worker'[t] = "boot" /\ worker[t] = "none"
      BY <1>0, <2>1, <2>2
    <3>2. TalkAt("none", sent[t], seen[t]) => TalkAt("boot", sent[t], seen[t])
      BY DEF TalkAt
    <3> QED  BY <1>0, <2>1, <3>1, <3>2 DEF TalkInv
  <2>3. CASE t # s
    BY <1>0, <2>1, <2>3 DEF TalkInv
  <2> QED  BY <2>2, <2>3
<1> QED  BY <1>1, <1>2, <1>3, <1>4

\* What the parent makes of a child that is gone.
LEMMA HonestVerdict ==
  ASSUME TypeInv, NEW s \in Session, TalkInv(s), OutcomeInv(s), worker[s] = "dead"
  PROVE  /\ Verdict(s) = ProtocolInvalid => sent[s] = <<>>
         /\ Verdict(s) = "granted" => exit[s] = "0"
<1> DEFINE m == sent[s]
<1>1. m \in Seq(Message) /\ exit[s] \in {"0", "1", "killed"}
  BY SentIsMessages DEF TypeInv, TypeOK, TalkInv
<1>2. LegalSequence(m)
  BY <1>1, ProperIsLegal DEF TalkInv
<1>3. /\ ExitVerdict(s) # ProtocolInvalid
      /\ ExitVerdict(s) = "granted" => exit[s] = "0"
  <2>1. /\ exit[s] = "0" => HasTerminal(m) /\ m[Len(m)] # "error"
        /\ exit[s] = "1" /\ HasTerminal(m) => m[Len(m)] = "error"
    BY <1>1, ReportedIsLegal, ComplainedIsLegal, UnendedIsLegal DEF TalkInv, Proper
  <2>2. ExitVerdict(s) \in {WorkerFailed, ChildError, "granted", ProtocolInvalid}
    BY DEF ExitVerdict
  <2> QED  BY <1>1, <2>1 DEF ExitVerdict, WorkerFailed, ChildError, ProtocolInvalid
<1>4. Cause(s) = "protocol" => outcome[s] = "protocol"
  BY <1>2 DEF Cause
<1>5. Cause(s) \in {"cleanup", "abort", "timeout", "protocol"} \/ Verdict(s) = ExitVerdict(s)
  BY DEF Verdict
<1> QED
  BY <1>3, <1>4, <1>5
     DEF Verdict, OutcomeInv, CleanupFailed, Aborted, TimedOut, ProtocolInvalid

LEMMA OutcomeStays ==
  ASSUME TypeInv, NEW t \in Session, OutcomeInv(t), UNCHANGED <<outcome[t], pending[t], result[t]>>,
         worker[t] = "dead" => UNCHANGED <<worker[t], sent[t], exit[t]>>
  PROVE  OutcomeInv(t)'
  BY DEF OutcomeInv

LEMMA SupervisorOutcome ==
  ASSUME IInv, HonestInv, NEW s \in Session, SupervisorStep(s)
  PROVE  OutcomeInv(s)'
<1>1. /\ TypeInv /\ TalkInv(s) /\ OutcomeInv(s) /\ UNCHANGED <<sent, worker, exit>>
      /\ DOMAIN outcome = Session /\ DOMAIN pending = Session /\ DOMAIN result = Session
  BY DEF IInv, HonestInv, TypeInv, TypeOK, SupervisorStep, Observe, Reaped, ReapFails, RecoveryEnds, workerVars
<1>2. CASE \E o \in {"exit", "abort", "protocol", "timeout"} : Observe(s, o)
  <2>1. LegalSequence(sent[s])
    BY <1>1, SentIsMessages, ProperIsLegal DEF TalkInv
  <2>2. PICK o \in {"exit", "abort", "protocol", "timeout"} : Observe(s, o)
    BY <1>2
  <2>3. /\ outcome'[s] = o /\ UNCHANGED <<pending, result>>
        /\ o = "protocol" => worker[s] = "dead" /\ sent[s] = <<>>
    BY <1>1, <2>1, <2>2 DEF Observe, Violation
  <2> QED  BY <1>1, <2>3 DEF OutcomeInv
<1>3. CASE Reaped(s)
  <2> DEFINE v == Verdict(s)
  <2>1. /\ worker[s] = "dead" /\ (v = ProtocolInvalid => sent[s] = <<>>)
        /\ v = "granted" => exit[s] = "0"
    BY <1>1, <1>3, HonestVerdict DEF Reaped
  <2>2. Acknowledged(s) => sent[s] # <<>>
    BY DEF Acknowledged
  <2>3. NeedsRecovery(s) => v \notin {ProtocolInvalid, "granted"}
    BY <2>1, <2>2 DEF NeedsRecovery
  <2>4. /\ outcome' = outcome
        /\ \/ NeedsRecovery(s) /\ pending' = [pending EXCEPT ![s] = v] /\ result' = result
           \/ result' = [result EXCEPT ![s] = v] /\ pending' = pending
    BY <1>3 DEF Reaped, Answer
  <2> HIDE DEF v
  <2> QED  BY <1>1, <2>1, <2>3, <2>4 DEF OutcomeInv
<1>4. CASE ReapFails(s)
  <2>1. /\ pending' = pending
        /\ \/ outcome' = [outcome EXCEPT ![s] = "cleanup"] /\ result' = result
           \/ result' = [result EXCEPT ![s] = CleanupFailed] /\ outcome' = outcome
    BY <1>4 DEF ReapFails, Answer
  <2> QED  BY <1>1, <2>1 DEF OutcomeInv, CleanupFailed, ProtocolInvalid
<1>5. CASE RecoveryEnds(s)
  <2>1. /\ UNCHANGED <<pending, outcome>>
        /\ \/ result' = [result EXCEPT ![s] = pending[s]]
           \/ result' = [result EXCEPT ![s] = CleanupFailed]
    BY <1>5 DEF RecoveryEnds, Answer
  <2> QED  BY <1>1, <2>1 DEF OutcomeInv, CleanupFailed, ProtocolInvalid
<1> QED  BY <1>2, <1>3, <1>4, <1>5 DEF SupervisorStep

LEMMA OthersOutcome ==
  ASSUME IInv, NEW s \in Session, SessionStep(s), NEW t \in Session \ {s}
  PROVE  UNCHANGED <<outcome[t], pending[t], result[t]>>
<1>1. DOMAIN outcome = Session /\ DOMAIN pending = Session /\ DOMAIN result = Session
  BY DEF IInv, TypeInv, TypeOK
<1>2. /\ outcome' = outcome \/ \E o : outcome' = [outcome EXCEPT ![s] = o]
      /\ pending' = pending \/ \E o : pending' = [pending EXCEPT ![s] = o]
      /\ result' = result \/ \E o : result' = [result EXCEPT ![s] = o]
  <2>1. CASE WorkerStep(s)
    BY <2>1, WorkerFrame
       DEF WorkerStep, Accept, LookMiss, LookFound, OpenCache, HashCache, CheckCapacity, Stage,
       AnnounceStaging, Stream, Link, AnnounceLink, UnlinkStaging, ConfirmPublished,
       SyncDirectory, Recheck, SayReady, ReportSuccess, Fail, SendFails, Unpublish, Unstage,
       Complain, WorkerExits, WorkerKilled, parentVars
  <2>2. CASE ~WorkerStep(s)
    BY <2>2
       DEF SessionStep, SupervisorStep, Begin, CallerAborts, Observe, Reaped, ReapFails,
           RecoveryEnds, ParentLost, Recover, RecoveryDies, Answer, parentVars
  <2> QED  BY <2>1, <2>2
<1> QED  BY <1>1, <1>2

LEMMA OutcomeKept ==
  ASSUME IInv, IInv', HonestInv, NEW s \in Session, SessionStep(s), NEW t \in Session
  PROVE  OutcomeInv(t)'
<1>0. OutcomeInv(t) /\ TypeInv
  BY DEF HonestInv, IInv
<1>1. worker[t] = "dead" => UNCHANGED <<worker[t], sent[t], exit[t]>>
  <2>1. CASE WorkerStep(s) /\ t = s
    BY <2>1, AliveBefore DEF WorkerGone
  <2>2. CASE WorkerStep(s) /\ t # s
    BY <1>0, <2>2, OneMoves
  <2>3. CASE ~WorkerStep(s)
    BY <2>3, ParentIsSilent DEF IInv, TypeInv, TypeOK
  <2> QED  BY <2>1, <2>2, <2>3
<1>2. CASE t # s
  <2>1. UNCHANGED <<outcome[t], pending[t], result[t]>>
    BY <1>2, OthersOutcome
  <2> QED  BY <1>0, <1>1, <2>1, OutcomeStays
<1>3. CASE t = s /\ SupervisorStep(s)
  BY <1>3, SupervisorOutcome
<1>4. CASE t = s /\ Begin(s)
  <2>1. /\ UNCHANGED <<outcome, pending>>
        /\ \/ result' = result
           \/ \E r \in {Declined, TimedOut, WorkerFailed, Aborted} : result' = [result EXCEPT ![s] = r]
    BY <1>4 DEF Begin, Answer
  <2>2. result'[s] = result[s] \/ result'[s] \notin {ProtocolInvalid, "granted"}
    BY <1>0, <2>1
       DEF TypeInv, TypeOK, Declined, TimedOut, WorkerFailed, Aborted, ProtocolInvalid
  <2> QED  BY <1>0, <1>1, <1>4, <2>1, <2>2 DEF OutcomeInv
<1>5. CASE t = s /\ ParentLost(s)
  <2>1. outcome'[s] = "none" /\ pending'[s] = "none" /\ UNCHANGED <<result, worker, sent, exit>>
    BY <1>0, <1>5 DEF ParentLost, TypeInv, TypeOK, workerVars
  <2> QED  BY <1>0, <1>5, <2>1 DEF OutcomeInv, ProtocolInvalid
<1>6. CASE t = s /\ ~SupervisorStep(s) /\ ~Begin(s) /\ ~ParentLost(s)
  <2>1. UNCHANGED <<outcome, pending, result>>
    <3>1. CASE WorkerStep(s)
      BY <3>1
         DEF WorkerStep, Accept, LookMiss, LookFound, OpenCache, HashCache, CheckCapacity, Stage,
         AnnounceStaging, Stream, Link, AnnounceLink, UnlinkStaging, ConfirmPublished,
         SyncDirectory, Recheck, SayReady, ReportSuccess, Fail, SendFails, Unpublish, Unstage,
         Complain, WorkerExits, WorkerKilled, parentVars
    <3>2. CASE ~WorkerStep(s)
      BY <1>6, <3>2 DEF SessionStep, CallerAborts, Recover, RecoveryDies, parentVars
    <3> QED  BY <3>1, <3>2
  <2> QED  BY <1>0, <1>1, <2>1, OutcomeStays
<1> QED  BY <1>2, <1>3, <1>4, <1>5, <1>6

LEMMA InitHonest == Init => HonestInv
<1> SUFFICES ASSUME Init, NEW s \in Session PROVE TalkInv(s) /\ OutcomeInv(s)
  BY DEF HonestInv
<1>1. /\ worker[s] = "none" /\ sent[s] = <<>> /\ seen[s] = NoFile /\ exit[s] = "none"
      /\ outcome[s] = "none" /\ pending[s] = "none" /\ result[s] = "none"
  BY DEF Init
<1> QED
  BY <1>1 DEF TalkInv, TalkAt, Proper, Unended, OutcomeInv, ProtocolInvalid

LEMMA NextHonest ==
  ASSUME IInv, IInv', HonestInv, [Next]_vars
  PROVE  HonestInv'
<1>1. CASE UNCHANGED vars
  BY <1>1 DEF HonestInv, TalkInv, OutcomeInv, vars, parentVars, workerVars
<1>2. CASE Next
  BY <1>2, TalkKept, OutcomeKept DEF HonestInv, Next
<1> QED  BY <1>1, <1>2

LEMMA HonestHolds == Spec => []HonestInv
<1>1. IInv /\ IInv' /\ HonestInv /\ [Next]_vars => HonestInv'
  BY NextHonest
<1> QED  BY <1>1, InitHonest, Inductive, PTL DEF Spec

(* Whatever a child has said when it ended, failed or was killed, overlap  *)
(* or not, the grammar that its parent enforces (contained-internal.ts)    *)
(* accepts it.                                                             *)
THEOREM HonestChildrenPass == Spec => []HonestChildAccepted
<1>1. HonestInv => HonestChildAccepted
  BY DEF HonestInv, OutcomeInv, HonestChildAccepted
<1> QED  BY <1>1, HonestHolds, PTL


---------------------------------------------------------------------------
(* The store, while attempts do not overlap.                               *)

\* Only Begin unsettles an attempt, and it waits until all are settled.
LEMMA StaysSettled ==
  ASSUME IInv, NEW s \in Session, SessionStep(s), ~Begin(s), NEW t \in Session, Settled(t)
  PROVE  Settled(t)'
<1>1. /\ DOMAIN parent = Session /\ DOMAIN recovery = Session
      /\ TypeInv
  BY DEF IInv, TypeInv, TypeOK
<1>2. CASE WorkerStep(s)
  <2>1. t # s
    BY <1>2, AliveBefore DEF Settled
  <2> QED  BY <1>1, <1>2, <2>1, WorkerFrame DEF Settled, WorkerGone, Frame
<1>3. CASE SupervisorStep(s)
  BY <1>1, <1>3 DEF SupervisorStep, Observe, Reaped, ReapFails, RecoveryEnds, Answer, Enters, In,
     Settled, WorkerGone, workerVars
<1>4. CASE CallerAborts(s) \/ ParentLost(s)
  BY <1>1, <1>4 DEF CallerAborts, ParentLost, Enters, Settled, WorkerGone, workerVars
<1>5. CASE Recover(s) \/ RecoveryDies(s)
  BY <1>1, <1>5 DEF Recover, RecoveryDies, Settled, WorkerGone, workerVars, parentVars
<1> QED  BY <1>2, <1>3, <1>4, <1>5 DEF SessionStep

LEMMA BeginFrame ==
  ASSUME IInv, NEW s \in Session, Begin(s)
  PROVE  /\ UNCHANGED <<blob, bytes, exit, recovery, sent, seen>> /\ worker[s] = "none"
         /\ worker' = worker \/ worker' = [worker EXCEPT ![s] = "boot"]
         /\ parent[s] = "idle"
         /\ \A t \in Session \ {s} : parent'[t] = parent[t] /\ worker'[t] = worker[t]
  BY DEF IInv, TypeInv, TypeOK, IdleInv, Begin, Enters, Answer, Goes, In, directoryVars

LEMMA OneAtATimeKept ==
  ASSUME Quiescent, IInv, OneAtATime, NEW s \in Session, SessionStep(s)
  PROVE  OneAtATime'
<1>1. CASE Begin(s)
  <2>1. \A t \in Session : Settled(t)
    BY <1>1 DEF Begin
  <2>2. \A t \in Session \ {s} : Settled(t)'
    BY <1>1, <2>1, BeginFrame DEF Settled, WorkerGone
  <2> QED  BY <2>2 DEF OneAtATime
<1>2. CASE ~Begin(s)
  <2>1. \A t \in Session : Settled(t) => Settled(t)'
    BY <1>2, StaysSettled
  <2> QED  BY <2>1 DEF OneAtATime
<1> QED  BY <1>1, <1>2

\* The child of another attempt is gone while this one's is not.
LEMMA AloneAlive ==
  ASSUME OneAtATime, NEW s \in Session, ~WorkerGone(s), NEW t \in Session, t # s
  PROVE  WorkerGone(t)
  BY DEF OneAtATime, Settled

\* What a step of a child does to the published file.
LEMMA StoreStep ==
  ASSUME IInv, NEW s \in Session, WorkerStep(s)
  PROVE  \/ blob' = blob /\ (blob # NoFile => bytes'[blob] = bytes[blob])
         \/ Link(s) /\ blob = NoFile /\ blob' = s /\ bytes' = bytes /\ bytes[s] = "pinned"
         \/ Unpublish(s) /\ blob = s /\ blob' = NoFile /\ bytes' = bytes /\ bytes[s] = "pinned"
<1>1. /\ FilesInv(s) /\ blob \in File \cup {NoFile} /\ DOMAIN bytes = File
  BY DEF IInv, AttemptInv, TypeInv, TypeOK
<1>2. CASE Link(s)
  BY <1>1, <1>2 DEF Link, FilesInv, At
<1>3. CASE Unpublish(s)
  BY <1>1, <1>3 DEF Unpublish, FilesInv, At
<1>4. CASE Stage(s) \/ Stream(s)
  <2>1. blob # s
    BY <1>1, <1>4 DEF Stage, Stream, At, FilesInv, PublishedAt
  <2>2. blob' = blob /\ \E b : bytes' = [bytes EXCEPT ![s] = b]
    BY <1>4 DEF Stage, Stream
  <2> QED  BY <1>1, <2>1, <2>2
<1>5. CASE UNCHANGED <<blob, bytes>>
  BY <1>5
<1> QED
  BY <1>2, <1>3, <1>4, <1>5
     DEF WorkerStep, directoryVars, Accept, LookMiss, LookFound, OpenCache, HashCache, CheckCapacity,
     AnnounceStaging, AnnounceLink, UnlinkStaging, ConfirmPublished, SyncDirectory, Recheck,
     SayReady, ReportSuccess, Fail, SendFails, Unstage, Complain, WorkerExits, WorkerKilled

\* A file that another attempt has secured stays.
LEMMA SecuredStays ==
  ASSUME IInv, SerialInv, NEW s \in Session, WorkerStep(s), NEW t \in Session, t # s
  PROVE  StoreInv(t)'
<1>1. /\ StoreInv(t) /\ OneAtATime /\ ~WorkerGone(s) /\ WorkerGone(t)
  BY AliveBefore, AloneAlive DEF SerialInv
<1>2. worker'[t] = worker[t] /\ exit'[t] = exit[t]
  BY OneMoves DEF IInv
<1>3. ASSUME Secured(t) PROVE Pinned' /\ \A u \in Session : u # t /\ ~WorkerGone(u)' => blob' # u
  <2>1. Pinned /\ blob # s
    BY <1>1, <1>3 DEF StoreInv
  <2>2. blob' = blob /\ bytes'[blob] = bytes[blob]
    BY <2>1, StoreStep DEF Pinned
  <2>3. \A u \in Session : u # t /\ ~WorkerGone(u)' => u = s
    <3> SUFFICES ASSUME NEW u \in Session, u # t, u # s PROVE WorkerGone(u)'
      OBVIOUS
    <3> QED  BY <1>1, AloneAlive, OneMoves DEF IInv, WorkerGone
  <2> QED  BY <2>1, <2>2, <2>3 DEF Pinned
<1> QED  BY <1>1, <1>2, <1>3 DEF StoreInv, Secured, WorkerGone

\* The child secures what it found, or what it published and checked.
LEMMA SecuresItself ==
  ASSUME IInv, HonestInv, SerialInv, NEW s \in Session, WorkerStep(s)
  PROVE  StoreInv(s)'
<1>1. /\ StoreInv(s) /\ FilesInv(s) /\ TalkInv(s) /\ ~WorkerGone(s) /\ OneAtATime
      /\ DOMAIN worker = Session /\ DOMAIN exit = Session /\ worker[s] \in Pc
  BY AliveBefore DEF SerialInv, IInv, AttemptInv, HonestInv, TypeInv, TypeOK, Pc
<1>2. \A t \in Session : t # s => WorkerGone(t)'
  BY <1>1, AloneAlive, OneMoves DEF IInv, WorkerGone
<1>3. exit[s] = "none"
  BY <1>1 DEF TalkInv, WorkerGone
<1>4. SUFFICES /\ worker'[s] \in {"sync", "recheck"} => blob' = s
               /\ Secured(s)' => Pinned'
  BY <1>2 DEF StoreInv
<1> USE <1>1 DEF Goes, At, directoryVars
<1>5. CASE HashCache(s)
  <2>1. seen[s] # NoFile
    BY <1>5 DEF HashCache, TalkInv, TalkAt
  <2>2. worker'[s] \in {"reserve", "complain"}
    BY <1>5 DEF HashCache
  <2> QED  BY <1>5, <2>1, <2>2 DEF HashCache, Pinned, Secured
<1>6. CASE ConfirmPublished(s)
  BY <1>6 DEF ConfirmPublished, Secured
<1>7. CASE SyncDirectory(s)
  BY <1>7 DEF SyncDirectory, Secured, StoreInv
<1>8. CASE Recheck(s)
  <2>1. Pinned
    <3>1. CASE worker[s] = "hit"
      BY <3>1 DEF StoreInv, Secured
    <3>2. CASE worker[s] = "recheck"
      BY <3>2, FilesDiffer DEF StoreInv, FilesInv, Pinned
    <3> QED  BY <1>8, <3>1, <3>2 DEF Recheck
  <2>2. worker'[s] = "ready" /\ UNCHANGED <<blob, bytes>>
    BY <1>8 DEF Recheck
  <2> QED  BY <2>1, <2>2 DEF Pinned, Secured
<1>9. CASE CheckCapacity(s) \/ SayReady(s) \/ ReportSuccess(s)
  <2>1. /\ UNCHANGED <<blob, bytes>> /\ worker'[s] \notin {"sync", "recheck", "dead"}
        /\ worker'[s] \in {"hit", "report", "finished"} => Secured(s)
        /\ worker'[s] \in {"hit", "report", "finished", "stage"}
    BY <1>9 DEF CheckCapacity, SayReady, ReportSuccess, Secured
  <2> QED  BY <2>1 DEF StoreInv, Secured, Pinned
<1>10. CASE WorkerExits(s)
  <2>1. /\ UNCHANGED <<blob, bytes>> /\ worker'[s] = "dead"
        /\ exit'[s] = "0" => worker[s] = "finished"
    BY <1>10 DEF WorkerExits
  <2> QED  BY <2>1 DEF StoreInv, Secured, Pinned
<1>11. CASE WorkerKilled(s)
  BY <1>11 DEF WorkerKilled, Secured
<1>12. CASE /\ ~HashCache(s) /\ ~ConfirmPublished(s) /\ ~SyncDirectory(s) /\ ~Recheck(s)
            /\ ~CheckCapacity(s) /\ ~SayReady(s) /\ ~ReportSuccess(s)
            /\ ~WorkerExits(s) /\ ~WorkerKilled(s)
  <2>1. \E pc \in {"look", "capacity", "open", "hash", "complain", "staged", "stream", "link",
                   "unstage", "linked", "unlink", "unpublish", "unlinked", "failed"} : Goes(s, pc)
    BY <1>12
       DEF WorkerStep, Accept, LookMiss, LookFound, OpenCache, Stage, AnnounceStaging, Stream, Link,
       AnnounceLink, UnlinkStaging, Fail, AfterFailure, Failing, SendFails, Unpublish, Unstage,
       Complain
  <2> QED  BY <2>1 DEF Secured
<1> QED  BY <1>5, <1>6, <1>7, <1>8, <1>9, <1>10, <1>11, <1>12

\* The parent and the recovery leave the published file alone.
LEMMA ParentKeepsStore ==
  ASSUME IInv, NEW s \in Session, SessionStep(s), ~WorkerStep(s)
  PROVE  UNCHANGED <<blob, bytes>>
  BY DEF SessionStep, SupervisorStep, Begin, CallerAborts, Observe, Reaped, ReapFails,
     RecoveryEnds, ParentLost, Recover, RecoveryDies, directoryVars

LEMMA StoreKept ==
  ASSUME Quiescent, IInv, HonestInv, SerialInv, NEW s \in Session, SessionStep(s), NEW t \in Session
  PROVE  StoreInv(t)'
<1>1. CASE WorkerStep(s)
  BY <1>1, SecuresItself, SecuredStays
<1>2. CASE ~WorkerStep(s)
  <2>1. UNCHANGED <<blob, bytes, exit>>
    BY <1>2, ParentKeepsStore, ParentIsSilent
  <2>2. CASE worker' = worker
    BY <2>1, <2>2 DEF SerialInv, StoreInv, Secured, Pinned, WorkerGone
  <2>3. CASE worker[s] = "none" /\ worker' = [worker EXCEPT ![s] = "boot"]
    <3>1. blob # s /\ DOMAIN worker = Session
      BY <2>3 DEF IInv, AttemptInv, FilesInv, PublishedAt, TypeInv, TypeOK
    <3>2. \A u \in Session : u # s => worker'[u] = worker[u]
      BY <2>3, <3>1
    <3>3. worker'[s] = "boot"
      BY <2>3, <3>1
    <3>4. Secured(t)' => t # s /\ Secured(t)
      BY <2>1, <3>2, <3>3 DEF Secured
    <3>5. StoreInv(t)
      BY DEF SerialInv
    <3>6. worker'[t] \in {"sync", "recheck"} => blob' = t
      BY <2>1, <3>2, <3>3, <3>5 DEF StoreInv
    <3>7. Secured(t) => \A u \in Session : u # t /\ ~WorkerGone(u)' => blob' # u
      BY <2>1, <3>1, <3>2, <3>5 DEF StoreInv, WorkerGone
    <3>8. Secured(t) => Pinned'
      BY <2>1, <3>5 DEF StoreInv, Pinned
    <3> QED  BY <3>4, <3>6, <3>7, <3>8 DEF StoreInv
  <2> QED  BY <1>2, <2>2, <2>3, ParentIsSilent
<1> QED  BY <1>1, <1>2

LEMMA InitSerial == Init => SerialInv
<1> SUFFICES ASSUME Init PROVE SerialInv
  OBVIOUS
<1>1. \A s \in Session : Settled(s) /\ worker[s] = "none"
  BY DEF Init, Settled, WorkerGone
<1> QED  BY <1>1 DEF SerialInv, OneAtATime, StoreInv, Secured

LEMMA NextSerial ==
  ASSUME Quiescent, IInv, HonestInv, SerialInv, [Next]_vars
  PROVE  SerialInv'
<1>1. CASE UNCHANGED vars
  BY <1>1 DEF SerialInv, OneAtATime, Settled, StoreInv, Secured, Pinned, WorkerGone, vars,
     directoryVars, parentVars, workerVars
<1>2. CASE Next
  <2>1. PICK s \in Session : SessionStep(s)
    BY <1>2 DEF Next
  <2>2. OneAtATime'
    BY <2>1, OneAtATimeKept DEF SerialInv
  <2>3. \A t \in Session : StoreInv(t)'
    BY <2>1, StoreKept
  <2> QED  BY <2>2, <2>3 DEF SerialInv
<1> QED  BY <1>1, <1>2


---------------------------------------------------------------------------
(* The store implements the verified cache.                                *)

View ==
  IF blob = NoFile THEN "absent" ELSE IF bytes[blob] = "pinned" THEN "pinned" ELSE "foreign"
Leases == {s \in Session : result[s] = "granted"}

\* Whoever was granted secured the file that is there now.
LEMMA LeasesAreSecured ==
  ASSUME HonestInv, SerialInv, NEW t \in Session, result[t] = "granted"
  PROVE  /\ worker[t] = "dead" /\ Pinned
         /\ \A s \in Session : ~WorkerGone(s) => blob # s
<1>1. worker[t] = "dead" /\ exit[t] = "0"
  BY DEF HonestInv, OutcomeInv
<1> QED  BY <1>1 DEF SerialInv, StoreInv, Secured, WorkerGone

\* An attempt is granted only by its reaping, with the pinned file there.
LEMMA GrantIsSecured ==
  ASSUME IInv, HonestInv, SerialInv, NEW s \in Session, SessionStep(s)
  PROVE  \/ \A t \in Session : result'[t] = "granted" <=> result[t] = "granted"
         \/ /\ ~WorkerStep(s) /\ Pinned /\ result[s] # "granted"
            /\ result' = [result EXCEPT ![s] = "granted"]
<1>1. /\ TalkInv(s) /\ OutcomeInv(s) /\ AnswerInv(s) /\ StoreInv(s) /\ TypeInv
      /\ DOMAIN result = Session
  BY DEF IInv, AttemptInv, HonestInv, SerialInv, TypeInv, TypeOK
<1>2. CASE result' = result
  BY <1>2
<1>3. CASE Begin(s)
  <2>1. PICK r \in {Declined, TimedOut, WorkerFailed, Aborted} :
          result' = result \/ result' = [result EXCEPT ![s] = r]
    BY <1>3 DEF Begin, Answer
  <2>2. result[s] = "none" /\ r # "granted"
    BY <1>1, <1>3 DEF Begin, In, AnswerInv, Declined, TimedOut, WorkerFailed, Aborted
  <2> QED  BY <1>1, <2>1, <2>2
<1>4. CASE Reaped(s)
  <2> DEFINE v == Verdict(s)
  <2>1. worker[s] = "dead" /\ (v = "granted" => exit[s] = "0") /\ result[s] = "none"
    BY <1>1, <1>4, HonestVerdict DEF Reaped, AnswerInv
  <2>2. v = "granted" => Pinned
    BY <1>1, <2>1 DEF StoreInv, Secured
  <2>3. result' = result \/ result' = [result EXCEPT ![s] = v]
    BY <1>4 DEF Reaped, Answer
  <2>4. ~WorkerStep(s)
    BY <2>1, AliveBefore DEF WorkerGone
  <2> HIDE DEF v
  <2> QED  BY <1>1, <2>1, <2>2, <2>3, <2>4
<1>5. CASE ReapFails(s) \/ RecoveryEnds(s)
  <2>1. result[s] = "none" /\ pending[s] # "granted"
    BY <1>1, <1>5 DEF ReapFails, RecoveryEnds, In, AnswerInv, OutcomeInv
  <2>2. \/ result' = result
        \/ result' = [result EXCEPT ![s] = CleanupFailed]
        \/ result' = [result EXCEPT ![s] = pending[s]]
    BY <1>5 DEF ReapFails, RecoveryEnds, Answer
  <2> QED  BY <1>1, <2>1, <2>2 DEF CleanupFailed
<1>6. CASE WorkerStep(s)
  BY <1>6, <1>2, WorkerFrame DEF IInv
<1> QED
  BY <1>2, <1>3, <1>4, <1>5, <1>6
     DEF SessionStep, SupervisorStep, Observe, CallerAborts, ParentLost, Recover, RecoveryDies,
         parentVars

LEMMA LeasesAre ==
  /\ (\A t \in Session : result'[t] = "granted" <=> result[t] = "granted") => Leases' = Leases
  /\ \A s \in Session : /\ DOMAIN result = Session
                        /\ result' = [result EXCEPT ![s] = "granted"]
                        => Leases' = Leases \cup {s}
  BY DEF Leases

LEMMA CacheInit == Init => Cache!Init
<1> SUFFICES ASSUME Init PROVE Cache!Init
  OBVIOUS
<1>1. View \in {"absent", "pinned", "foreign"}
  BY DEF View
<1>2. Leases = {}
  BY DEF Init, Leases
<1> QED  BY <1>1, <1>2 DEF Cache!Init, View, Leases

LEMMA CacheStep ==
  ASSUME IInv, HonestInv, SerialInv, [Next]_vars
  PROVE  [Cache!Next]_(Cache!vars)
<1> DEFINE Step == \/ View = "absent" /\ View' = "pinned" /\ Leases' = Leases
                   \/ View = "pinned" /\ Leases = {} /\ View' = "absent" /\ Leases' = Leases
                   \/ \E c \in Session : /\ View = "pinned" /\ c \notin Leases
                                         /\ Leases' = Leases \cup {c} /\ View' = View
                   \/ View' = View /\ Leases' = Leases
<1>1. Step
  <2>1. CASE UNCHANGED vars
    BY <2>1 DEF vars, directoryVars, parentVars, View, Leases
  <2>2. ASSUME NEW s \in Session, SessionStep(s) PROVE Step
    <3>1. DOMAIN result = Session
      BY DEF IInv, TypeInv, TypeOK
    <3>2. CASE WorkerStep(s)
      <4>1. Leases' = Leases
        BY <3>2, WorkerFrame, LeasesAre DEF IInv
      <4>2. CASE blob' = blob /\ (blob # NoFile => bytes'[blob] = bytes[blob])
        <5>1. View' = View
          BY <4>2 DEF View
        <5> QED  BY <4>1, <5>1
      <4>3. CASE Link(s) /\ blob = NoFile /\ blob' = s /\ bytes' = bytes /\ bytes[s] = "pinned"
        <5>1. View = "absent" /\ View' = "pinned"
          BY <4>3, FilesDiffer DEF View
        <5> QED  BY <4>1, <5>1
      <4>4. CASE Unpublish(s) /\ blob = s /\ blob' = NoFile /\ bytes' = bytes /\ bytes[s] = "pinned"
        <5>1. View = "pinned" /\ View' = "absent"
          BY <4>4, FilesDiffer DEF View
        <5>2. Leases = {}
          BY <3>2, <4>4, AliveBefore, LeasesAreSecured DEF Leases
        <5> QED  BY <4>1, <5>1, <5>2
      <4> QED  BY <3>2, <4>2, <4>3, <4>4, StoreStep
    <3>3. CASE ~WorkerStep(s)
      <4>1. View' = View
        BY <2>2, <3>3, ParentKeepsStore DEF View
      <4>2. CASE \A t \in Session : result'[t] = "granted" <=> result[t] = "granted"
        BY <4>1, <4>2, LeasesAre
      <4>3. CASE /\ Pinned /\ result[s] # "granted"
                 /\ result' = [result EXCEPT ![s] = "granted"]
        <5>1. View = "pinned" /\ s \notin Leases
          BY <4>3 DEF View, Pinned, Leases
        <5>2. Leases' = Leases \cup {s}
          BY <3>1, <4>3, LeasesAre
        <5> QED  BY <4>1, <5>1, <5>2
      <4> QED  BY <2>2, <3>3, <4>2, <4>3, GrantIsSecured
    <3> QED  BY <3>2, <3>3
  <2> QED  BY <2>1, <2>2 DEF Next
<1> QED
  BY <1>1 DEF Cache!Next, Cache!Publish, Cache!Withdraw, Cache!Grant, Cache!vars, View, Leases

(* While attempts do not overlap, the machinery of the acquisition, with   *)
(* its crashes, timeouts, aborts and recoveries, is a verified cache: the  *)
(* pinned file is withdrawn only before anyone was granted it, and granted *)
(* only while it is there.                                                 *)
THEOREM CacheImplemented == Quiescent => (Spec => ImplementsVerifiedCache)
<1> SUFFICES ASSUME Quiescent PROVE Spec => ImplementsVerifiedCache
  OBVIOUS
<1>1. IInv /\ HonestInv /\ SerialInv /\ [Next]_vars => SerialInv'
  BY NextSerial
<1>2. Spec => []SerialInv
  BY <1>1, InitSerial, Inductive, HonestHolds, PTL DEF Spec
<1>3. IInv /\ HonestInv /\ SerialInv /\ [Next]_vars => [Cache!Next]_(Cache!vars)
  BY CacheStep
<1> QED
  BY <1>2, <1>3, CacheInit, Inductive, HonestHolds, PTL
     DEF Spec, ImplementsVerifiedCache, Cache!Spec
=============================================================================
