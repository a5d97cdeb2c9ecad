------------------------- MODULE ArtifactAcquisition -------------------------
(***************************************************************************)
(* The contained acquisition of the pinned model artifact, by one or more  *)
(* attempts (sessions) over one private cache directory:                   *)
(*   - the supervisor of an attempt in the parent (contained-internal.ts), *)
(*   - its acquisition child (acquisition-child.ts, service.ts),           *)
(*   - its recovery child (recovery-child.ts, recovery.ts),                *)
(*   - the directory: the published blob, one staging name per session.    *)
(* A file is named by the session that created it, or Old for one that was *)
(* there before; the link count of a file is the number of its names.      *)
(* The parent reads the messages of a child after 'close', which Node      *)
(* emits once the IPC channel is drained: sent[s] is that sequence.        *)
(***************************************************************************)
EXTENDS Naturals, SequencesExt

CONSTANTS
  Session,          \* the attempts, each with its nonce
  Old, NoFile,      \* a file that was there before; no file
  Quiescent         \* TRUE: attempts do not overlap, as the document requires

ASSUME FilesDiffer == Old \notin Session /\ NoFile \notin Session /\ Old # NoFile
ASSUME QuiescentAssumption == Quiescent \in BOOLEAN

MaxMessages == 12

File == Session \cup {Old}

VARIABLES
  blob,             \* the file published under the pinned name, or NoFile
  partial,          \* the sessions whose staging name exists
  bytes,            \* what each file holds
  stuck,            \* the sessions one of whose names could not be removed
  parent, outcome, pending, result, aborted,
  worker, seen, sent, exit,
  recovery

directoryVars == <<blob, partial, bytes, stuck>>
parentVars == <<parent, outcome, pending, result, aborted>>
workerVars == <<worker, seen, sent, exit>>
vars == <<directoryVars, parentVars, workerVars, recovery>>

HitStates == <<"accepted", "cache-hit", "capacity-ok", "ready">>
MissStates ==
  <<"accepted", "cache-miss", "capacity-ok", "staging-open", "hard-linked",
    "staging-unlinked", "directory-synced", "ready">>

Init ==
  /\ blob \in {NoFile, Old}
  /\ partial = {}
  /\ bytes \in [File -> {"none", "pinned", "other"}]
  /\ \A s \in Session : bytes[s] = "none"
  /\ bytes[Old] = "none" <=> blob = NoFile
  /\ stuck = {}
  /\ parent = [s \in Session |-> "idle"]
  /\ outcome = [s \in Session |-> "none"]
  /\ pending = [s \in Session |-> "none"]
  /\ result = [s \in Session |-> "none"]
  /\ aborted = {}
  /\ worker = [s \in Session |-> "none"]
  /\ seen = [s \in Session |-> NoFile]
  /\ sent = [s \in Session |-> <<>>]
  /\ exit = [s \in Session |-> "none"]
  /\ recovery = [s \in Session |-> "none"]

Links(f) == (IF blob = f THEN 1 ELSE 0) + (IF f \in partial THEN 1 ELSE 0)
WorkerGone(s) == worker[s] \in {"none", "dead"}
Settled(s) == parent[s] \in {"idle", "done", "lost"} /\ WorkerGone(s) /\ recovery[s] # "active"

(***************************************************************************)
(* The acquisition child, one action per effect it awaits.                 *)
(***************************************************************************)
At(s, pc) == worker[s] = pc
Goes(s, pc) == worker' = [worker EXCEPT ![s] = pc]
Says(s, token) == sent' = [sent EXCEPT ![s] = Append(@, token)]

Accept(s) ==
  /\ At(s, "boot") /\ Goes(s, "look")
  /\ Says(s, "accepted")
  /\ UNCHANGED <<directoryVars, parentVars, seen, exit, recovery>>

(* verifyCache: no file is a miss; a file is opened only with one link.    *)
LookMiss(s) ==
  /\ At(s, "look") /\ blob = NoFile
  /\ Goes(s, "capacity") /\ Says(s, "cache-miss")
  /\ UNCHANGED <<directoryVars, parentVars, seen, exit, recovery>>

LookFound(s) ==
  /\ At(s, "look") /\ blob # NoFile
  /\ Goes(s, "open")
  /\ UNCHANGED <<directoryVars, parentVars, seen, sent, exit, recovery>>

OpenCache(s) ==
  /\ At(s, "open")
  /\ IF blob # NoFile /\ Links(blob) = 1
       THEN Goes(s, "hash") /\ seen' = [seen EXCEPT ![s] = blob]
       ELSE Goes(s, "complain") /\ UNCHANGED seen
  /\ UNCHANGED <<directoryVars, parentVars, sent, exit, recovery>>

HashCache_SizeOnly(s) ==
  /\ At(s, "hash")
  /\ IF blob = seen[s] /\ Links(blob) = 1
       THEN Goes(s, "reserve") /\ Says(s, "cache-hit")
       ELSE Goes(s, "complain") /\ UNCHANGED sent
  /\ UNCHANGED <<directoryVars, parentVars, seen, exit, recovery>>

(* The size, the digest, and the same file under the name afterwards.      *)
HashCache(s) ==
  /\ At(s, "hash")
  /\ IF bytes[seen[s]] = "pinned" /\ blob = seen[s]
       THEN Goes(s, "reserve") /\ Says(s, "cache-hit")
       ELSE Goes(s, "complain") /\ UNCHANGED sent
  /\ UNCHANGED <<directoryVars, parentVars, seen, exit, recovery>>

CheckCapacity(s) ==
  /\ \/ At(s, "reserve") /\ Goes(s, "hit")
     \/ At(s, "capacity") /\ Goes(s, "stage")
  /\ Says(s, "capacity-ok")
  /\ UNCHANGED <<directoryVars, parentVars, seen, exit, recovery>>

(* The exclusive create of the nonce-derived name, and its announcement.   *)
Stage(s) ==
  /\ At(s, "stage") /\ Goes(s, "staged")
  /\ partial' = partial \cup {s}
  /\ bytes' = [bytes EXCEPT ![s] = "other"]
  /\ UNCHANGED <<blob, stuck, parentVars, seen, sent, exit, recovery>>

AnnounceStaging(s) ==
  /\ At(s, "staged") /\ Goes(s, "stream")
  /\ Says(s, "staging-open")
  /\ UNCHANGED <<directoryVars, parentVars, seen, exit, recovery>>

Stream_NoHash(s) ==
  /\ At(s, "stream")
  /\ \E b \in {"pinned", "other"} :
       /\ bytes' = [bytes EXCEPT ![s] = b]
       /\ Goes(s, "link")
  /\ UNCHANGED <<blob, partial, stuck, parentVars, seen, sent, exit, recovery>>

(* The source may send anything: only the pinned length and digest pass.   *)
Stream(s) ==
  /\ At(s, "stream")
  /\ \E b \in {"pinned", "other"} :
       /\ bytes' = [bytes EXCEPT ![s] = b]
       /\ Goes(s, IF b = "pinned" THEN "link" ELSE "unstage")
  /\ UNCHANGED <<blob, partial, stuck, parentVars, seen, sent, exit, recovery>>

Link_Renames(s) ==
  /\ At(s, "link")
  /\ blob' = s /\ Goes(s, "linked")
  /\ UNCHANGED <<partial, bytes, stuck, parentVars, seen, sent, exit, recovery>>

(* link(2) refuses an existing name.                                       *)
Link(s) ==
  /\ At(s, "link")
  /\ IF blob = NoFile
       THEN blob' = s /\ Goes(s, "linked")
       ELSE Goes(s, "unstage") /\ UNCHANGED blob
  /\ UNCHANGED <<partial, bytes, stuck, parentVars, seen, sent, exit, recovery>>

AnnounceLink(s) ==
  /\ At(s, "linked")
  /\ Says(s, "hard-linked")
  /\ Goes(s, IF Links(s) = 2 /\ blob = s THEN "unlink" ELSE "unpublish")
  /\ UNCHANGED <<directoryVars, parentVars, seen, exit, recovery>>

UnlinkStaging(s) ==
  /\ At(s, "unlink") /\ Goes(s, "unlinked")
  /\ partial' = partial \ {s}
  /\ UNCHANGED <<blob, bytes, stuck, parentVars, seen, sent, exit, recovery>>

(* The published file is checked and hashed again before the directory is  *)
(* synced.                                                                 *)
ConfirmPublished(s) ==
  /\ At(s, "unlinked")
  /\ Says(s, "staging-unlinked")
  /\ Goes(s, IF blob = s /\ Links(s) = 1 /\ bytes[s] = "pinned"
             THEN "sync" ELSE "unpublish")
  /\ UNCHANGED <<directoryVars, parentVars, seen, exit, recovery>>

SyncDirectory(s) ==
  /\ At(s, "sync") /\ Goes(s, "recheck")
  /\ Says(s, "directory-synced")
  /\ UNCHANGED <<directoryVars, parentVars, seen, exit, recovery>>

(* The last checks of the acquisition: after them nothing is withdrawn.    *)
Recheck(s) ==
  /\ worker[s] \in {"hit", "recheck"} /\ Goes(s, "ready")
  /\ UNCHANGED <<directoryVars, parentVars, seen, sent, exit, recovery>>

SayReady(s) ==
  /\ At(s, "ready") /\ Goes(s, "report")
  /\ Says(s, "ready")
  /\ UNCHANGED <<directoryVars, parentVars, seen, exit, recovery>>

ReportSuccess(s) ==
  /\ At(s, "report") /\ Goes(s, "finished")
  /\ Says(s, IF seen[s] = NoFile THEN "success-miss" ELSE "success-hit")
  /\ UNCHANGED <<directoryVars, parentVars, seen, exit, recovery>>

(* A deadline check, an abort, a system call or a send fails: the catch of *)
(* publish withdraws the blob, the finally of the acquisition the staging. *)
AfterFailure(pc) ==
  CASE pc \in {"look", "open", "hash", "reserve", "hit", "capacity", "stage"} -> "complain"
    [] pc \in {"staged", "stream", "link"} -> "unstage"
    [] pc \in {"linked", "unlink", "unlinked", "sync", "recheck"} -> "unpublish"

Failing == {"look", "open", "hash", "reserve", "hit", "capacity", "stage", "staged",
            "stream", "link", "linked", "unlink", "unlinked", "sync", "recheck"}

Fail(s) ==
  /\ worker[s] \in Failing
  /\ Goes(s, AfterFailure(worker[s]))
  /\ UNCHANGED <<directoryVars, parentVars, seen, sent, exit, recovery>>

(* After the acquisition only a send can fail, to a parent that is lost.   *)
SendFails(s) ==
  /\ worker[s] \in {"ready", "report"} /\ parent[s] = "lost"
  /\ Goes(s, "failed")
  /\ UNCHANGED <<directoryVars, parentVars, seen, sent, exit, recovery>>

(* unlinkIfSame: only its own file, by its identity.  A name that it could *)
(* not look at or remove stays, and nobody is told: the child goes on.     *)
Unpublish(s) ==
  /\ At(s, "unpublish") /\ Goes(s, "unstage")
  /\ \/ blob' = (IF blob = s THEN NoFile ELSE blob) /\ UNCHANGED stuck
     \/ blob = s /\ stuck' = stuck \cup {s} /\ UNCHANGED blob
  /\ UNCHANGED <<partial, bytes, parentVars, seen, sent, exit, recovery>>

Unstage(s) ==
  /\ At(s, "unstage") /\ Goes(s, "complain")
  /\ \/ partial' = partial \ {s} /\ UNCHANGED stuck
     \/ s \in partial /\ stuck' = stuck \cup {s} /\ UNCHANGED partial
  /\ UNCHANGED <<blob, bytes, parentVars, seen, sent, exit, recovery>>

Complain(s) ==
  /\ At(s, "complain") /\ Goes(s, "failed")
  /\ Says(s, "error")
  /\ UNCHANGED <<directoryVars, parentVars, seen, exit, recovery>>

WorkerExits(s) ==
  /\ worker[s] \in {"finished", "failed"} /\ Goes(s, "dead")
  /\ exit' = [exit EXCEPT ![s] = IF worker[s] = "finished" THEN "0" ELSE "1"]
  /\ UNCHANGED <<directoryVars, parentVars, seen, sent, recovery>>

(* Killed by its parent, by the system, or by its own exit 250 ms after it *)
(* lost its parent: wherever it is, with nothing cleaned up.               *)
WorkerKilled(s) ==
  /\ ~WorkerGone(s) /\ Goes(s, "dead")
  /\ exit' = [exit EXCEPT ![s] = "killed"]
  /\ UNCHANGED <<directoryVars, parentVars, seen, sent, recovery>>

WorkerStep(s) ==
  \/ Accept(s) \/ LookMiss(s) \/ LookFound(s) \/ OpenCache(s) \/ HashCache(s)
  \/ CheckCapacity(s) \/ Stage(s) \/ AnnounceStaging(s) \/ Stream(s) \/ Link(s)
  \/ AnnounceLink(s) \/ UnlinkStaging(s) \/ ConfirmPublished(s) \/ SyncDirectory(s) \/ Recheck(s)
  \/ SayReady(s) \/ ReportSuccess(s) \/ Fail(s) \/ SendFails(s) \/ Unpublish(s) \/ Unstage(s)
  \/ Complain(s) \/ WorkerExits(s) \/ WorkerKilled(s)

(***************************************************************************)
(* What the parent makes of the messages.                                  *)
(***************************************************************************)
Terminals == {"success-hit", "success-miss", "error"}

HasTerminal(m) == m # <<>> /\ m[Len(m)] \in Terminals
States(m) == IF HasTerminal(m) THEN SubSeq(m, 1, Len(m) - 1) ELSE m
LegalPrefix(states) == IsPrefix(states, HitStates) \/ IsPrefix(states, MissStates)

ExactSuccess_MissOnly(states, cache) == states = MissStates
ExactSuccess(states, cache) ==
  states = IF cache = "success-hit" THEN HitStates ELSE MissStates

LegalErrorPrefix(states) ==
  states # <<>> /\ LegalPrefix(states) /\ states[Len(states)] # "ready"

LegalSequence(m) ==
  /\ Len(m) <= MaxMessages
  /\ LegalPrefix(States(m))
  /\ HasTerminal(m) =>
       IF m[Len(m)] = "error" THEN LegalErrorPrefix(States(m))
       ELSE ExactSuccess(States(m), m[Len(m)])

Acknowledged(s) == \E i \in DOMAIN sent[s] : sent[s][i] = "staging-open"

(***************************************************************************)
(* The supervisor of an attempt: internalRunAcquisitionSupervisor.         *)
(***************************************************************************)
Declined == "artifact-consent-required"
Aborted == "artifact-acquisition-aborted"
TimedOut == "artifact-acquisition-timeout"
ProtocolInvalid == "artifact-worker-protocol-invalid"
WorkerFailed == "artifact-worker-failed"
CleanupFailed == "artifact-cleanup-failed"
ChildError == "child-error"           \* the fixed code that the child reported
Result == {"granted", Declined, Aborted, TimedOut, ProtocolInvalid, WorkerFailed,
           CleanupFailed, ChildError}

In(s, pc) == parent[s] = pc
Enters(s, pc) == parent' = [parent EXCEPT ![s] = pc]

(* The answer of the attempt: nothing of it runs any more in the parent.   *)
Answer(s, r) ==
  /\ Enters(s, "done")
  /\ result' = [result EXCEPT ![s] = r]

(* Consent, the abort and the temporary cwd come before the fork.          *)
Begin(s) ==
  /\ In(s, "idle")
  /\ Quiescent => \A t \in Session : Settled(t)
  /\ \/ /\ s \notin aborted
        /\ Enters(s, "waiting") /\ Goes(s, "boot")
        /\ UNCHANGED result
     \/ /\ \E r \in {Declined, TimedOut, WorkerFailed} : Answer(s, r)
        /\ UNCHANGED worker
     \/ s \in aborted /\ Answer(s, Aborted) /\ UNCHANGED worker
  /\ UNCHANGED <<directoryVars, outcome, pending, aborted, seen, sent, exit, recovery>>

(* The signal is looked at until the child is reaped.                      *)
CallerAborts(s) ==
  /\ parent[s] \in {"idle", "waiting", "reaping"} /\ s \notin aborted
  /\ aborted' = aborted \cup {s}
  /\ UNCHANGED <<directoryVars, parent, outcome, pending, result, workerVars, recovery>>

(* The race of the exit, the deadline, the abort and a violation; a        *)
(* request that could not be sent is one.                                  *)
Violation(s) ==
  \/ ~LegalSequence(sent[s])
  \/ worker[s] = "dead" /\ sent[s] = <<>>

Observe(s, o) ==
  /\ In(s, "waiting")
  /\ CASE o = "exit" -> worker[s] = "dead"
       [] o = "abort" -> s \in aborted
       [] o = "protocol" -> Violation(s)
       [] o = "timeout" -> TRUE
  /\ outcome' = [outcome EXCEPT ![s] = o]
  /\ Enters(s, "reaping")
  /\ UNCHANGED <<directoryVars, pending, result, aborted, workerVars, recovery>>

(* An abort, then a violation, outrank the exit that was seen first.       *)
Cause(s) ==
  IF outcome[s] # "exit" THEN outcome[s]
  ELSE IF s \in aborted THEN "abort"
  ELSE IF ~LegalSequence(sent[s]) THEN "protocol"
  ELSE "exit"

ExitVerdict(s) ==
  LET m == sent[s] IN
  IF exit[s] = "killed" \/ ~HasTerminal(m) THEN WorkerFailed
  ELSE IF m[Len(m)] = "error" /\ exit[s] = "1" THEN ChildError
  ELSE IF m[Len(m)] # "error" /\ exit[s] = "0" THEN "granted"
  ELSE ProtocolInvalid

(* What the attempt is worth once its child is gone and its channel read.  *)
Verdict(s) ==
  CASE Cause(s) = "cleanup" -> CleanupFailed
    [] Cause(s) = "abort" -> Aborted
    [] Cause(s) = "timeout" -> TimedOut
    [] Cause(s) = "protocol" -> ProtocolInvalid
    [] OTHER -> ExitVerdict(s)

NeedsRecovery_NotAfterAbort(s) ==
  Acknowledged(s) /\ Verdict(s) \notin {"granted", ChildError, Aborted}

(* An error that the child reported itself comes after its own cleanup,    *)
(* whatever that could remove.                                             *)
NeedsRecovery(s) == Acknowledged(s) /\ Verdict(s) \notin {"granted", ChildError}

(* The child is reaped, its group is gone and its channel is closed.       *)
Reaped(s) ==
  /\ parent[s] \in {"reaping", "reaping-again"} /\ worker[s] = "dead"
  /\ IF NeedsRecovery(s)
       THEN /\ Enters(s, "recovering")
            /\ pending' = [pending EXCEPT ![s] = Verdict(s)]
            /\ recovery' = [recovery EXCEPT ![s] = "active"]
            /\ UNCHANGED result
       ELSE /\ Answer(s, Verdict(s))
            /\ UNCHANGED <<pending, recovery>>
  /\ UNCHANGED <<directoryVars, outcome, aborted, workerVars>>

(* TERM, KILL and two seconds were not enough: once more from the catch,   *)
(* then the attempt gives up on the child.  A group or a channel that      *)
(* outlives an exited child is given up at once.                           *)
ReapFails(s) ==
  /\ \/ /\ In(s, "reaping") /\ worker[s] # "dead"
        /\ Enters(s, "reaping-again")
        /\ outcome' = [outcome EXCEPT ![s] = "cleanup"]
        /\ UNCHANGED result
     \/ /\ In(s, "reaping-again") \/ (In(s, "reaping") /\ worker[s] = "dead")
        /\ Answer(s, CleanupFailed)
        /\ UNCHANGED outcome
  /\ UNCHANGED <<directoryVars, pending, aborted, workerVars, recovery>>

(* runRecovery: the child answered, or it failed or ran out of its time.   *)
RecoveryEnds(s) ==
  /\ In(s, "recovering")
  /\ \/ recovery[s] = "cleared" /\ Answer(s, pending[s])
     \/ Answer(s, CleanupFailed)
  /\ UNCHANGED <<directoryVars, outcome, pending, aborted, workerVars, recovery>>

(* What the parent remembers is lost with it.                              *)
ParentLost(s) ==
  /\ parent[s] \notin {"idle", "done", "lost"}
  /\ Enters(s, "lost")
  /\ outcome' = [outcome EXCEPT ![s] = "none"]
  /\ pending' = [pending EXCEPT ![s] = "none"]
  /\ aborted' = aborted \ {s}
  /\ UNCHANGED <<directoryVars, result, workerVars, recovery>>

(***************************************************************************)
(* The recovery child: internalRecoverOwnedStaging for one nonce.          *)
(***************************************************************************)
Recoverable(s) ==
  \/ Links(s) = 1
  \/ Links(s) = 2 /\ blob = s /\ bytes[s] = "pinned"

Recover(s) ==
  /\ recovery[s] = "active"
  /\ IF s \notin partial \/ Recoverable(s)
       THEN /\ partial' = partial \ {s}
            /\ recovery' = [recovery EXCEPT ![s] = "cleared"]
       ELSE /\ recovery' = [recovery EXCEPT ![s] = "failed"]
            /\ UNCHANGED partial
  /\ UNCHANGED <<blob, bytes, stuck, parentVars, workerVars>>

RecoveryDies(s) ==
  /\ recovery[s] = "active"
  /\ recovery' = [recovery EXCEPT ![s] = "failed"]
  /\ UNCHANGED <<directoryVars, parentVars, workerVars>>

SupervisorStep(s) == 
  \/ \E o \in {"exit", "abort", "protocol", "timeout"} : Observe(s, o)
  \/ Reaped(s) \/ ReapFails(s) \/ RecoveryEnds(s)

SessionStep(s) ==
  \/ Begin(s) \/ CallerAborts(s) \/ SupervisorStep(s) \/ ParentLost(s)
  \/ WorkerStep(s) \/ Recover(s) \/ RecoveryDies(s)

Next == \E s \in Session : SessionStep(s)

Spec == Init /\ [][Next]_vars

(***************************************************************************)
(* Properties.                                                             *)
(***************************************************************************)
Tokens == {"accepted", "cache-hit", "cache-miss", "capacity-ok", "staging-open",
           "hard-linked", "staging-unlinked", "directory-synced", "ready"}

(* The variables keep their types, and a child never sends more than the   *)
(* twelve messages that its parent accepts (MAX_MESSAGES).                 *)
TypeOK ==
  /\ blob \in File \cup {NoFile} /\ partial \subseteq Session /\ stuck \subseteq Session
  /\ bytes \in [File -> {"none", "pinned", "other"}]
  /\ parent \in [Session -> {"idle", "waiting", "reaping", "reaping-again",
                             "recovering", "done", "lost"}]
  /\ outcome \in [Session -> {"none", "exit", "abort", "protocol", "timeout", "cleanup"}]
  /\ pending \in [Session -> Result \cup {"none"}]
  /\ result \in [Session -> Result \cup {"none"}]
  /\ aborted \subseteq Session
  /\ worker \in [Session -> Failing \cup {"none", "boot", "ready", "report", "unpublish",
                             "unstage", "complain", "finished", "failed", "dead"}]
  /\ seen \in [Session -> File \cup {NoFile}]
  /\ sent \in [Session -> Seq(Tokens \cup Terminals)]
  /\ \A s \in Session : Len(sent[s]) <= MaxMessages
  /\ exit \in [Session -> {"none", "0", "1", "killed"}]
  /\ recovery \in [Session -> {"none", "active", "cleared", "failed"}]

(* No attempt ever publishes bytes other than the pinned ones: neither a   *)
(* failed download, nor a crash, a recovery or an overlapping attempt puts *)
(* anything else under the pinned name.                                    *)
BlobIsVerified == blob \in Session => bytes[blob] = "pinned"

(* The pinned name is never overwritten, and a file leaves it only by its  *)
(* own attempt before that attempt is granted: what was there before is    *)
(* never touched, and one attempt never withdraws what another published.  *)
NoClobber ==
  [][blob' # blob =>
       \/ blob = NoFile
       \/ blob' = NoFile /\ blob \in Session /\ result[blob] # "granted"
          /\ ~WorkerGone(blob)]_vars

(* An attempt that answered with anything but cleanup-failed has no child  *)
(* left, and it left an announced partial, or a blob with two links that   *)
(* every later attempt would refuse, only if the answer is the error that  *)
(* its child reported and the child could not remove a name of its own.    *)
SettledClean ==
  \A s \in Session :
    In(s, "done") /\ result[s] # CleanupFailed =>
      /\ WorkerGone(s) /\ recovery[s] # "active"
      /\ (Acknowledged(s) /\ s \in partial) \/ Links(s) = 2 =>
           result[s] = ChildError /\ s \in stuck

(* The shipped child never breaks the grammar its parent enforces: an      *)
(* attempt is called a protocol violation only when the child died before  *)
(* it took its request.                                                    *)
HonestChildAccepted ==
  \A s \in Session : result[s] = ProtocolInvalid => sent[s] = <<>>

Cache == INSTANCE VerifiedCache WITH
  Client <- Session,
  cache <- IF blob = NoFile THEN "absent" ELSE IF bytes[blob] = "pinned" THEN "pinned" ELSE "foreign",
  lease <- {s \in Session : result[s] = "granted"}

(* The whole machinery, crashes and recoveries included, is the verified   *)
(* cache of module VerifiedCache while attempts do not overlap.            *)
ImplementsVerifiedCache == Cache!Spec
=============================================================================
