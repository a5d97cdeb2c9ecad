------------------------------ MODULE Continuity ------------------------------
(***************************************************************************)
(* ProductionRealCoordinator (packages/cli/src/real-coordinator.ts), the   *)
(* owner of the continuity from the project's SDK over its Doctor and the  *)
(* acquisition of the model to the workload, with what these stages share: *)
(*   - the SDK's installation is audited and bound to a handle, the Doctor *)
(*     runs the project's own code, and only then the child of the         *)
(*     executor audits the installation again and imports it;              *)
(*   - the model is verified and granted by the acquisition, and verified  *)
(*     by that child before it is loaded and again once it is unloaded,    *)
(*     while the cache directory belongs to a user who may touch it.       *)
(* Doctor and acquisition are the modules of their own; of the workload,   *)
(* which is in module ExecutorRun, there is here what it reads from disk.  *)
(***************************************************************************)
EXTENDS Naturals, Sequences

CONSTANT MaxChanges           \* bound: what the user does to the cache

ASSUME ContinuityAssumption == MaxChanges \in Nat

VARIABLES
  at, signal, root, kin, code, wrote, kept, stops, timers, sweeps, heard, answer,
  blob, partial, bytes, stuck, parent, outcome, pending, result, aborted,
  worker, seen, sent, exit, recovery,
  stage,      \* #stage; "ended" once the last of the three calls returned
  verdict,    \* what it returned
  sdk,        \* the version that the SDK's manifest in the project declares
  reported,   \* sdk_version of the report
  imported,   \* what the child imported
  disk,       \* the cache directory, from the grant on
  step,       \* the child of the executor
  opened,     \* root and file, as far as a validation has opened them
  prior,      \* executionSnapshots: what the first validation had opened
  used        \* what the SDK has read as the model

Doctor == INSTANCE DoctorRun
Cache == INSTANCE ArtifactAcquisition
  WITH Session <- {"run"}, Old <- "old", NoFile <- "no-file", Quiescent <- TRUE

doctorVars ==
  <<at, signal, root, kin, code, wrote, kept, stops, timers, sweeps, heard, answer>>
cacheVars ==
  <<blob, partial, bytes, stuck, parent, outcome, pending, result, aborted,
    worker, seen, sent, exit, recovery>>
childVars == <<imported, step, opened, prior, used>>
vars == <<doctorVars, cacheVars, stage, verdict, sdk, reported, disk, childVars>>

Supported == "0.16.0"
Nothing == "nothing"

Init ==
  /\ Doctor!Init /\ Cache!Init
  /\ stage = "resolve" /\ verdict = "pending"
  /\ sdk \in {Supported, "other"} /\ reported = Nothing
  /\ disk = [leads |-> "private", bytes |-> "pinned", now |-> 0, file |-> 0, root |-> 0]
  /\ imported = Nothing /\ step = "none"
  /\ opened = <<>> /\ prior = <<>> /\ used = {}

Return(v) == stage' = "ended" /\ verdict' = v
GoOn(s) == stage' = s /\ UNCHANGED verdict

(* resolve: the installation is inspected, and bound to the handle.        *)
Resolve ==
  /\ stage = "resolve"
  /\ \/ sdk = Supported /\ GoOn("doctor") /\ reported' = sdk
     \/ \E v \in {"failed", "aborted"} : Return(v) /\ UNCHANGED reported
  /\ UNCHANGED <<doctorVars, cacheVars, sdk, disk, childVars>>

(* The catch of runDoctor looks for a cleanup that failed before it looks  *)
(* at the signal; a Doctor that was not cancelled is evidence of any kind. *)
DoctorVerdict_SignalFirst(found, cancelled) ==   \* mutant
  IF cancelled THEN "aborted"
  ELSE IF found = "cleanup-failed" THEN "preflight-failed"
  ELSE "completed"

DoctorVerdict(found, cancelled) ==
  IF found = "cleanup-failed" THEN "preflight-failed"
  ELSE IF cancelled THEN "aborted"
  ELSE "completed"

RunDoctor(Step) ==
  /\ stage = "doctor" /\ Step
  /\ IF answer' = "pending" THEN UNCHANGED <<stage, verdict>>
     ELSE LET v == DoctorVerdict(answer', signal') IN
            IF v = "completed" THEN GoOn("acquire") ELSE Return(v)
  /\ UNCHANGED <<cacheVars, sdk, reported, disk, childVars>>

(* The project's code may upgrade, break or repair the installation.       *)
ProjectCodeWrites ==
  /\ Doctor!Members
  /\ sdk' \in {Supported, "other"} \ {sdk}
  /\ UNCHANGED <<doctorVars, cacheVars, stage, verdict, reported, disk, childVars>>

(* runWorkload up to the grant: the code of the acquisition's error        *)
(* decides, whether the signal has fired or not.  Processes that an        *)
(* attempt left behind go on when it has answered.                         *)
Acquire(Step) ==
  /\ stage = "acquire" /\ Step
  /\ IF parent'["run"] # "done" THEN UNCHANGED <<stage, verdict, step>>
     ELSE IF result'["run"] = "granted" THEN GoOn("execute") /\ step' = "audit"
     ELSE /\ Return(IF result'["run"] = Cache!Aborted THEN "aborted" ELSE "preflight-failed")
          /\ UNCHANGED step
  /\ UNCHANGED <<doctorVars, sdk, reported, disk, imported, opened, prior, used>>

AcquisitionChild ==
  /\ stage \in {"acquire", "ended"}
  /\ Cache!WorkerStep("run") \/ Cache!Recover("run") \/ Cache!RecoveryDies("run")
  /\ UNCHANGED <<doctorVars, stage, verdict, sdk, reported, disk, childVars>>

---------------------------------------------------------------------------
(* The cache directory after the grant.  Its path may lead to another      *)
(* directory for a while; every change leaves its time on the file or on   *)
(* the directory that was changed.  That is so as long as the directory    *)
(* itself is moved: of a move further up its path no time would tell, and  *)
(* the model assumes that there is none.                                   *)
Touch(d) == disk' = [d EXCEPT !.now = @ + 1]
UserTouches ==
  /\ stage = "execute" /\ disk.now < MaxChanges
  /\ \/ \E b \in {"pinned", "other"} :
          Touch([disk EXCEPT !.bytes = b, !.file = disk.now + 1])
     \/ \E d \in {"private", "another", "none"} \ {disk.leads} :
          Touch([disk EXCEPT !.leads = d, !.root = disk.now + 1])
  /\ UNCHANGED <<doctorVars, cacheVars, stage, verdict, sdk, reported, childVars>>

OpenedFile == opened[2]
RootSnapshot == [leads |-> disk.leads, time |-> disk.root]
FileSnapshot ==
  [leads |-> disk.leads, time |-> IF disk.leads = "private" THEN disk.file ELSE 0]
BytesIn(directory) == IF directory = "private" THEN disk.bytes ELSE "other"

---------------------------------------------------------------------------
(* The child of the executor.                                              *)
Child(from, to) == stage = "execute" /\ step = from /\ step' = to
ChildOnly ==
  UNCHANGED <<doctorVars, cacheVars, stage, verdict, sdk, reported, disk>>

(* receiveSdkBootstrapAndImport: revalidateSdkBootstrap, then the import.  *)
AuditSdk_VersionOfHandle ==           \* mutant: the version sent with the handle
  /\ Child("audit", "import") /\ reported = Supported
  /\ UNCHANGED <<imported, opened, prior, used>> /\ ChildOnly

AuditSdk ==
  /\ Child("audit", "import") /\ sdk = Supported
  /\ UNCHANGED <<imported, opened, prior, used>> /\ ChildOnly

ImportSdk ==
  /\ Child("import", "open-root")
  /\ imported' = sdk
  /\ UNCHANGED <<opened, prior, used>> /\ ChildOnly

(* validateArtifactExecutionMaterial, from await to await: the directory   *)
(* and the file are opened, the bytes of the open file are hashed, and the *)
(* path is compared with what was opened.                                  *)
OpenRoot ==
  /\ Child("open-root", "open-file") /\ disk.leads # "none"
  /\ opened' = <<RootSnapshot>>
  /\ UNCHANGED <<imported, prior, used>> /\ ChildOnly

OpenFile ==
  /\ Child("open-file", "hash") /\ disk.leads # "none"
  /\ opened' = Append(opened, FileSnapshot)
  /\ UNCHANGED <<imported, prior, used>> /\ ChildOnly

Hash ==
  /\ Child("hash", "compare")
  /\ BytesIn(OpenedFile.leads) = "pinned"
  /\ UNCHANGED <<imported, opened, prior, used>> /\ ChildOnly

(* assertFileStable compares times, assertRootStable the identity only.    *)
Stable == OpenedFile = FileSnapshot /\ opened[1].leads = disk.leads

FirstValidation ==
  /\ Child("compare", "loaded")
  /\ prior = <<>> /\ Stable
  /\ prior' = opened
  /\ UNCHANGED <<imported, opened, used>> /\ ChildOnly

(* loadModel and completion read the model by its path when they like.     *)
ReadModel ==
  /\ Child("loaded", "loaded") /\ disk.leads # "none"
  /\ used' = used \cup {BytesIn(disk.leads)}
  /\ UNCHANGED <<imported, opened, prior>> /\ ChildOnly

(* unloadModel, close, and the second validation.                          *)
Unload ==
  /\ Child("loaded", "open-root")
  /\ UNCHANGED <<imported, opened, prior, used>> /\ ChildOnly

SameSnapshot_FileOnly == prior[2] = opened[2]   \* mutant
SameSnapshot == prior = opened

SecondValidation ==
  /\ Child("compare", "done")
  /\ prior # <<>> /\ Stable /\ SameSnapshot
  /\ Return("passed")
  /\ UNCHANGED <<doctorVars, cacheVars, sdk, reported, disk, imported, opened, prior, used>>

(* In every other case the workload ends otherwise: its child failed or    *)
(* was killed, a deadline was over, or the run was cancelled.              *)
Otherwise ==
  /\ stage = "execute"
  /\ \E v \in {"failed", "preflight-failed", "aborted"} : Return(v)
  /\ step' = "done"
  /\ UNCHANGED <<doctorVars, cacheVars, sdk, reported, disk, imported, opened, prior, used>>

ChildStep ==
  \/ AuditSdk \/ ImportSdk \/ OpenRoot \/ OpenFile \/ Hash
  \/ FirstValidation \/ ReadModel \/ Unload \/ SecondValidation

Next ==
  \/ Resolve
  \/ RunDoctor(Doctor!Next) \/ ProjectCodeWrites
  \/ Acquire(Cache!Begin("run") \/ Cache!CallerAborts("run") \/ Cache!SupervisorStep("run"))
  \/ AcquisitionChild
  \/ UserTouches \/ ChildStep \/ Otherwise

Spec == Init /\ [][Next]_vars

(* Calls to the file system return, timers fire, and the supervisor of the *)
(* workload decides (Decides of module ExecutorRun).  Nothing is asked of  *)
(* a child, of the project's code or of the source of the model.           *)
FairSpec ==
  /\ Spec
  /\ WF_vars(Resolve)
  /\ WF_vars(RunDoctor(Doctor!Locate))
  /\ WF_vars(RunDoctor(Doctor!Timeout))
  /\ WF_vars(RunDoctor(Doctor!Force))
  /\ WF_vars(RunDoctor(\E by \in {"force", "error", "close"} : Doctor!Swept(by)))
  /\ WF_vars(Acquire(Cache!Begin("run")))
  /\ WF_vars(Acquire(Cache!SupervisorStep("run")))
  /\ WF_vars(Otherwise)
---------------------------------------------------------------------------
(* The report names the SDK that was imported: what was audited before the *)
(* Doctor ran the project's code is audited again after it, and nobody of  *)
(* the Doctor's group is left to write between that audit and the import.  *)
ReportedSdkIsImported == imported # Nothing => imported = reported

(* A workload that passed has read the pinned bytes and no others as its   *)
(* model, although it reads by a path and the file or the directory may be *)
(* changed, and changed back, around and between the two validations.      *)
PassUsedPinned == verdict = "passed" => used \subseteq {"pinned"}

(* A run is called cancelled only when nothing of it is left: no process   *)
(* of the Doctor's group, no child of the acquisition and no partial file  *)
(* that it announced.  A cleanup that failed while the signal fired is not *)
(* covered by the cancellation.                                            *)
CancelledIsClean ==
  verdict = "aborted" =>
    /\ ~Doctor!Members
    /\ Cache!WorkerGone("run") /\ recovery["run"] # "active"
    /\ ~(Cache!Acknowledged("run") /\ "run" \in partial)

(* The coordinator's calls return, whatever the Doctor, the children and   *)
(* the user do, and even if nothing can be killed.                         *)
Ends == <>(stage = "ended")

EvidenceIsReal == Doctor!EvidenceIsReal
ImplementsContainedRun == Doctor!ImplementsContainedRun
=============================================================================
