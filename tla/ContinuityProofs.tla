-------------------------- MODULE ContinuityProofs --------------------------
(***************************************************************************)
(* Proofs about the coordinator's continuity, for any number of changes    *)
(* that the user makes: a workload that passed has read the pinned bytes   *)
(* only, the SDK that is reported is the one that was imported, what the   *)
(* Doctor is said to have found is real, and a run that is called          *)
(* cancelled has left nothing behind.                                      *)
(***************************************************************************)
EXTENDS Continuity, SequenceTheorems, TLAPS

---------------------------------------------------------------------------
(* The model.                                                              *)

Directory == {"private", "another", "none"}
Snapshot == [leads : Directory, time : Nat]
Disk == [leads : Directory, bytes : {"pinned", "other"}, now : Nat, file : Nat, root : Nat]

RootOpened == {"open-file", "hash", "compare"}
FileOpened == {"hash", "compare"}

(* The variables that the model is about have their types, and no time is  *)
(* later than now.                                                         *)
ModelTypeOK ==
  /\ disk \in Disk /\ disk.file <= disk.now /\ disk.root <= disk.now
  /\ opened \in Seq(Snapshot) /\ prior \in Seq(Snapshot)
  /\ step \in RootOpened => Len(opened) >= 1
  /\ step = "open-file" => Len(opened) = 1
  /\ step \in FileOpened => Len(opened) = 2

(* What is open is not newer than the disk, and a file that was hashed and *)
(* not changed since has the pinned bytes.                                 *)
OpenedInv ==
  /\ step \in RootOpened => opened[1].time <= disk.root
  /\ step \in FileOpened => opened[2].time <= disk.file
  /\ step = "compare" =>
       /\ opened[2].leads = "private"
       /\ opened[2].time = disk.file => disk.bytes = "pinned"

(* The same of the first validation, after which nothing but the pinned    *)
(* bytes was read as long as neither time has changed.                     *)
Unchanged == prior[1].time = disk.root /\ prior[2].time = disk.file
PriorInv ==
  /\ prior = <<>> => used = {} /\ step # "loaded"
  /\ prior # <<>> =>
       /\ Len(prior) = 2
       /\ prior[1].time <= disk.root /\ prior[2].time <= disk.file
       /\ prior[2].leads = "private"
       /\ Unchanged =>
            used \subseteq {"pinned"} /\ disk.leads = "private" /\ disk.bytes = "pinned"

(* The second validation, from the moment it has the directory open: the   *)
(* directory's time is compared as it was then, the file's as it is.       *)
SecondInv ==
  /\ prior # <<>> /\ step \in RootOpened
  /\ opened[1].time = prior[1].time /\ prior[2].time = disk.file
  => used \subseteq {"pinned"}

EndInv == verdict = "passed" => stage = "ended"

ModelInv ==
  ModelTypeOK /\ OpenedInv /\ PriorInv /\ SecondInv /\ EndInv /\ PassUsedPinned

LEMMA ModelInit == Init => ModelInv
<1> SUFFICES ASSUME Init PROVE ModelInv
  OBVIOUS
<1>1. /\ disk = [leads |-> "private", bytes |-> "pinned", now |-> 0, file |-> 0, root |-> 0]
      /\ opened = <<>> /\ prior = <<>> /\ used = {} /\ step = "none" /\ verdict = "pending"
  BY DEF Init
<1>2. <<>> \in Seq(Snapshot)
  OBVIOUS
<1> QED
  BY <1>1, <1>2
     DEF ModelInv, ModelTypeOK, OpenedInv, PriorInv, SecondInv, EndInv, PassUsedPinned,
         Disk, Directory, RootOpened, FileOpened

(* What the steps of the other stages leave to the model.                  *)
Aside ==
  /\ UNCHANGED <<disk, opened, prior, used>>
  /\ step' = step \/ step' = "audit" \/ step' = "done"
  /\ verdict' # "passed" \/ (UNCHANGED <<verdict, stage>>)

LEMMA AsideKeeps == ASSUME ModelInv, Aside PROVE ModelInv'
<1>1. ModelTypeOK' /\ OpenedInv' /\ PriorInv'
  BY DEF Aside, ModelInv, ModelTypeOK, OpenedInv, PriorInv, Unchanged, RootOpened, FileOpened
<1>2. SecondInv'
  BY DEF Aside, ModelInv, SecondInv, RootOpened
<1>3. EndInv' /\ PassUsedPinned'
  BY DEF Aside, ModelInv, EndInv, PassUsedPinned
<1> QED  BY <1>1, <1>2, <1>3 DEF ModelInv

LEMMA TwoSnapshots ==
  ASSUME NEW s \in Seq(Snapshot), Len(s) = 2
  PROVE  s[1] \in Snapshot /\ s[2] \in Snapshot
<1>1. 1 \in 1 .. Len(s) /\ 2 \in 1 .. Len(s)
  OBVIOUS
<1> QED  BY <1>1, ElementOfSeq

LEMMA UserTouchesKeeps == ASSUME ModelInv, UserTouches PROVE ModelInv'
<1>1. /\ disk' \in Disk /\ disk'.now = disk.now + 1
      /\ \/ disk'.file = disk.now + 1 /\ disk'.root = disk.root
         \/ /\ disk'.root = disk.now + 1 /\ disk'.file = disk.file
            /\ disk'.bytes = disk.bytes
  <2>1. disk \in Disk
    BY DEF ModelInv, ModelTypeOK
  <2>2. CASE \E b \in {"pinned", "other"} :
                Touch([disk EXCEPT !.bytes = b, !.file = disk.now + 1])
    <3>1. PICK b \in {"pinned", "other"} :
                Touch([disk EXCEPT !.bytes = b, !.file = disk.now + 1])
      BY <2>2
    <3> DEFINE d == [disk EXCEPT !.bytes = b, !.file = disk.now + 1]
    <3>2. d \in Disk /\ d.now = disk.now /\ d.file = disk.now + 1 /\ d.root = disk.root
      <4>1. disk.now + 1 \in Nat
        BY <2>1 DEF Disk
      <4> QED  BY <2>1, <4>1 DEF Disk
    <3>3. disk' = [d EXCEPT !.now = d.now + 1]
      BY <3>1 DEF Touch
    <3> HIDE DEF d
    <3> QED  BY <3>2, <3>3 DEF Disk
  <2>3. CASE \E d \in {"private", "another", "none"} \ {disk.leads} :
                Touch([disk EXCEPT !.leads = d, !.root = disk.now + 1])
    <3>1. PICK d \in Directory : Touch([disk EXCEPT !.leads = d, !.root = disk.now + 1])
      BY <2>3 DEF Directory
    <3> DEFINE e == [disk EXCEPT !.leads = d, !.root = disk.now + 1]
    <3>2. /\ e \in Disk /\ e.now = disk.now /\ e.root = disk.now + 1
          /\ e.file = disk.file /\ e.bytes = disk.bytes
      <4>1. disk.now + 1 \in Nat
        BY <2>1 DEF Disk
      <4> QED  BY <2>1, <4>1 DEF Disk
    <3>3. disk' = [e EXCEPT !.now = e.now + 1]
      BY <3>1 DEF Touch
    <3> HIDE DEF e
    <3> QED  BY <3>2, <3>3 DEF Disk
  <2> QED  BY <2>2, <2>3 DEF UserTouches
<1>2. UNCHANGED <<opened, prior, used, step, verdict, stage>>
  BY DEF UserTouches, childVars
<1>3. disk.now \in Nat /\ disk.file \in Nat /\ disk.root \in Nat
  BY DEF ModelInv, ModelTypeOK, Disk
<1>4. ModelTypeOK'
  BY <1>1, <1>2, <1>3 DEF ModelInv, ModelTypeOK, RootOpened, FileOpened
<1>5. OpenedInv'
  <2>1. step \in RootOpened => opened[1] \in Snapshot
    BY DEF ModelInv, ModelTypeOK
  <2>2. step \in FileOpened => opened[2] \in Snapshot
    BY TwoSnapshots DEF ModelInv, ModelTypeOK
  <2>3. step \in RootOpened => opened[1].time <= disk'.root
    BY <1>1, <1>3, <2>1 DEF ModelInv, ModelTypeOK, OpenedInv, Snapshot
  <2>4. step \in FileOpened => opened[2].time <= disk'.file
    BY <1>1, <1>3, <2>2 DEF ModelInv, ModelTypeOK, OpenedInv, Snapshot
  <2>5. ASSUME step = "compare", opened[2].time = disk'.file
        PROVE  disk'.bytes = "pinned"
    <3>1. opened[2].time \in Nat /\ opened[2].time <= disk.now
      BY <1>3, <2>2, <2>5 DEF ModelInv, ModelTypeOK, OpenedInv, Snapshot, FileOpened
    <3>2. disk'.file = disk.file /\ disk'.bytes = disk.bytes
      BY <1>1, <1>3, <2>5, <3>1
    <3> QED  BY <2>5, <3>2 DEF ModelInv, OpenedInv
  <2> QED
    BY <1>2, <2>3, <2>4, <2>5 DEF ModelInv, OpenedInv
<1>6. prior # <<>> => prior[1] \in Snapshot /\ prior[2] \in Snapshot
  BY TwoSnapshots DEF ModelInv, ModelTypeOK, PriorInv
<1>7. PriorInv'
  <2>1. prior # <<>> =>
          /\ prior[1].time \in Nat /\ prior[1].time <= disk.root
          /\ prior[2].time \in Nat /\ prior[2].time <= disk.file
    BY <1>6 DEF ModelInv, PriorInv, Snapshot
  <2>2. disk.file <= disk.now /\ disk.root <= disk.now
    BY DEF ModelInv, ModelTypeOK
  <2>3. prior # <<>> =>
          prior[1].time <= disk'.root /\ prior[2].time <= disk'.file
    BY <1>1, <1>3, <2>1, <2>2
  <2>4. prior # <<>> => ~(prior[1].time = disk'.root /\ prior[2].time = disk'.file)
    BY <1>1, <1>3, <2>1, <2>2
  <2> QED  BY <1>2, <2>3, <2>4 DEF ModelInv, PriorInv, Unchanged
<1>8. SecondInv'
  BY <1>1, <1>2, <1>3, <1>6
     DEF ModelInv, ModelTypeOK, PriorInv, SecondInv, Snapshot, RootOpened
<1>9. EndInv' /\ PassUsedPinned'
  BY <1>2 DEF ModelInv, EndInv, PassUsedPinned
<1> QED  BY <1>4, <1>5, <1>7, <1>8, <1>9 DEF ModelInv

LEMMA RootSnapshotIs ==
  ASSUME ModelInv
  PROVE  RootSnapshot \in Snapshot /\ RootSnapshot.time = disk.root
BY DEF ModelInv, ModelTypeOK, RootSnapshot, Snapshot, Disk

LEMMA FileSnapshotIs ==
  ASSUME ModelInv
  PROVE  /\ FileSnapshot \in Snapshot /\ FileSnapshot.leads = disk.leads
         /\ FileSnapshot.time <= disk.file
         /\ disk.leads = "private" => FileSnapshot.time = disk.file
BY DEF ModelInv, ModelTypeOK, FileSnapshot, Snapshot, Disk

LEMMA OpenRootKeeps == ASSUME ModelInv, OpenRoot PROVE ModelInv'
<1>1. /\ step' = "open-file" /\ opened' = <<RootSnapshot>>
      /\ UNCHANGED <<disk, prior, used, verdict, stage>>
  BY DEF OpenRoot, Child, ChildOnly
<1>2. RootSnapshot \in Snapshot /\ RootSnapshot.time = disk.root
  BY RootSnapshotIs
<1>3. opened' \in Seq(Snapshot) /\ Len(opened') = 1 /\ opened'[1] = RootSnapshot
  BY <1>1, <1>2
<1>4. ModelTypeOK' /\ OpenedInv'
  BY <1>1, <1>2, <1>3
     DEF ModelInv, ModelTypeOK, OpenedInv, Disk, RootOpened, FileOpened
<1>5. PriorInv'
  BY <1>1 DEF ModelInv, PriorInv, Unchanged
<1>6. SecondInv'
  BY <1>1, <1>2, <1>3 DEF ModelInv, PriorInv, Unchanged, SecondInv
<1>7. EndInv' /\ PassUsedPinned'
  BY <1>1 DEF ModelInv, EndInv, PassUsedPinned
<1> QED  BY <1>4, <1>5, <1>6, <1>7 DEF ModelInv

LEMMA OpenFileKeeps == ASSUME ModelInv, OpenFile PROVE ModelInv'
<1>1. /\ step = "open-file" /\ step' = "hash" /\ opened' = Append(opened, FileSnapshot)
      /\ UNCHANGED <<disk, prior, used, verdict, stage>>
  BY DEF OpenFile, Child, ChildOnly
<1>2. FileSnapshot \in Snapshot /\ FileSnapshot.time <= disk.file
  BY FileSnapshotIs
<1>3. opened \in Seq(Snapshot) /\ Len(opened) = 1
  BY <1>1 DEF ModelInv, ModelTypeOK
<1>4. /\ opened' \in Seq(Snapshot) /\ Len(opened') = 2
      /\ opened'[1] = opened[1] /\ opened'[2] = FileSnapshot
  <2> DEFINE both == Append(opened, FileSnapshot)
  <2>1. 1 \in 1 .. Len(opened) /\ Len(opened) + 1 = 2
    BY <1>3
  <2>2. /\ both \in Seq(Snapshot) /\ Len(both) = Len(opened) + 1
        /\ \A i \in 1 .. Len(opened) : both[i] = opened[i]
        /\ both[Len(opened) + 1] = FileSnapshot
    BY <1>2, <1>3, AppendProperties, ZenonT(30)
  <2> HIDE DEF both
  <2>3. Len(both) = 2 /\ both[1] = opened[1] /\ both[2] = FileSnapshot
    BY <2>1, <2>2
  <2>4. opened' = both
    BY <1>1 DEF both
  <2> QED  BY <2>2, <2>3, <2>4
<1>5. ModelTypeOK' /\ OpenedInv'
  BY <1>1, <1>2, <1>4
     DEF ModelInv, ModelTypeOK, OpenedInv, RootOpened, FileOpened
<1>6. PriorInv'
  BY <1>1 DEF ModelInv, PriorInv, Unchanged
<1>7. SecondInv'
  BY <1>1, <1>4 DEF ModelInv, SecondInv, RootOpened
<1>8. EndInv' /\ PassUsedPinned'
  BY <1>1 DEF ModelInv, EndInv, PassUsedPinned
<1> QED  BY <1>5, <1>6, <1>7, <1>8 DEF ModelInv

LEMMA HashKeeps == ASSUME ModelInv, Hash PROVE ModelInv'
<1>1. /\ step = "hash" /\ step' = "compare"
      /\ BytesIn(opened[2].leads) = "pinned"
      /\ UNCHANGED <<disk, opened, prior, used, verdict, stage>>
  BY DEF Hash, Child, ChildOnly, OpenedFile
<1>2. opened[2].leads = "private" /\ disk.bytes = "pinned"
  BY <1>1 DEF BytesIn
<1>3. ModelTypeOK' /\ OpenedInv'
  BY <1>1, <1>2 DEF ModelInv, ModelTypeOK, OpenedInv, RootOpened, FileOpened
<1>4. PriorInv' /\ SecondInv'
  BY <1>1 DEF ModelInv, PriorInv, Unchanged, SecondInv, RootOpened
<1>5. EndInv' /\ PassUsedPinned'
  BY <1>1 DEF ModelInv, EndInv, PassUsedPinned
<1> QED  BY <1>3, <1>4, <1>5 DEF ModelInv

(* At the comparison: the path leads to what was opened, and the file has  *)
(* not been changed since.                                                 *)
LEMMA StableIs ==
  ASSUME ModelInv, step = "compare", Stable
  PROVE  /\ disk.leads = "private" /\ opened[2].time = disk.file
         /\ disk.bytes = "pinned" /\ opened[1].leads = "private"
<1>1. opened[2] = FileSnapshot /\ opened[1].leads = disk.leads
  BY DEF Stable, OpenedFile
<1>2. opened[2].leads = "private" /\ (opened[2].time = disk.file => disk.bytes = "pinned")
  BY DEF ModelInv, OpenedInv
<1> QED  BY <1>1, <1>2, FileSnapshotIs

LEMMA FirstValidationKeeps == ASSUME ModelInv, FirstValidation PROVE ModelInv'
<1>1. /\ step = "compare" /\ step' = "loaded" /\ prior = <<>> /\ prior' = opened /\ Stable
      /\ UNCHANGED <<disk, opened, used, verdict, stage>>
  BY DEF FirstValidation, Child, ChildOnly
<1>2. opened \in Seq(Snapshot) /\ Len(opened) = 2 /\ opened # <<>>
  BY <1>1 DEF ModelInv, ModelTypeOK, FileOpened
<1>3. ModelTypeOK' /\ OpenedInv'
  BY <1>1, <1>2 DEF ModelInv, ModelTypeOK, OpenedInv, RootOpened, FileOpened
<1>4. used = {}
  BY <1>1 DEF ModelInv, PriorInv
<1>5. PriorInv'
  BY <1>1, <1>2, <1>4, StableIs
     DEF ModelInv, OpenedInv, PriorInv, Unchanged, RootOpened, FileOpened
<1>6. SecondInv'
  BY <1>1 DEF SecondInv, RootOpened
<1>7. EndInv' /\ PassUsedPinned'
  BY <1>1 DEF ModelInv, EndInv, PassUsedPinned
<1> QED  BY <1>3, <1>5, <1>6, <1>7 DEF ModelInv

LEMMA ReadModelKeeps == ASSUME ModelInv, ReadModel PROVE ModelInv'
<1>1. /\ step = "loaded" /\ step' = "loaded" /\ stage = "execute"
      /\ used' = used \cup {BytesIn(disk.leads)}
      /\ UNCHANGED <<disk, opened, prior, verdict, stage>>
  BY DEF ReadModel, Child, ChildOnly
<1>2. ModelTypeOK' /\ OpenedInv' /\ SecondInv'
  BY <1>1 DEF ModelInv, ModelTypeOK, OpenedInv, SecondInv, RootOpened, FileOpened
<1>3. PriorInv'
  BY <1>1 DEF ModelInv, PriorInv, Unchanged, BytesIn
<1>4. EndInv' /\ PassUsedPinned'
  BY <1>1 DEF ModelInv, EndInv, PassUsedPinned
<1> QED  BY <1>2, <1>3, <1>4 DEF ModelInv

(* Steps of the child that move on and touch nothing of the model.         *)
LEMMA ChildMovesOn ==
  ASSUME ModelInv, step' \in {"import", "open-root"},
         UNCHANGED <<disk, opened, prior, used, verdict, stage>>
  PROVE  ModelInv'
<1>1. ModelTypeOK' /\ OpenedInv' /\ SecondInv'
  BY DEF ModelInv, ModelTypeOK, OpenedInv, SecondInv, RootOpened, FileOpened
<1>2. PriorInv'
  BY DEF ModelInv, PriorInv, Unchanged
<1>3. EndInv' /\ PassUsedPinned'
  BY DEF ModelInv, EndInv, PassUsedPinned
<1> QED  BY <1>1, <1>2, <1>3 DEF ModelInv

LEMMA SecondValidationKeeps == ASSUME ModelInv, SecondValidation PROVE ModelInv'
<1>1. /\ step = "compare" /\ step' = "done" /\ prior # <<>> /\ Stable /\ prior = opened
      /\ verdict' = "passed" /\ stage' = "ended"
      /\ UNCHANGED <<disk, opened, prior, used>>
  BY DEF SecondValidation, Child, Return, SameSnapshot
<1>2. used \subseteq {"pinned"}
  BY <1>1, StableIs DEF ModelInv, SecondInv, RootOpened
<1>3. ModelTypeOK' /\ OpenedInv' /\ SecondInv'
  BY <1>1 DEF ModelInv, ModelTypeOK, OpenedInv, SecondInv, RootOpened, FileOpened
<1>4. PriorInv'
  BY <1>1 DEF ModelInv, PriorInv, Unchanged
<1>5. EndInv' /\ PassUsedPinned'
  BY <1>1, <1>2 DEF EndInv, PassUsedPinned
<1> QED  BY <1>3, <1>4, <1>5 DEF ModelInv

---------------------------------------------------------------------------
(* The SDK.                                                                *)

(* Nobody of the Doctor's group is left when it has answered, unless the   *)
(* answer says so.                                                         *)
DoctorInv ==
  /\ at = "locate" => ~Doctor!Members
  /\ answer # "pending" => at = "done"
  /\ at = "done" => answer = "cleanup-failed" \/ ~Doctor!Members

(* Past the Doctor nobody writes to the SDK, and what the child imports it *)
(* has audited since.                                                      *)
SdkInv ==
  /\ stage = "resolve" => reported = Nothing
  /\ stage \in {"acquire", "execute"} =>
       /\ at = "done" /\ answer # "cleanup-failed"
  /\ stage \in {"doctor", "acquire", "execute"} => reported = Supported
  /\ stage \in {"resolve", "doctor", "acquire"} => imported = Nothing
  /\ stage = "execute" /\ step = "import" => sdk = Supported
  /\ imported # Nothing => imported = Supported /\ reported = Supported

ContinuityInv == DoctorInv /\ SdkInv

LEMMA DoctorStepKeeps == ASSUME DoctorInv, Doctor!Next PROVE DoctorInv'
<1> USE DEF DoctorInv, Doctor!Members
<1>1. CASE Doctor!Locate
  BY <1>1 DEF Doctor!Locate, Doctor!Finish, Doctor!group
<1>2. CASE Doctor!Abort
  BY <1>2 DEF Doctor!Abort, Doctor!group
<1>3. CASE Doctor!Timeout \/ Doctor!ReadOutput \/ Doctor!Force \/ Doctor!KillFails \/ Doctor!Close
  BY <1>3 DEF Doctor!Timeout, Doctor!ReadOutput, Doctor!Force, Doctor!KillFails,
              Doctor!Close, Doctor!group
<1>4. CASE \E by \in {"force", "error", "close"} : Doctor!Swept(by)
  BY <1>4 DEF Doctor!Swept, Doctor!Finish, Doctor!group
<1>5. CASE Doctor!WriteReport \/ Doctor!KinWrites
  BY <1>5 DEF Doctor!WriteReport, Doctor!KinWrites
<1>6. CASE Doctor!Fork \/ Doctor!KinDies \/ Doctor!RootExits
  BY <1>6 DEF Doctor!Fork, Doctor!KinDies, Doctor!RootExits
<1> QED
  BY <1>1, <1>2, <1>3, <1>4, <1>5, <1>6 DEF Doctor!Next

LEMMA DoctorAside ==
  ASSUME DoctorInv, UNCHANGED doctorVars
  PROVE  DoctorInv' /\ UNCHANGED <<at, answer>> /\ (Doctor!Members)' = Doctor!Members
BY DEF DoctorInv, Doctor!Members, doctorVars

---------------------------------------------------------------------------
(* The steps of the coordinator.                                           *)

Inv == ModelInv /\ ContinuityInv

LEMMA ResolveKeeps == ASSUME Inv, Resolve PROVE Inv'
<1>1. ModelInv'
  BY AsideKeeps
     DEF Inv, ModelInv, EndInv, Aside, Resolve, Return, GoOn, childVars
<1>2. DoctorInv' /\ SdkInv'
  BY DoctorAside
     DEF Inv, ContinuityInv, SdkInv, Resolve, Return, GoOn, childVars, Supported, Nothing
<1> QED  BY <1>1, <1>2 DEF Inv, ContinuityInv

LEMMA RunDoctorKeeps == ASSUME Inv, RunDoctor(Doctor!Next) PROVE Inv'
<1>1. ModelInv'
  BY AsideKeeps
     DEF Inv, ModelInv, EndInv, Aside, RunDoctor, DoctorVerdict, Return, GoOn, childVars
<1>2. DoctorInv'
  BY DoctorStepKeeps DEF Inv, ContinuityInv, RunDoctor
<1>3. SdkInv'
  BY <1>2
     DEF Inv, ContinuityInv, DoctorInv, SdkInv, RunDoctor, DoctorVerdict, Return, GoOn, childVars
<1> QED  BY <1>1, <1>2, <1>3 DEF Inv, ContinuityInv

LEMMA ProjectCodeKeeps == ASSUME Inv, ProjectCodeWrites PROVE Inv'
<1>1. ModelInv'
  BY AsideKeeps DEF Inv, Aside, ProjectCodeWrites, childVars
<1>2. DoctorInv'
  BY DoctorAside DEF Inv, ContinuityInv, ProjectCodeWrites
<1>3. stage # "execute"
  BY DEF Inv, ContinuityInv, DoctorInv, SdkInv, ProjectCodeWrites
<1>4. SdkInv'
  BY <1>3, DoctorAside
     DEF Inv, ContinuityInv, SdkInv, ProjectCodeWrites, childVars
<1> QED  BY <1>1, <1>2, <1>4 DEF Inv, ContinuityInv

LEMMA AcquireKeeps ==
  ASSUME Inv,
         Acquire(Cache!Begin("run") \/ Cache!CallerAborts("run") \/ Cache!SupervisorStep("run"))
  PROVE  Inv'
<1>1. ModelInv'
  BY AsideKeeps DEF Inv, ModelInv, EndInv, Aside, Acquire, Return, GoOn
<1>2. DoctorInv' /\ SdkInv'
  BY DoctorAside DEF Inv, ContinuityInv, SdkInv, Acquire, Return, GoOn
<1> QED  BY <1>1, <1>2 DEF Inv, ContinuityInv

LEMMA AcquisitionChildKeeps == ASSUME Inv, AcquisitionChild PROVE Inv'
<1>1. ModelInv'
  BY AsideKeeps DEF Inv, Aside, AcquisitionChild, childVars
<1>2. DoctorInv' /\ SdkInv'
  BY DoctorAside DEF Inv, ContinuityInv, SdkInv, AcquisitionChild, childVars
<1> QED  BY <1>1, <1>2 DEF Inv, ContinuityInv

LEMMA UserKeeps == ASSUME Inv, UserTouches PROVE Inv'
<1>1. ModelInv'
  BY UserTouchesKeeps DEF Inv
<1>2. DoctorInv' /\ SdkInv'
  BY DoctorAside DEF Inv, ContinuityInv, SdkInv, UserTouches, childVars
<1> QED  BY <1>1, <1>2 DEF Inv, ContinuityInv

LEMMA ChildStepKeeps == ASSUME Inv, ChildStep PROVE Inv'
<1>1. ModelInv'
  <2>1. CASE AuditSdk \/ ImportSdk \/ Unload
    BY <2>1, ChildMovesOn DEF Inv, AuditSdk, ImportSdk, Unload, Child, ChildOnly
  <2>2. CASE OpenRoot
    BY <2>2, OpenRootKeeps DEF Inv
  <2>3. CASE OpenFile
    BY <2>3, OpenFileKeeps DEF Inv
  <2>4. CASE Hash
    BY <2>4, HashKeeps DEF Inv
  <2>5. CASE FirstValidation
    BY <2>5, FirstValidationKeeps DEF Inv
  <2>6. CASE ReadModel
    BY <2>6, ReadModelKeeps DEF Inv
  <2>7. CASE SecondValidation
    BY <2>7, SecondValidationKeeps DEF Inv
  <2> QED  BY <2>1, <2>2, <2>3, <2>4, <2>5, <2>6, <2>7 DEF ChildStep
<1>2. DoctorInv' /\ UNCHANGED <<at, answer>>
  BY DoctorAside
     DEF Inv, ContinuityInv, ChildStep, AuditSdk, ImportSdk, OpenRoot, OpenFile, Hash,
         FirstValidation, ReadModel, Unload, SecondValidation, ChildOnly
<1>3. SdkInv'
  <2>1. CASE AuditSdk
    BY <2>1, <1>2 DEF Inv, ContinuityInv, SdkInv, AuditSdk, Child, ChildOnly
  <2>2. CASE ImportSdk
    BY <2>2, <1>2 DEF Inv, ContinuityInv, SdkInv, ImportSdk, Child, ChildOnly
  <2>3. CASE OpenRoot \/ OpenFile \/ Hash \/ FirstValidation \/ ReadModel \/ Unload
    BY <2>3, <1>2
       DEF Inv, ContinuityInv, SdkInv, OpenRoot, OpenFile, Hash, FirstValidation,
           ReadModel, Unload, Child, ChildOnly
  <2>4. CASE SecondValidation
    BY <2>4, <1>2 DEF Inv, ContinuityInv, SdkInv, SecondValidation, Child, Return
  <2> QED  BY <2>1, <2>2, <2>3, <2>4 DEF ChildStep
<1> QED  BY <1>1, <1>2, <1>3 DEF Inv, ContinuityInv

LEMMA OtherwiseKeeps == ASSUME Inv, Otherwise PROVE Inv'
<1>1. ModelInv'
  BY AsideKeeps DEF Inv, ModelInv, EndInv, Aside, Otherwise, Return
<1>2. DoctorInv' /\ SdkInv'
  BY DoctorAside DEF Inv, ContinuityInv, SdkInv, Otherwise, Return
<1> QED  BY <1>1, <1>2 DEF Inv, ContinuityInv

LEMMA InvHolds == Spec => []Inv
<1>1. Init => Inv
  <2> SUFFICES ASSUME Init PROVE Inv
    OBVIOUS
  <2>1. DoctorInv
    BY DEF Init, Doctor!Init, DoctorInv, Doctor!Members
  <2>2. SdkInv
    BY DEF Init, SdkInv
  <2> QED  BY <2>1, <2>2, ModelInit DEF Inv, ContinuityInv
<1>2. Inv /\ [Next]_vars => Inv'
  <2> SUFFICES ASSUME Inv, [Next]_vars PROVE Inv'
    OBVIOUS
  <2>1. CASE Next
    BY <2>1, ResolveKeeps, RunDoctorKeeps, ProjectCodeKeeps, AcquireKeeps,
       AcquisitionChildKeeps, UserKeeps, ChildStepKeeps, OtherwiseKeeps DEF Next
  <2>2. CASE UNCHANGED vars
    <3>1. ModelInv'
      BY <2>2, AsideKeeps DEF Inv, Aside, vars, childVars
    <3>2. DoctorInv' /\ SdkInv'
      BY <2>2, DoctorAside DEF Inv, ContinuityInv, SdkInv, vars, childVars
    <3> QED  BY <3>1, <3>2 DEF Inv, ContinuityInv
  <2> QED  BY <2>1, <2>2
<1> QED  BY <1>1, <1>2, PTL DEF Spec

(* Whatever the user does to the cache and however often, a workload that  *)
(* passed has read the pinned bytes only (executor-bridge.ts).             *)
THEOREM PassesUsedPinned == Spec => []PassUsedPinned
<1>1. Inv => PassUsedPinned
  BY DEF Inv, ModelInv
<1> QED  BY <1>1, InvHolds, PTL

(* Whatever the Doctor's processes write to the installation, the report   *)
(* names the SDK that the child imported (bootstrap.ts).                   *)
THEOREM ImportsAreReported == Spec => []ReportedSdkIsImported
<1>1. Inv => ReportedSdkIsImported
  BY DEF Inv, ContinuityInv, SdkInv, ReportedSdkIsImported
<1> QED  BY <1>1, InvHolds, PTL


---------------------------------------------------------------------------
(* The Doctor.                                                             *)

(* The code is passed on only by a sweep after "close", and from then on   *)
(* what was kept is what was written.                                      *)
JudgedInv ==
  /\ stops \subseteq {"abort", "timeout", "overflow"} /\ ("abort" \in stops => signal)
  /\ "close" \in sweeps => "close" \in heard
  /\ "close" \in heard => root = "gone" /\ kept \in {wrote, "cut"}
  /\ at = "locate" => root = "none"
  /\ at = "execute" => root # "none"
  /\ root \in {"none", "alive", "gone"}

ReportInv == DoctorInv /\ JudgedInv /\ EvidenceIsReal

LEMMA ReportInit == Doctor!Init => ReportInv
  BY DEF Doctor!Init, ReportInv, DoctorInv, Doctor!Members, JudgedInv, EvidenceIsReal,
     Doctor!EvidenceIsReal

\* What is judged passed, by a sweep that found the group gone.
LEMMA PassIsJudged ==
  ASSUME JudgedInv, NEW by \in {"force", "error", "close"}, by \in sweeps,
         Doctor!Judge(IF by = "close" THEN code ELSE Doctor!NoCode) = "passed"
  PROVE  stops = {} /\ code = 0 /\ wrote = "passing" /\ ~signal
<1>1. ~signal /\ stops = {}
  BY DEF Doctor!Judge, JudgedInv
<1>2. Doctor!Reported(IF by = "close" THEN code ELSE Doctor!NoCode) = "passed"
  BY <1>1 DEF Doctor!Judge
<1>3. kept = "passing" /\ by = "close" /\ code = 0
  <2>1. kept = "passing" /\ (IF by = "close" THEN code ELSE Doctor!NoCode) = 0
    BY <1>2 DEF Doctor!Reported
  <2>2. Doctor!NoCode # 0
    BY DEF Doctor!NoCode
  <2> QED  BY <2>1, <2>2
<1> QED  BY <1>1, <1>3 DEF JudgedInv

LEMMA SignalIsJudged ==
  ASSUME NEW c, signal
  PROVE  Doctor!Judge(c) = "aborted"
  BY DEF Doctor!Judge

LEMMA ReportKept == ASSUME ReportInv, Doctor!Next PROVE ReportInv'
<1>1. DoctorInv'
  BY DoctorStepKeeps DEF ReportInv
<1> USE DEF ReportInv, DoctorInv, JudgedInv, EvidenceIsReal, Doctor!EvidenceIsReal, Doctor!Members,
        Doctor!group, Doctor!executor, Doctor!Executing
<1>2. CASE Doctor!Locate
  BY <1>1, <1>2 DEF Doctor!Locate, Doctor!Finish
<1>3. CASE Doctor!Abort
  BY <1>1, <1>3 DEF Doctor!Abort, Doctor!Stop
<1>4. CASE Doctor!Timeout \/ Doctor!ReadOutput
  <2>1. stops' = stops \/ stops' = {"timeout"} \/ stops' = {"overflow"}
    BY <1>4 DEF Doctor!Timeout, Doctor!ReadOutput, Doctor!Stop
  <2>2. /\ UNCHANGED <<at, signal, root, kin, code, wrote, sweeps, heard, answer>>
        /\ at = "execute"
        /\ kept' = kept \/ kept' \in {wrote, "cut"}
    BY <1>4 DEF Doctor!Timeout, Doctor!ReadOutput
  <2> QED  BY <1>1, <2>1, <2>2
<1>5. CASE Doctor!Force \/ Doctor!KillFails \/ Doctor!Close
  BY <1>1, <1>5 DEF Doctor!Force, Doctor!KillFails, Doctor!Close, Doctor!Closed, Doctor!Sweep
<1>6. CASE \E by \in {"force", "error", "close"} : Doctor!Swept(by)
  <2>1. PICK by \in {"force", "error", "close"} : Doctor!Swept(by)
    BY <1>6
  <2> DEFINE verdict0 == Doctor!Judge(IF by = "close" THEN code ELSE Doctor!NoCode)
  <2>2. /\ by \in sweeps /\ at' = "done" /\ UNCHANGED <<signal, root, kin, code, wrote, stops>>
        /\ sweeps' = {} /\ heard' = {} /\ at = "execute"
        /\ answer' = IF Doctor!Members THEN "cleanup-failed" ELSE verdict0
    BY <2>1 DEF Doctor!Swept, Doctor!Finish
  <2>3. verdict0 = "passed" => stops = {} /\ code = 0 /\ wrote = "passing" /\ ~signal
    BY <2>2, PassIsJudged
  <2>4. signal => verdict0 = "aborted"
    BY SignalIsJudged
  <2> HIDE DEF verdict0
  <2> QED  BY <1>1, <2>2, <2>3, <2>4
<1>7. CASE Doctor!WriteReport \/ Doctor!KinWrites
  BY <1>1, <1>7 DEF Doctor!WriteReport, Doctor!KinWrites
<1>8. CASE Doctor!Fork \/ Doctor!KinDies \/ Doctor!RootExits
  BY <1>1, <1>8 DEF Doctor!Fork, Doctor!KinDies, Doctor!RootExits
<1> QED
  BY <1>2, <1>3, <1>4, <1>5, <1>6, <1>7, <1>8 DEF Doctor!Next

\* A step of the coordinator is one of the Doctor or none of it.
LEMMA DoctorSteps ==
  ASSUME [Next]_vars
  PROVE  Doctor!Next \/ UNCHANGED doctorVars
  BY DEF Next, vars, Resolve, RunDoctor, ProjectCodeWrites, Acquire, AcquisitionChild, UserTouches,
     ChildStep, AuditSdk, ImportSdk, OpenRoot, OpenFile, Hash, FirstValidation, ReadModel, Unload,
     SecondValidation, ChildOnly, Otherwise

LEMMA ReportHolds == Spec => []ReportInv
<1>1. Init => ReportInv
  BY ReportInit DEF Init
<1>2. ReportInv /\ [Next]_vars => ReportInv'
  <2> SUFFICES ASSUME ReportInv, [Next]_vars PROVE ReportInv'
    OBVIOUS
  <2>1. CASE UNCHANGED doctorVars
    BY <2>1 DEF ReportInv, DoctorInv, JudgedInv, EvidenceIsReal, Doctor!EvidenceIsReal,
       Doctor!Members, doctorVars
  <2> QED  BY <2>1, DoctorSteps, ReportKept
<1> QED  BY <1>1, <1>2, PTL DEF Spec

(* In whatever order the Doctor's exit, its output, the timers, the        *)
(* signal and the sweeps come: nothing counts after the signal, and a      *)
(* passed Doctor is one that nothing stopped, that exited with 0 after its *)
(* report and nothing more, and of whose group nobody is left (doctor.ts). *)
THEOREM DoctorEvidence == Spec => []EvidenceIsReal
<1>1. ReportInv => EvidenceIsReal
  BY DEF ReportInv
<1> QED  BY <1>1, ReportHolds, PTL


---------------------------------------------------------------------------
(* The Doctor implements the contained run.                                *)

LEMMA DoctorContainedInit == Doctor!Init => Doctor!Contained!Init
  BY DEF Doctor!Init, Doctor!Contained!Init, Doctor!Members, Doctor!Conclusion

\* The first answer concludes.
LEMMA AnswerConcludes ==
  ASSUME ReportInv, ReportInv', at # "done", at' = "done",
         UNCHANGED <<root, kin, wrote>>, answer' # "pending",
         answer' # "cleanup-failed" => ~Doctor!Members,
         answer' \in {"passed", "failed", "timed-out"} => root # "none"
  PROVE  Doctor!Contained!Next
<1>1. Doctor!Conclusion = "none"
  BY DEF ReportInv, DoctorInv, Doctor!Conclusion
<1> PICK c : c = Doctor!Conclusion'
  OBVIOUS
<1>2. /\ c \in {"passed", "failed", "inconclusive", "cleanup-failed"}
      /\ c = "cleanup-failed" <=> answer' = "cleanup-failed"
      /\ c = "passed" <=> answer' = "passed"
      /\ c = "failed" => answer' \in {"failed", "timed-out"}
  BY DEF Doctor!Conclusion
<1>3. answer' = "passed" => wrote = "passing"
  BY DEF ReportInv, EvidenceIsReal, Doctor!EvidenceIsReal
<1>4. (Doctor!Members)' = Doctor!Members
  BY DEF Doctor!Members
<1>5. Doctor!Contained!Conclude(c)
  BY <1>1, <1>2, <1>3, <1>4 DEF Doctor!Contained!Conclude
<1> QED  BY <1>2, <1>5 DEF Doctor!Contained!Next

LEMMA DoctorContainedStep ==
  ASSUME ReportInv, ReportInv', Doctor!Next
  PROVE  [Doctor!Contained!Next]_(Doctor!Contained!vars)
<1> USE DEF Doctor!Members, Doctor!group, Doctor!executor, Doctor!Executing
<1>1. CASE Doctor!Locate
  <2>1. CASE root' = "alive"
    <3>1. /\ root = "none" /\ ~Doctor!Members /\ (Doctor!Members)'
          /\ answer = "pending" /\ UNCHANGED <<wrote, answer>>
      BY <1>1, <2>1 DEF Doctor!Locate, Doctor!Finish, ReportInv, DoctorInv, JudgedInv
    <3>2. Doctor!Contained!Begin
      BY <2>1, <3>1 DEF Doctor!Contained!Begin, Doctor!Conclusion
    <3> QED  BY <3>2 DEF Doctor!Contained!Next
  <2>2. CASE root' # "alive"
    <3>1. /\ at = "locate" /\ at' = "done" /\ UNCHANGED <<root, kin, wrote>>
          /\ answer' \in {"aborted", "unavailable", "unknown"}
      BY <1>1, <2>2 DEF Doctor!Locate, Doctor!Finish
    <3>2. ~Doctor!Members
      BY <3>1 DEF ReportInv, DoctorInv
    <3> QED  BY <3>1, <3>2, AnswerConcludes
  <2> QED  BY <2>1, <2>2
<1>2. CASE \E by \in {"force", "error", "close"} : Doctor!Swept(by)
  <2>1. PICK by \in {"force", "error", "close"} : Doctor!Swept(by)
    BY <1>2
  <2> DEFINE judged == Doctor!Judge(IF by = "close" THEN code ELSE Doctor!NoCode)
  <2>2. judged \in {"aborted", "timed-out", "unknown", "passed", "failed"}
    BY DEF Doctor!Judge, Doctor!Reported
  <2>3. /\ at = "execute" /\ at' = "done" /\ UNCHANGED <<root, kin, wrote>>
        /\ answer' = IF Doctor!Members THEN "cleanup-failed" ELSE judged
    BY <2>1 DEF Doctor!Swept, Doctor!Finish
  <2> HIDE DEF judged
  <2>4. root # "none"
    BY <2>3 DEF ReportInv, JudgedInv
  <2> QED  BY <2>2, <2>3, <2>4, AnswerConcludes
<1>3. CASE Doctor!WriteReport \/ Doctor!KinWrites
  <2>1. /\ UNCHANGED <<root, kin, answer>> /\ Doctor!Members
        /\ wrote' \in Doctor!Follows(wrote)
    BY <1>3 DEF Doctor!WriteReport, Doctor!KinWrites
  <2>2. \/ wrote \in {"passing", "overdone"} <=> wrote' \in {"passing", "overdone"}
        \/ wrote = "nothing" /\ wrote' = "passing"
    BY <2>1 DEF Doctor!Follows
  <2> QED
    BY <2>1, <2>2 DEF Doctor!Contained!Next, Doctor!Contained!Advance, Doctor!Contained!vars,
                      Doctor!Conclusion
<1>4. CASE Doctor!Fork \/ Doctor!KinDies \/ Doctor!RootExits
  <2>1. /\ UNCHANGED <<wrote, answer>> /\ Doctor!Members /\ (root' = "none" <=> root = "none")
    BY <1>4 DEF Doctor!Fork, Doctor!KinDies, Doctor!RootExits
  <2> QED
    BY <2>1 DEF Doctor!Contained!Next, Doctor!Contained!Vanish, Doctor!Contained!vars,
                Doctor!Conclusion
<1>5. CASE \/ Doctor!Abort \/ Doctor!Timeout \/ Doctor!ReadOutput \/ Doctor!Force
           \/ Doctor!KillFails \/ Doctor!Close
  <2>1. UNCHANGED <<root, kin, wrote, answer>>
    BY <1>5 DEF Doctor!Abort, Doctor!Timeout, Doctor!ReadOutput, Doctor!Force, Doctor!KillFails,
                Doctor!Close
  <2> QED  BY <2>1 DEF Doctor!Contained!vars, Doctor!Conclusion
<1> QED
  BY <1>1, <1>2, <1>3, <1>4, <1>5 DEF Doctor!Next

(* The Doctor keeps the promise that the workload keeps as well: started   *)
(* at most once, concluded once, about a group that is gone unless the     *)
(* conclusion is that cleaning up failed, and passed only after its report.*)
THEOREM DoctorIsContained == Spec => ImplementsContainedRun
<1>1. Init => Doctor!Contained!Init
  BY DoctorContainedInit DEF Init
<1>2. ReportInv /\ ReportInv' /\ [Next]_vars => [Doctor!Contained!Next]_(Doctor!Contained!vars)
  <2> SUFFICES ASSUME ReportInv, ReportInv', [Next]_vars
               PROVE  [Doctor!Contained!Next]_(Doctor!Contained!vars)
    OBVIOUS
  <2>1. CASE UNCHANGED doctorVars
    BY <2>1 DEF doctorVars, Doctor!Contained!vars, Doctor!Conclusion, Doctor!Members
  <2> QED  BY <2>1, DoctorSteps, DoctorContainedStep
<1> QED
  BY <1>1, <1>2, ReportHolds, PTL
     DEF Spec, ImplementsContainedRun, Doctor!ImplementsContainedRun, Doctor!Contained!Spec


---------------------------------------------------------------------------
(* The acquisition within the continuity is the one its own theorems are   *)
(* about, for one attempt.                                                 *)
Acquisition == INSTANCE ArtifactAcquisitionProofs
  WITH Session <- {"run"}, Old <- "old", NoFile <- "no-file", Quiescent <- TRUE

LEMMA SameWorker == \A s : Cache!WorkerStep(s) => Acquisition!WorkerStep(s)
  BY DEF Cache!WorkerStep, Cache!At, Cache!Goes, Cache!Says, Cache!Accept, Cache!LookMiss,
     Cache!LookFound, Cache!OpenCache, Cache!HashCache, Cache!CheckCapacity, Cache!Stage,
     Cache!AnnounceStaging, Cache!Stream, Cache!Link, Cache!AnnounceLink, Cache!UnlinkStaging,
     Cache!ConfirmPublished, Cache!SyncDirectory, Cache!Recheck, Cache!SayReady,
     Cache!ReportSuccess, Cache!AfterFailure, Cache!Failing, Cache!Fail, Cache!SendFails,
     Cache!Unpublish, Cache!Unstage, Cache!Complain, Cache!WorkerExits, Cache!WorkerKilled,
     Cache!WorkerGone, Cache!Links, Cache!directoryVars, Cache!parentVars,
     Acquisition!WorkerStep, Acquisition!At, Acquisition!Goes, Acquisition!Says,
     Acquisition!Accept, Acquisition!LookMiss, Acquisition!LookFound, Acquisition!OpenCache,
     Acquisition!HashCache, Acquisition!CheckCapacity, Acquisition!Stage,
     Acquisition!AnnounceStaging, Acquisition!Stream, Acquisition!Link,
     Acquisition!AnnounceLink, Acquisition!UnlinkStaging, Acquisition!ConfirmPublished,
     Acquisition!SyncDirectory, Acquisition!Recheck, Acquisition!SayReady,
     Acquisition!ReportSuccess, Acquisition!AfterFailure, Acquisition!Failing,
     Acquisition!Fail, Acquisition!SendFails, Acquisition!Unpublish, Acquisition!Unstage,
     Acquisition!Complain, Acquisition!WorkerExits, Acquisition!WorkerKilled,
     Acquisition!WorkerGone, Acquisition!Links, Acquisition!directoryVars,
     Acquisition!parentVars

LEMMA SameLegality == \A m : Cache!LegalSequence(m) = Acquisition!LegalSequence(m)
  BY DEF Cache!LegalSequence, Cache!MaxMessages, Cache!HitStates, Cache!MissStates,
     Cache!Terminals, Cache!HasTerminal, Cache!States, Cache!LegalPrefix, Cache!ExactSuccess,
     Cache!LegalErrorPrefix, Cache!IsPrefix,
     Acquisition!LegalSequence, Acquisition!MaxMessages, Acquisition!HitStates,
     Acquisition!MissStates, Acquisition!Terminals, Acquisition!HasTerminal,
     Acquisition!States, Acquisition!LegalPrefix, Acquisition!ExactSuccess,
     Acquisition!LegalErrorPrefix, Acquisition!IsPrefix

LEMMA SameVerdict == \A s : Cache!Verdict(s) = Acquisition!Verdict(s)
<1>1. \A s : Cache!Cause(s) = Acquisition!Cause(s)
  BY SameLegality DEF Cache!Cause, Acquisition!Cause
<1>2. \A s : Cache!ExitVerdict(s) = Acquisition!ExitVerdict(s)
  BY DEF Cache!ExitVerdict, Cache!HasTerminal, Cache!Terminals, Cache!WorkerFailed,
     Cache!ChildError, Cache!ProtocolInvalid, Acquisition!ExitVerdict,
     Acquisition!HasTerminal, Acquisition!Terminals, Acquisition!WorkerFailed,
     Acquisition!ChildError, Acquisition!ProtocolInvalid
<1> QED
  BY <1>1, <1>2
     DEF Cache!Verdict, Cache!CleanupFailed, Cache!Aborted, Cache!TimedOut,
         Cache!ProtocolInvalid, Acquisition!Verdict, Acquisition!CleanupFailed,
         Acquisition!Aborted, Acquisition!TimedOut, Acquisition!ProtocolInvalid

LEMMA SameSupervisor == \A s : Cache!SupervisorStep(s) => Acquisition!SupervisorStep(s)
<1>1. \A s, o : Cache!Observe(s, o) => Acquisition!Observe(s, o)
  BY SameLegality
     DEF Cache!Observe, Cache!Violation, Cache!In, Cache!Enters, Cache!directoryVars,
         Cache!workerVars, Acquisition!Observe, Acquisition!Violation, Acquisition!In,
         Acquisition!Enters, Acquisition!directoryVars, Acquisition!workerVars
<1>2. \A s : Cache!Reaped(s) => Acquisition!Reaped(s)
  BY SameVerdict
     DEF Cache!Reaped, Cache!NeedsRecovery, Cache!Acknowledged, Cache!ChildError, Cache!Enters,
         Cache!Answer, Cache!directoryVars, Cache!workerVars,
         Acquisition!Reaped, Acquisition!NeedsRecovery, Acquisition!Acknowledged,
         Acquisition!ChildError, Acquisition!Enters, Acquisition!Answer,
         Acquisition!directoryVars, Acquisition!workerVars
<1>3. \A s : Cache!ReapFails(s) \/ Cache!RecoveryEnds(s) =>
               Acquisition!ReapFails(s) \/ Acquisition!RecoveryEnds(s)
  BY DEF Cache!ReapFails, Cache!RecoveryEnds, Cache!In, Cache!Enters, Cache!Answer,
     Cache!CleanupFailed, Cache!directoryVars, Cache!workerVars,
     Acquisition!ReapFails, Acquisition!RecoveryEnds, Acquisition!In, Acquisition!Enters,
     Acquisition!Answer, Acquisition!CleanupFailed, Acquisition!directoryVars,
     Acquisition!workerVars
<1> QED
  BY <1>1, <1>2, <1>3 DEF Cache!SupervisorStep, Acquisition!SupervisorStep

LEMMA SameCalls ==
  \A s : \/ Cache!Begin(s) \/ Cache!CallerAborts(s) \/ Cache!ParentLost(s)
         \/ Cache!Recover(s) \/ Cache!RecoveryDies(s)
         => \/ Acquisition!Begin(s) \/ Acquisition!CallerAborts(s)
            \/ Acquisition!ParentLost(s)
            \/ Acquisition!Recover(s) \/ Acquisition!RecoveryDies(s)
  BY DEF Cache!Begin, Cache!CallerAborts, Cache!ParentLost, Cache!Recoverable, Cache!Recover,
     Cache!RecoveryDies, Cache!Settled, Cache!In, Cache!Enters, Cache!Answer, Cache!Goes,
     Cache!Declined, Cache!Aborted, Cache!TimedOut, Cache!WorkerFailed, Cache!Links,
     Cache!WorkerGone, Cache!directoryVars, Cache!parentVars, Cache!workerVars,
     Acquisition!Begin, Acquisition!CallerAborts, Acquisition!ParentLost,
     Acquisition!Recoverable, Acquisition!Recover, Acquisition!RecoveryDies,
     Acquisition!Settled, Acquisition!In, Acquisition!Enters, Acquisition!Answer,
     Acquisition!Goes, Acquisition!Declined, Acquisition!Aborted, Acquisition!TimedOut,
     Acquisition!WorkerFailed, Acquisition!Links, Acquisition!WorkerGone,
     Acquisition!directoryVars, Acquisition!parentVars, Acquisition!workerVars

\* A step of the coordinator is one of the acquisition or none of it.
LEMMA AcquisitionSteps == ASSUME [Next]_vars PROVE [Cache!SessionStep("run")]_cacheVars
<1>1. CASE Acquire(\/ Cache!Begin("run") \/ Cache!CallerAborts("run")
                   \/ Cache!SupervisorStep("run"))
  BY <1>1 DEF Acquire, Cache!SessionStep
<1>2. CASE AcquisitionChild
  BY <1>2 DEF AcquisitionChild, Cache!SessionStep
<1> QED
  BY <1>1, <1>2
     DEF Next, vars, Resolve, RunDoctor, ProjectCodeWrites, UserTouches, ChildStep, AuditSdk,
         ImportSdk, OpenRoot, OpenFile, Hash, FirstValidation, ReadModel, Unload,
         SecondValidation, ChildOnly, Otherwise

LEMMA RunsAcquisition == Spec => Acquisition!Spec
<1>1. Init => Acquisition!Init
  BY DEF Init, Cache!Init, Cache!File, Acquisition!Init, Acquisition!File
<1>2. [Next]_vars => [Acquisition!Next]_(Acquisition!vars)
  <2> SUFFICES ASSUME [Next]_vars PROVE [Acquisition!Next]_(Acquisition!vars)
    OBVIOUS
  <2>1. CASE UNCHANGED cacheVars
    BY <2>1 DEF cacheVars, Acquisition!vars, Acquisition!directoryVars,
                Acquisition!parentVars, Acquisition!workerVars
  <2>2. CASE Cache!SessionStep("run")
    BY <2>2, SameWorker, SameSupervisor, SameCalls
       DEF Cache!SessionStep, Acquisition!Next, Acquisition!SessionStep
  <2> QED  BY <2>1, <2>2, AcquisitionSteps
<1> QED  BY <1>1, <1>2, PTL DEF Spec, Acquisition!Spec

LEMMA AcquisitionHolds == Spec => [](Acquisition!IInv /\ Cache!SettledClean)
<1>1. Acquisition!FilesDiffer /\ Acquisition!QuiescentAssumption
  BY DEF Acquisition!FilesDiffer, Acquisition!QuiescentAssumption
<1>2. Acquisition!Spec => []Acquisition!SettledClean
  BY <1>1, Acquisition!AnswersLeaveNothing
<1>3. Acquisition!Spec => []Acquisition!IInv
  BY <1>1, Acquisition!Inductive
<1>4. Acquisition!SettledClean => Cache!SettledClean
  BY DEF Cache!SettledClean, Cache!In, Cache!CleanupFailed, Cache!ChildError,
     Cache!WorkerGone, Cache!Acknowledged, Cache!Links,
     Acquisition!SettledClean, Acquisition!In, Acquisition!CleanupFailed,
     Acquisition!ChildError, Acquisition!WorkerGone, Acquisition!Acknowledged,
     Acquisition!Links
<1> QED  BY <1>2, <1>3, <1>4, RunsAcquisition, PTL

---------------------------------------------------------------------------
(* A cancelled run.                                                        *)

AnsweredWell ==
  parent["run"] = "done" /\ result["run"] \in {"granted", Cache!Aborted}

(* Where the acquisition is, by the stage.  The Doctor and the acquisition *)
(* of a cancelled run have answered, or did not begin.                     *)
CancelInv ==
  /\ stage \in {"resolve", "doctor"} => parent["run"] = "idle"
  /\ stage = "resolve" => at = "locate"
  /\ stage = "execute" => AnsweredWell
  /\ verdict = "aborted" =>
       /\ stage = "ended"
       /\ at = "locate" \/ (at = "done" /\ answer # "cleanup-failed")
       /\ parent["run"] = "idle" \/ AnsweredWell

LEMMA CancelInit == Init => CancelInv
  BY DEF Init, Doctor!Init, Cache!Init, CancelInv

\* The children of the acquisition do not answer for it.
LEMMA ChildrenAnswerNothing ==
  ASSUME Acquisition!IInv, AcquisitionChild
  PROVE  UNCHANGED <<parent, result>>
<1>1. CASE Cache!WorkerStep("run")
  <2>1. Acquisition!WorkerStep("run")
    BY <1>1, SameWorker
  <2>2. Acquisition!FilesDiffer /\ Acquisition!QuiescentAssumption
    BY DEF Acquisition!FilesDiffer, Acquisition!QuiescentAssumption
  <2> QED  BY <2>1, <2>2, Acquisition!WorkerFrame DEF Acquisition!IInv
<1>2. CASE Cache!Recover("run") \/ Cache!RecoveryDies("run")
  BY <1>2 DEF Cache!Recover, Cache!RecoveryDies, Cache!parentVars
<1> QED  BY <1>1, <1>2 DEF AcquisitionChild

LEMMA CancelKept ==
  ASSUME Inv, Inv', Acquisition!IInv, CancelInv, [Next]_vars
  PROVE  CancelInv'
<1> USE DEF CancelInv, AnsweredWell
<1>1. CASE Resolve
  BY <1>1 DEF Resolve, Return, GoOn, doctorVars, cacheVars
<1>2. CASE RunDoctor(Doctor!Next)
  <2>1. /\ stage = "doctor" /\ UNCHANGED parent
        /\ \/ UNCHANGED <<stage, verdict>>
           \/ stage' = "acquire" /\ UNCHANGED verdict
           \/ /\ stage' = "ended" /\ answer' # "pending"
              /\ verdict' = "aborted" => answer' # "cleanup-failed"
    BY <1>2 DEF RunDoctor, DoctorVerdict, Return, GoOn, cacheVars
  <2>2. answer' # "pending" => at' = "done"
    BY DEF Inv, ContinuityInv, DoctorInv
  <2> QED  BY <2>1, <2>2
<1>3. CASE ProjectCodeWrites
  BY <1>3 DEF ProjectCodeWrites, doctorVars, cacheVars
<1>4. CASE Acquire(\/ Cache!Begin("run") \/ Cache!CallerAborts("run")
                   \/ Cache!SupervisorStep("run"))
  <2>1. at = "done" /\ answer # "cleanup-failed"
    BY <1>4 DEF Acquire, Inv, ContinuityInv, SdkInv
  <2> QED  BY <1>4, <2>1 DEF Acquire, Return, GoOn, doctorVars
<1>5. CASE AcquisitionChild
  BY <1>5, ChildrenAnswerNothing DEF AcquisitionChild, doctorVars
<1>6. CASE UserTouches \/ UNCHANGED vars
  BY <1>6 DEF UserTouches, vars, doctorVars, cacheVars
<1>7. CASE ChildStep
  BY <1>7
     DEF ChildStep, AuditSdk, ImportSdk, OpenRoot, OpenFile, Hash, FirstValidation, ReadModel,
         Unload, SecondValidation, Child, ChildOnly, Return, doctorVars, cacheVars
<1>8. CASE Otherwise
  <2>1. at = "done" /\ answer # "cleanup-failed"
    BY <1>8 DEF Otherwise, Inv, ContinuityInv, SdkInv
  <2> QED  BY <1>8, <2>1 DEF Otherwise, Return, doctorVars, cacheVars
<1> QED
  BY <1>1, <1>2, <1>3, <1>4, <1>5, <1>6, <1>7, <1>8 DEF Next

\* Of an acquisition that did not begin there is nothing.
LEMMA IdleIsClean ==
  ASSUME Acquisition!IInv, parent["run"] = "idle"
  PROVE  /\ Cache!WorkerGone("run") /\ recovery["run"] # "active"
         /\ ~Cache!Acknowledged("run")
<1>1. worker["run"] = "none"
  BY DEF Acquisition!IInv, Acquisition!TypeInv, Acquisition!IdleInv
<1>2. recovery["run"] # "active"
  BY DEF Acquisition!IInv, Acquisition!AttemptInv, Acquisition!AnswerInv
<1>3. sent["run"] = <<>>
  <2>1. sent["run"] \in Seq(Acquisition!Tokens \cup Acquisition!Terminals)
    BY DEF Acquisition!IInv, Acquisition!TypeInv, Acquisition!TypeOK
  <2>2. Len(sent["run"]) <= 0
    BY <1>1 DEF Acquisition!IInv, Acquisition!TypeInv, Acquisition!SentInv, Acquisition!Budget
  <2> QED  BY <2>1, <2>2
<1> QED
  BY <1>1, <1>2, <1>3 DEF Cache!WorkerGone, Cache!Acknowledged

(* Wherever the signal finds the run: when it is called cancelled, nobody  *)
(* of the Doctor's group and no child of the acquisition is left, and no   *)
(* partial file that was announced (real-coordinator.ts).                  *)
THEOREM CancelledRunsAreClean == Spec => []CancelledIsClean
<1>1. Inv /\ Acquisition!IInv /\ Cache!SettledClean /\ CancelInv => CancelledIsClean
  <2> SUFFICES ASSUME Inv, Acquisition!IInv, Cache!SettledClean, CancelInv,
                      verdict = "aborted"
               PROVE  /\ ~Doctor!Members
                      /\ Cache!WorkerGone("run") /\ recovery["run"] # "active"
                      /\ ~(Cache!Acknowledged("run") /\ "run" \in partial)
    BY DEF CancelledIsClean
  <2>1. ~Doctor!Members
    BY DEF Inv, ContinuityInv, DoctorInv, CancelInv
  <2>2. CASE parent["run"] = "idle"
    BY <2>1, <2>2, IdleIsClean
  <2>3. CASE AnsweredWell
    BY <2>1, <2>3
       DEF AnsweredWell, Cache!SettledClean, Cache!In, Cache!CleanupFailed, Cache!ChildError,
           Cache!Aborted
  <2> QED  BY <2>2, <2>3 DEF CancelInv
<1>2. Inv /\ Inv' /\ Acquisition!IInv /\ CancelInv /\ [Next]_vars => CancelInv'
  BY CancelKept
<1> QED  BY <1>1, <1>2, CancelInit, InvHolds, AcquisitionHolds, PTL DEF Spec
=============================================================================
