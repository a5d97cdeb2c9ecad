---------------------------- MODULE ContainedRun ----------------------------
(***************************************************************************)
(* What a contained execution, of the workload or of the Doctor, promises  *)
(* to the rest of Atlas.  A set of processes is started at most once; it   *)
(* advances through its phases while they live; and the run is concluded   *)
(* once, about a group that no longer exists, unless the conclusion is     *)
(* that cleaning up failed.  Only a run that went through every phase is   *)
(* concluded passed.                                                       *)
(***************************************************************************)
EXTENDS Naturals

CONSTANT LastPhase

VARIABLES begun, members, done, conclusion

vars == <<begun, members, done, conclusion>>

Init ==
  /\ begun = FALSE
  /\ members = FALSE
  /\ done = 0
  /\ conclusion = "none"

Begin ==
  /\ ~begun /\ conclusion = "none"
  /\ begun' = TRUE /\ members' = TRUE
  /\ UNCHANGED <<done, conclusion>>

Advance ==
  /\ members /\ done < LastPhase
  /\ done' = done + 1
  /\ UNCHANGED <<begun, members, conclusion>>

Vanish ==
  /\ members /\ members' = FALSE
  /\ UNCHANGED <<begun, done, conclusion>>

Conclude(c) ==
  /\ conclusion = "none"
  /\ c # "cleanup-failed" => ~members
  /\ c \in {"passed", "failed"} => begun
  /\ c = "passed" => done = LastPhase
  /\ conclusion' = c
  /\ UNCHANGED <<begun, members, done>>

Next ==
  \/ Begin
  \/ Advance
  \/ Vanish
  \/ \E c \in {"passed", "failed", "inconclusive", "cleanup-failed"} : Conclude(c)

Spec == Init /\ [][Next]_vars
=============================================================================
