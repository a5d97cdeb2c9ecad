------------------------------ MODULE DoctorRun ------------------------------
(***************************************************************************)
(* The project's own Doctor, as ProjectLocalDoctorAdapter runs it          *)
(* (packages/probe/src/doctor.ts): it is located, spawned at the head of a *)
(* process group, bounded by a timer and an output limit, ended with TERM  *)
(* and KILL, swept, and judged by its report.  The module has the POSIX    *)
(* branches, the only ones the real command reaches.                       *)
(*                                                                         *)
(* Several paths end the promise of execute: the sweep after the root      *)
(* closed, the one of the grace timer and the one after a failed kill may  *)
(* all be in progress; the first to finish decides.                        *)
(***************************************************************************)
EXTENDS Integers

VARIABLES
  at,        \* "locate", "execute", then "done"
  signal,    \* the caller's AbortSignal
  root,      \* the process spawned
  kin,       \* its group holds a descendant
  code,      \* how the root exited
  wrote,     \* what was written to stdout
  kept,      \* chunks, as far as the parent has read them
  stops,     \* timedOut, overflowed and aborted; one of them is set iff stopping
  timers,    \* timer and forceTimer, if armed
  sweeps,    \* calls of settleTerminatedTree in progress
  heard,     \* the once-listeners that have fired
  answer     \* what run() settles with

group == <<root, kin, code, wrote>>
executor == <<kept, stops, timers, sweeps, heard>>
vars == <<at, signal, group, executor, answer>>

NoCode == -1                   \* exitCode null, and every code that is not used
Code == {0, 1, NoCode}

Init ==
  /\ at = "locate" /\ answer = "pending"
  /\ signal = FALSE
  /\ root = "none" /\ kin = FALSE /\ code = NoCode
  /\ wrote = "nothing" /\ kept = "nothing"
  /\ stops = {} /\ timers = {} /\ sweeps = {} /\ heard = {}

Members == root = "alive" \/ kin
Executing == at = "execute"

(***************************************************************************)
(* The processes.  A report is a whole JSON document: what is written      *)
(* after it, by whomever, spoils it.  A root that is signalled exits with  *)
(* null, but it may also catch TERM and exit as it likes.                  *)
(***************************************************************************)
Follows(w) ==
  CASE w = "nothing" -> {"passing", "failing", "spoiled"}
    [] w = "passing" -> {"overdone"}
    [] w = "failing" -> {"spoiled"}
    [] OTHER -> {}

WriteReport ==
  /\ root = "alive"
  /\ wrote' \in Follows(wrote)
  /\ UNCHANGED <<at, signal, root, kin, code, executor, answer>>

(* A descendant that shares the pipe keeps "close" from firing; one that   *)
(* closed it does not.                                                     *)
KinWrites ==
  /\ kin /\ "close" \notin heard
  /\ wrote' \in Follows(wrote) \ {"passing", "failing"}
  /\ UNCHANGED <<at, signal, root, kin, code, executor, answer>>

Fork ==
  /\ root = "alive" /\ ~kin /\ kin' = TRUE
  /\ UNCHANGED <<at, signal, root, code, wrote, executor, answer>>

KinDies ==
  /\ kin /\ kin' = FALSE
  /\ UNCHANGED <<at, signal, root, code, wrote, executor, answer>>

RootExits ==
  /\ root = "alive" /\ root' = "gone"
  /\ code' \in Code
  /\ UNCHANGED <<at, signal, kin, wrote, executor, answer>>

(***************************************************************************)
(* finish, the check of the signal after execute, and normalizeDoctor.     *)
(***************************************************************************)
Reported(exitCode) ==
  IF kept = "passing" /\ exitCode = 0 THEN "passed"
  ELSE IF kept = "failing" /\ exitCode \in {0, 1} THEN "failed"
  ELSE "unknown"

Judge_Stopped(exitCode) ==            \* mutant: only its own abort is looked at
  IF "abort" \in stops THEN "aborted"
  ELSE IF "timeout" \in stops THEN "timed-out"
  ELSE IF "overflow" \in stops THEN "unknown"
  ELSE Reported(exitCode)

Judge(exitCode) ==
  IF signal THEN "aborted"
  ELSE IF "timeout" \in stops THEN "timed-out"
  ELSE IF "overflow" \in stops THEN "unknown"
  ELSE Reported(exitCode)

(* Only the first answer counts: output, sweeps and events that come later *)
(* are of no effect.                                                       *)
Finish(result) ==
  /\ at' = "done" /\ answer' = result
  /\ timers' = {} /\ sweeps' = {}
  /\ kept' = "nothing" /\ heard' = {}
  /\ UNCHANGED <<signal, group, stops>>

(* stop, once: the reason, TERM to the group, and the grace timer.         *)
(* `armed' are the timers its caller leaves armed.                         *)
Stop_TermOnly(reason, armed) ==       \* mutant: TERM, but no escalation
  IF stops # {}
    THEN timers' = armed /\ UNCHANGED stops
    ELSE stops' = {reason} /\ timers' = armed

Stop(reason, armed) ==
  IF stops # {}
    THEN timers' = armed /\ UNCHANGED stops
    ELSE stops' = {reason} /\ timers' = armed \cup {"force"}

(***************************************************************************)
(* ProjectLocalDoctorAdapter.run up to the spawn: nothing is spawned once  *)
(* the signal has fired.  A spawn that fails is an exit without a code.    *)
(***************************************************************************)
Locate ==
  /\ at = "locate"
  /\ \/ \E result \in IF signal THEN {"aborted"} ELSE {"unavailable", "unknown"} :
          Finish(result)
     \/ /\ ~signal
        /\ at' = "execute" /\ root' = "alive" /\ timers' = {"timeout"}
        /\ UNCHANGED <<signal, kin, code, wrote, kept, stops, sweeps, heard, answer>>

Abort ==
  /\ at # "done" /\ ~signal
  /\ signal' = TRUE
  /\ IF Executing THEN Stop("abort", timers) ELSE UNCHANGED <<stops, timers>>
  /\ UNCHANGED <<at, group, kept, sweeps, heard, answer>>

Timeout ==
  /\ Executing /\ "timeout" \in timers
  /\ Stop("timeout", timers \ {"timeout"})
  /\ UNCHANGED <<at, signal, group, kept, sweeps, heard, answer>>

(* stdout's data: kept, or beyond the limit, from where on nothing is.     *)
ReadOutput ==
  /\ Executing /\ kept \notin {wrote, "cut"}
  /\ \/ kept' = wrote /\ UNCHANGED <<stops, timers>>
     \/ kept' = "cut" /\ Stop("overflow", timers)
  /\ UNCHANGED <<at, signal, group, sweeps, heard, answer>>

(***************************************************************************)
(* settleTerminatedTree: KILL to the group, then a look at it every 20 ms  *)
(* until it is gone or the hard bound is over.                             *)
(***************************************************************************)
Sweep(by) == sweeps' = sweeps \cup {by}

(* The grace timer. *)
Force ==
  /\ Executing /\ "force" \in timers
  /\ timers' = timers \ {"force"} /\ Sweep("force")
  /\ UNCHANGED <<at, signal, group, kept, stops, heard, answer>>

(* child's "error": a signal could not be delivered. *)
KillFails ==
  /\ Executing /\ "error" \notin heard
  /\ stops # {} \/ sweeps # {}
  /\ heard' = heard \cup {"error"} /\ Sweep("error")
  /\ UNCHANGED <<at, signal, group, kept, stops, timers, answer>>

Closed == root = "gone" /\ kept \in {wrote, "cut"}

Close_Nominal ==                      \* mutant: a nominal exit is not swept
  /\ Executing /\ Closed /\ "close" \notin heard
  /\ IF stops = {} THEN Finish(Judge(code))
     ELSE /\ heard' = heard \cup {"close"} /\ Sweep("close")
          /\ UNCHANGED <<at, signal, group, kept, stops, timers, answer>>

(* child's "close": the root is gone and its output was read to the end.   *)
Close ==
  /\ Executing /\ Closed /\ "close" \notin heard
  /\ heard' = heard \cup {"close"} /\ Sweep("close")
  /\ UNCHANGED <<at, signal, group, kept, stops, timers, answer>>

(* Only the sweep after "close" passes the code on. *)
Swept(by) ==
  /\ Executing /\ by \in sweeps
  /\ Finish(IF Members THEN "cleanup-failed"
            ELSE Judge(IF by = "close" THEN code ELSE NoCode))

Next ==
  \/ Locate \/ Abort \/ Timeout \/ ReadOutput \/ Force \/ KillFails \/ Close
  \/ \E by \in {"force", "error", "close"} : Swept(by)
  \/ WriteReport \/ KinWrites \/ Fork \/ KinDies \/ RootExits

Spec == Init /\ [][Next]_vars

-----------------------------------------------------------------------------
(* What counts as evidence is real, in whatever order timers, signal,      *)
(* output and exit came: nothing counts once the signal has fired, and     *)
(* "passed" is a Doctor that nothing stopped and that exited with 0 after  *)
(* its whole report, with no word after it and nobody left behind.         *)
EvidenceIsReal ==
  /\ signal => answer \in {"pending", "aborted", "cleanup-failed"}
  /\ answer = "passed" => stops = {} /\ code = 0 /\ wrote = "passing" /\ ~Members

Conclusion ==
  CASE answer = "pending" -> "none"
    [] answer \in {"passed", "cleanup-failed"} -> answer
    [] answer \in {"failed", "timed-out"} -> "failed"
    [] OTHER -> "inconclusive"

Contained == INSTANCE ContainedRun
  WITH LastPhase <- 1, begun <- root # "none", members <- Members,
       done <- (IF wrote \in {"passing", "overdone"} THEN 1 ELSE 0),
       conclusion <- Conclusion

(* The Doctor keeps the promise the workload keeps: started once, and      *)
(* concluded once, about a group that no longer exists.                    *)
ImplementsContainedRun == Contained!Spec
=============================================================================
