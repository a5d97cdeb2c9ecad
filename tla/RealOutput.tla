----------------------------- MODULE RealOutput -----------------------------
(***************************************************************************)
(* BoundRealOutput.writeExclusive: a report is staged under a private name *)
(* beside its path, linked to the path if nothing is there, checked, and   *)
(* taken back if any step fails.  Processes share the path; each has a     *)
(* staging name and an inode of its own.  The outside is whoever else can  *)
(* write to that directory.                                                *)
(***************************************************************************)
EXTENDS Naturals

CONSTANTS
  Process,             \* runs of the CLI with one output path
  Absent, Outside,     \* what the path may name besides a process's inode
  RacesUnlink          \* the outside may act between a lstat and its unlink

ASSUME PathAssumption ==
  /\ Absent # Outside /\ Absent \notin Process /\ Outside \notin Process
  /\ RacesUnlink \in BOOLEAN

VARIABLES
  path,        \* Absent, Outside, or the process whose inode is linked there
  staging,     \* per process: its staging name exists
  bytes,       \* per process: content of its inode
  step,        \* per process: the call of writeExclusive it waits for
  tries,       \* per process: attempt of unlinkOwned on the path
  answer       \* per process: the status writeExclusive settles with

outputVars == <<path, staging, bytes, step, tries, answer>>

OutputInit ==
  /\ path \in {Absent, Outside}
  /\ staging = [p \in Process |-> FALSE]
  /\ bytes = [p \in Process |-> "none"]
  /\ step = [p \in Process |-> "idle"]
  /\ tries = [p \in Process |-> 0]
  /\ answer = [p \in Process |-> "none"]

At(p, s) == step[p] = s
To(p, s) == step' = [step EXCEPT ![p] = s]

Settle(p, a) == To(p, "settled") /\ answer' = [answer EXCEPT ![p] = a]

Linked_Checked(p) == step[p] \in {"unstage", "published", "commit"}

(* The catch block, once the inode is known: a process that has linked the *)
(* path takes that name back first, then its staging name.                 *)
Linked(p) == step[p] \in {"linked", "unstage", "published", "commit"}
Undo(p) ==
  /\ To(p, IF Linked(p) THEN "undo-look" ELSE "undo-staging")
  /\ UNCHANGED <<path, staging, bytes, tries, answer>>

(* open(staging, "wx+"): without a descriptor there is nothing to undo. *)
Open(p) ==
  /\ At(p, "open")
  /\ \/ /\ staging' = [staging EXCEPT ![p] = TRUE]
        /\ bytes' = [bytes EXCEPT ![p] = "partial"]
        /\ To(p, "fill") /\ UNCHANGED answer
     \/ Settle(p, "write-failed") /\ UNCHANGED <<staging, bytes>>
  /\ UNCHANGED <<path, tries>>

(* chmod, stat, write, sync and the check of the staged inode.  If stat    *)
(* fails here and again in the catch block, the inode stays unknown.       *)
Fill(p) ==
  /\ At(p, "fill")
  /\ \/ /\ bytes' = [bytes EXCEPT ![p] = "exact"] /\ To(p, "link")
        /\ UNCHANGED <<path, staging, tries, answer>>
     \/ Undo(p)
     \/ Settle(p, "cleanup-uncertain") /\ UNCHANGED <<path, staging, bytes, tries>>

(* link(staging, path): EEXIST if the path names anything at all. *)
Link(p) ==
  /\ At(p, "link")
  /\ \/ /\ path = Absent /\ path' = p /\ To(p, "linked")
        /\ UNCHANGED <<staging, bytes, tries, answer>>
     \/ Undo(p)

(* The path names the inode, twice linked, of the right size and mode.     *)
(* Tampering that keeps both passes; any of these calls may also fail.     *)
CheckLinked(p) ==
  /\ At(p, "linked")
  /\ \/ /\ path = p /\ To(p, "unstage")
        /\ UNCHANGED <<path, staging, bytes, tries, answer>>
     \/ Undo(p)

(* unlinkOwned on the staging name; it fails only if both attempts do. *)
Unstage(p) ==
  /\ At(p, "unstage")
  /\ \/ /\ staging' = [staging EXCEPT ![p] = FALSE] /\ To(p, "published")
        /\ UNCHANGED <<path, bytes, tries, answer>>
     \/ Undo(p)

CheckPublished(p) ==
  /\ At(p, "published")
  /\ \/ /\ path = p /\ ~staging[p] /\ To(p, "commit")
        /\ UNCHANGED <<path, staging, bytes, tries, answer>>
     \/ Undo(p)

(* After the sync of the directory, whose failure is ignored: identity,    *)
(* links, size and every byte.  Then the answer is "written", whether or   *)
(* not the descriptor can be closed.                                       *)
Commit(p) ==
  /\ At(p, "commit")
  /\ \/ /\ path = p /\ bytes[p] = "exact"
        /\ Settle(p, "written") /\ UNCHANGED <<path, staging, bytes, tries>>
     \/ Undo(p)

AttemptFails(p) ==
  /\ IF tries[p] = 0
       THEN To(p, "undo-look") /\ tries' = [tries EXCEPT ![p] = 1] /\ UNCHANGED answer
       ELSE Settle(p, "cleanup-uncertain") /\ UNCHANGED tries
  /\ UNCHANGED <<path, staging, bytes>>

UndoLook_ByName(p) ==
  /\ At(p, "undo-look")
  /\ To(p, IF path = Absent THEN "undo-staging" ELSE "undo-unlink")
  /\ UNCHANGED <<path, staging, bytes, tries, answer>>

UndoLook(p) ==
  /\ At(p, "undo-look")
  /\ \/ /\ To(p, IF path = p THEN "undo-unlink" ELSE "undo-staging")
        /\ UNCHANGED <<path, staging, bytes, tries, answer>>
     \/ AttemptFails(p)

(* unlink removes whatever the path names by now. *)
UndoUnlink(p) ==
  /\ At(p, "undo-unlink")
  /\ \/ /\ path' = Absent
        /\ To(p, IF path = Absent THEN "undo-staging" ELSE "undo-look-again")
        /\ UNCHANGED <<staging, bytes, tries, answer>>
     \/ AttemptFails(p)

(* The lstat that follows a successful unlink: its own inode cannot be     *)
(* there again, so only a failure of the call matters.                     *)
UndoLookAgain(p) ==
  /\ At(p, "undo-look-again")
  /\ \/ /\ To(p, "undo-staging") /\ UNCHANGED <<path, staging, bytes, tries, answer>>
     \/ Settle(p, "cleanup-uncertain") /\ UNCHANGED <<path, staging, bytes, tries>>

(* unlinkOwned(staging); a descriptor that would not close, or a name that *)
(* would not go, makes the answer uncertain.                               *)
UndoStaging(p) ==
  /\ At(p, "undo-staging")
  /\ \/ /\ staging' = [staging EXCEPT ![p] = FALSE]
        /\ \E a \in {"write-failed", "cleanup-uncertain"} : Settle(p, a)
     \/ Settle(p, "cleanup-uncertain") /\ UNCHANGED staging
  /\ UNCHANGED <<path, bytes, tries>>

WriteStep(p) ==
  \/ Open(p) \/ Fill(p) \/ Link(p) \/ CheckLinked(p) \/ Unstage(p)
  \/ CheckPublished(p) \/ Commit(p)
  \/ UndoLook(p) \/ UndoUnlink(p) \/ UndoLookAgain(p) \/ UndoStaging(p)

(* The outside creates, replaces or removes what the path names, or        *)
(* changes the content or the mode of a report that is there.              *)
MayInterfere == RacesUnlink \/ \A p \in Process : ~At(p, "undo-unlink")
Interfere ==
  /\ MayInterfere
  /\ \/ path' \in {Absent, Outside} /\ UNCHANGED bytes
     \/ /\ path \in Process
        /\ bytes' = [bytes EXCEPT ![path] = "changed"] /\ UNCHANGED path
  /\ UNCHANGED <<staging, step, tries, answer>>
=============================================================================
