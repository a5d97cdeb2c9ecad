-------------------------- MODULE SubmissionQueue --------------------------
(***************************************************************************)
(* The private review queue of the relay: GitHubPrivateQueue.enqueue of    *)
(* github-queue.ts, called by the handler with a signal that fires on the  *)
(* caller's disconnect and after 12 s, and the GitHub repository it acts   *)
(* on, with the maintainers who review there.                              *)
(*   - A request is a slot that submits one report again and again: the    *)
(*     later submissions are the explicit replays of the document.         *)
(*   - Each call to GitHub is one action: what it reads or does, and the   *)
(*     decision on its answer.  A commit never changes, so the reads that  *)
(*     verify one are one action, after the one that read its name.        *)
(*   - Whatever the code throws on (a refused or lost answer, a commit     *)
(*     that is not the exact one, a full queue, the signal) is Fail: a     *)
(*     signal that fires rejects the wait or the call under way at once.   *)
(*   - The relay of a process stopping is the end of all of its requests.  *)
(***************************************************************************)
EXTENDS Naturals, FiniteSets

CONSTANTS
  Request, Digest, Process,
  DigestOf, ProcessOf,   \* the report of each request, the relay it reaches
  MaxPending,            \* ATLAS_QUEUE_MAX_PENDING
  MaxConcurrent,         \* ATLAS_RELAY_MAX_CONCURRENT
  MaxPulls,              \* bound: the pull requests of one branch
  LateEffects,           \* TRUE: GitHub may do what a call asked after the
                         \*   caller has given up on it
  MaxLate,               \* bound: such calls that are outstanding at a time
  Patient                \* the reports that maintainers leave alone while
                         \*   a relay is working on them

ASSUME QueueAssumption ==
  /\ IsFiniteSet(Request) /\ IsFiniteSet(Digest) /\ IsFiniteSet(Process)
  /\ Process # {}
  /\ DigestOf \in [Request -> Digest] /\ ProcessOf \in [Request -> Process]
  /\ MaxPending \in Nat \ {0} /\ MaxConcurrent \in Nat \ {0}
  /\ MaxPulls \in Nat \ {0}
  /\ LateEffects \in BOOLEAN /\ MaxLate \in Nat \ {0} /\ Patient \subseteq Digest

Commit == {"exact", "altered"}
PullRecord == [count : 0 .. MaxPulls, open : BOOLEAN, head : Commit \cup {"none"}]

VARIABLES
  pc,       \* where each request is in enqueue
  ahead,    \* the slots of the admission chain each request waits for
  made,     \* refCreated
  head,     \* the head of the pull request it found
  base,     \* what the base branch holds under the path of each report
  ref,      \* the commit of the branch of each report
  pull,     \* its pull requests: how many, is one open, the head of the last
  late,     \* calls given up on that GitHub may still carry out
  told,     \* the receipts given
  amended   \* the requests whose branch was changed after they read it (the
            \*   properties look at this, the code does not)

relayVars == <<pc, ahead, made, head>>
repository == <<base, ref, pull>>
vars == <<relayVars, repository, late, told, amended>>

Init ==
  /\ pc = [r \in Request |-> "done"]
  /\ ahead = [r \in Request |-> {}]
  /\ made = [r \in Request |-> FALSE]
  /\ head = [r \in Request |-> "none"]
  /\ base = [d \in Digest |-> "none"]
  /\ ref = [d \in Digest |-> "none"]
  /\ pull = [d \in Digest |-> [count |-> 0, open |-> FALSE, head |-> "none"]]
  /\ late = {} /\ told = {} /\ amended = {}

Refs == {d \in Digest : ref[d] # "none"}
OpenPulls == {d \in Digest : pull[d].open}

At(r, place) == pc[r] = place
Goes(r, place) == pc' = [pc EXCEPT ![r] = place]

(***************************************************************************)
(* The admission chain of a process, #acquireAdmission: the slot of a      *)
(* request comes after every slot that has not been released yet.          *)
(***************************************************************************)
Inside(p) == {r \in Request : ProcessOf[r] = p /\ pc[r] # "done"}

Ahead_HolderOnly(r) == {q \in Inside(ProcessOf[r]) : ~At(q, "waiting")}

Ahead(r) == Inside(ProcessOf[r])

Release_NotOfWaiters(r) ==
  ahead' = IF At(r, "waiting") THEN ahead ELSE [q \in Request |-> ahead[q] \ {r}]

Release(r) == ahead' = [q \in Request |-> ahead[q] \ {r}]

(* The server takes the request unless it is busy.                         *)
Arrive(r) ==
  /\ At(r, "done")
  /\ Cardinality(Inside(ProcessOf[r])) < MaxConcurrent
  /\ Goes(r, "waiting")
  /\ ahead' = [ahead EXCEPT ![r] = Ahead(r)]
  /\ UNCHANGED <<made, head, repository, late, told, amended>>

Admit(r) ==
  /\ At(r, "waiting") /\ ahead[r] = {}
  /\ Goes(r, "base")
  /\ UNCHANGED <<ahead, made, head, repository, late, told, amended>>

(* The end of a call, with the release of the slot in finally.             *)
Leave(r) ==
  /\ Goes(r, "done") /\ Release(r)
  /\ made' = [made EXCEPT ![r] = FALSE] /\ head' = [head EXCEPT ![r] = "none"]
  /\ amended' = amended \ {r}

Answer(r, status) == Leave(r) /\ told' = told \cup {<<DigestOf[r], status>>}

(***************************************************************************)
(* enqueueUnderAdmissionLock, call by call.                                *)
(***************************************************************************)
Sees(r, from, to, commit) ==
  /\ At(r, from) /\ Goes(r, to) /\ head' = [head EXCEPT ![r] = commit]
  /\ UNCHANGED <<ahead, made, repository, late, told, amended>>

Read(r, from, to) == Sees(r, from, to, "none")

CheckBase(r) ==
  \/ base[DigestOf[r]] = "none" /\ Read(r, "base", "pull")
  \/ /\ At(r, "base") /\ base[DigestOf[r]] = "exact"
     /\ Answer(r, "already-queued") /\ UNCHANGED <<repository, late>>

NoPull_OpenOnly(d) == ~pull[d].open

(* The query asks for pull requests in every state.                        *)
NoPull(d) == pull[d].count = 0

(* #findPullRequest throws on two.                                         *)
SeesPull(r, from) ==
  pull[DigestOf[r]].count = 1 /\ Sees(r, from, "verify", pull[DigestOf[r]].head)

FindPull(r) ==
  (NoPull(DigestOf[r]) /\ Read(r, "pull", "ref")) \/ SeesPull(r, "pull")

ReadRef_Trusting(r) ==
  \/ ref[DigestOf[r]] = "none" /\ Read(r, "ref", "open-pulls")
  \/ ref[DigestOf[r]] # "none" /\ Read(r, "ref", "recheck")

(* #verifyQueueCommit throws unless the commit adds the exact bytes.       *)
ReadRef(r) ==
  \/ ref[DigestOf[r]] = "none" /\ Read(r, "ref", "open-pulls")
  \/ ref[DigestOf[r]] = "exact" /\ Read(r, "ref", "recheck")

(* #assertCapacity: both numbers are below the limit.                      *)
CountPulls(r) == Cardinality(OpenPulls) < MaxPending /\ Read(r, "open-pulls", "open-refs")

CountRefs_AtMost(r) == Cardinality(Refs) <= MaxPending /\ Read(r, "open-refs", "pin-base")

CountRefs(r) == Cardinality(Refs) < MaxPending /\ Read(r, "open-refs", "pin-base")

(* The base commit, the path at that commit, and the new objects on it.    *)
PinBase(r) ==
  \/ base[DigestOf[r]] = "none" /\ Read(r, "pin-base", "create-ref")
  \/ /\ At(r, "pin-base") /\ base[DigestOf[r]] = "exact"
     /\ Answer(r, "already-queued") /\ UNCHANGED <<repository, late>>

RefFree(d) == ref[d] = "none"
AddRef(d) == ref' = [ref EXCEPT ![d] = "exact"]

CreateRef(r) ==
  /\ At(r, "create-ref")
  /\ IF RefFree(DigestOf[r])
       THEN Goes(r, "recheck") /\ AddRef(DigestOf[r]) /\ made' = [made EXCEPT ![r] = TRUE]
       ELSE Goes(r, "reread") /\ UNCHANGED <<made, ref>>
  /\ UNCHANGED <<ahead, head, base, pull, late, told, amended>>

Reread(r) == ref[DigestOf[r]] = "exact" /\ Read(r, "reread", "recheck")

Recheck(r) ==
  (NoPull(DigestOf[r]) /\ Read(r, "recheck", "create-pull")) \/ SeesPull(r, "recheck")

(* GitHub opens a pull request for a branch that has none open, of what    *)
(* the branch names by then; of one that was merged it may find no commits *)
(* to merge.                                                               *)
Openable(d) == ref[d] # "none" /\ ~pull[d].open /\ pull[d].count < MaxPulls
OpenPull(d) ==
  pull' = [pull EXCEPT ![d] = [count |-> @.count + 1, open |-> TRUE, head |-> ref[d]]]

PullStatus(r) == IF made[r] THEN "queued" ELSE "already-queued"

CreatePull(r) ==
  /\ At(r, "create-pull")
  /\ \/ /\ Openable(DigestOf[r]) /\ OpenPull(DigestOf[r])
        /\ Answer(r, PullStatus(r))
     \/ /\ ~Openable(DigestOf[r]) \/ base[DigestOf[r]] # "none"
        /\ Goes(r, "confirm") /\ UNCHANGED <<ahead, made, head, pull, told, amended>>
  /\ UNCHANGED <<base, ref, late>>

Confirm(r) == SeesPull(r, "confirm")

VerifyPull_ByRef(r) ==
  /\ At(r, "verify") /\ head[r] = "exact"
  /\ Answer(r, PullStatus(r)) /\ UNCHANGED <<repository, late>>

VerifyPull(r) ==
  /\ At(r, "verify") /\ head[r] = "exact"
  /\ Answer(r, "already-queued") /\ UNCHANGED <<repository, late>>

(***************************************************************************)
(* What else happens: a call fails, at once or after GitHub carried out    *)
(* what it asked, or GitHub does so later.                                 *)
(***************************************************************************)
CarryOut(call, d) ==
  \/ call = "create-ref" /\ RefFree(d) /\ AddRef(d) /\ UNCHANGED <<base, pull>>
  \/ call = "create-pull" /\ Openable(d) /\ OpenPull(d) /\ UNCHANGED <<base, ref>>

Places == {"waiting", "base", "pull", "verify", "ref", "open-pulls", "open-refs",
           "pin-base", "create-ref", "reread", "recheck", "create-pull", "confirm"}

(* The wait for admission and every call are given the signal.             *)
Fail(r) ==
  /\ pc[r] \in Places
  /\ Leave(r) /\ UNCHANGED told
  /\ \/ UNCHANGED <<repository, late>>
     \/ CarryOut(pc[r], DigestOf[r]) /\ UNCHANGED late
     \/ /\ LateEffects /\ Cardinality(late) < MaxLate
        /\ pc[r] \in {"create-ref", "create-pull"}
        /\ late' = late \cup {<<r, pc[r]>>}
        /\ UNCHANGED repository

Land(r, call) ==
  /\ <<r, call>> \in late
  /\ late' = late \ {<<r, call>>}
  /\ CarryOut(call, DigestOf[r]) \/ UNCHANGED repository
  /\ UNCHANGED <<relayVars, told, amended>>

(***************************************************************************)
(* The maintainers, on GitHub.                                             *)
(***************************************************************************)
AtWork(d) ==
  \E r \in Request : DigestOf[r] = d /\ (~At(r, "done") \/ \E call \in Places : <<r, call>> \in late)
Reviewable(d) == d \in Patient => ~AtWork(d)

Merge(d) ==
  /\ Reviewable(d) /\ pull[d].open
  /\ base' = [base EXCEPT ![d] = pull[d].head]
  /\ pull' = [pull EXCEPT ![d].open = FALSE]
  /\ UNCHANGED <<relayVars, ref, late, told, amended>>

Close(d) ==
  /\ Reviewable(d) /\ pull[d].open
  /\ pull' = [pull EXCEPT ![d].open = FALSE]
  /\ UNCHANGED <<relayVars, base, ref, late, told, amended>>

(* Deleting a branch closes its pull request.                              *)
DeleteRef(d) ==
  /\ Reviewable(d) /\ ref[d] # "none"
  /\ ref' = [ref EXCEPT ![d] = "none"]
  /\ pull' = [pull EXCEPT ![d].open = FALSE]
  /\ UNCHANGED <<relayVars, base, late, told, amended>>

(* The requests on a report that rely on what they read of its branch.     *)
Relying(d) == {r \in Request : /\ DigestOf[r] = d
                               /\ pc[r] \in {"verify", "recheck", "create-pull"}}

(* A commit on the branch of an item, with or without a pull request yet.  *)
Amend(d) ==
  /\ Reviewable(d) /\ ref[d] # "none"
  /\ ref' = [ref EXCEPT ![d] = "altered"]
  /\ pull' = [pull EXCEPT ![d].head = IF pull[d].open THEN "altered" ELSE @]
  /\ amended' = amended \cup Relying(d)
  /\ UNCHANGED <<relayVars, base, late, told>>

Call(r) ==
  \/ CheckBase(r) \/ FindPull(r) \/ ReadRef(r) \/ CountPulls(r) \/ CountRefs(r)
  \/ PinBase(r) \/ CreateRef(r) \/ Reread(r) \/ Recheck(r)
  \/ CreatePull(r) \/ Confirm(r) \/ VerifyPull(r)

Next ==
  \/ \E r \in Request : Arrive(r) \/ Admit(r) \/ Call(r) \/ Fail(r)
  \/ \E r \in Request, call \in Places : Land(r, call)
  \/ \E d \in Digest : Merge(d) \/ Close(d) \/ DeleteRef(d) \/ Amend(d)

Spec == Init /\ [][Next]_vars

(* A resolved promise is acted on, and the handler's timer, 12 s after the *)
(* request, ends a call that is past admission.  That a waiter has a timer *)
(* too is not assumed: the chain must serve it without.                    *)
Timeout(r) == ~At(r, "waiting") /\ Fail(r)

FairSpec == Spec /\ \A r \in Request : WF_vars(Admit(r)) /\ WF_vars(Timeout(r))
-----------------------------------------------------------------------------
QueueTypeOK ==
  /\ pc \in [Request -> Places \cup {"done"}]
  /\ ahead \in [Request -> SUBSET Request]
  /\ made \in [Request -> BOOLEAN]
  /\ head \in [Request -> Commit \cup {"none"}]
  /\ amended \subseteq Request
  /\ base \in [Digest -> Commit \cup {"none"}]
  /\ ref \in [Digest -> Commit \cup {"none"}]
  /\ pull \in [Digest -> PullRecord]
  /\ late \subseteq Request \X {"create-ref", "create-pull"}
  /\ told \subseteq Digest \X {"queued", "already-queued"}

Admitted(p) == {r \in Inside(p) : ~At(r, "waiting")}

(* Admission is serialised: two calls of one relay process are never both  *)
(* past #acquireAdmission, whichever waiters gave up in between.           *)
OneAdmitted == \A q, r \in Request :
  q \in Admitted(ProcessOf[r]) /\ r \in Admitted(ProcessOf[r]) => q = r

(* A slot that was released is waited for by nobody: a call that failed    *)
(* while it waited does not block the relay.                               *)
NoDeadSlot == \A r \in Request : ahead[r] \subseteq Inside(ProcessOf[r])

(* The pending limit holds up to the number of relay processes: check and  *)
(* creation are separate calls, serialised in a process only.              *)
QueueBounded ==
  ~LateEffects => Cardinality(Refs) <= MaxPending + Cardinality(Process) - 1

(* "makes the configured queue cap fail closed across concurrent requests" *)
(* docs/operations/anonymous-relay.md, for the one process it deploys.     *)
CapFailsClosed == Cardinality(Process) = 1 => Cardinality(Refs) <= MaxPending

(* The deployment of the document is one relay process; with several, or   *)
(* with effects after the answer was given up on, what follows holds of    *)
(* the reports whose maintainers are patient.                              *)
Alone == ~LateEffects /\ \A q, r \in Request : ProcessOf[q] = ProcessOf[r]
Careful == {d \in Digest : Alone \/ d \in Patient}

(* One report makes one draft pull request, whatever is replayed, lost or  *)
(* raced: a second one would make every later replay fail.                 *)
OnePull == \A d \in Careful : pull[d].count <= 1

(* A receipt means that the report was taken in, whatever is lost, late,   *)
(* raced by another relay, or done by the maintainers in between.          *)
ReceiptIsHeld == \A d \in Digest, s \in {"queued", "already-queued"} :
  <<d, s>> \in told => pull[d].count > 0 \/ base[d] # "none"

Answered(r) == Call(r) /\ pc'[r] = "done"
HoldsExact(d) == base[d] = "exact" \/ pull[d].head = "exact"

(* A receipt is given only while the queue, or the base branch, holds the  *)
(* exact bytes, although the commit, the pull request and its head are     *)
(* looked at one after the other: a partial item that was amended before   *)
(* the call came to its branch earns none, nor does one that was amended   *)
(* under review.  The only way to one for other bytes is an amendment      *)
(* after the call read the branch, whose name the pull request is made of. *)
ReceiptIsExact == [][\A r \in Request \ amended :
  Answered(r) /\ pull'[DigestOf[r]].count <= 1 => HoldsExact(DigestOf[r])']_vars

(* A waiter is served, or gives up by itself, whoever waits, gives up or   *)
(* hangs ahead of it, in whatever order: every way out of a call and of a  *)
(* wait gives its slot back.                                               *)
WaitersAreServed == \A r \in Request : At(r, "waiting") ~> ~At(r, "waiting")

Held == {d \in Careful : pull[d].count > 0 \/ base[d] # "none"}
Told == told \cap (Careful \X {"queued", "already-queued"})
Intake == INSTANCE DurableIntake WITH held <- Held, told <- Told

(* enqueue implements DurableIntake: no receipt without an item, no item   *)
(* is lost, and "queued" is the answer of the call that made it only.      *)
ImplementsDurableIntake == Intake!Spec
=============================================================================
