----------------------- MODULE SubmissionQueueProofs -----------------------
(***************************************************************************)
(* Theorems about SubmissionQueue, for every number of requests, reports   *)
(* and relay processes and every limit.                                    *)
(*   ChainInv orders the requests of a process by their slots; the lock    *)
(*     and the bound of the queue rest on it.                              *)
(*   AloneInv is what a single relay process adds when GitHub does nothing *)
(*     late: the check that there is no pull request still holds when the  *)
(*     pull request is made.                                               *)
(*   PatientInv is what patient maintainers give in every deployment: the  *)
(*     pull request that makes the check stale is still open.              *)
(*   RelianceInv is what a call may rely on between what it reads of a     *)
(*     branch or a pull request and its answer.                            *)
(***************************************************************************)
EXTENDS SubmissionQueue, FiniteSetTheorems, TLAPS

-----------------------------------------------------------------------------
(* Every variable of the queue keeps its type, for every instance: in      *)
(* particular enqueue says nothing but the two statuses of the protocol.   *)
THEOREM QueueTypeCorrect == Spec => []QueueTypeOK
<1>1. Init => QueueTypeOK
  BY QueueAssumption DEF Init, QueueTypeOK, Commit, PullRecord, Places
<1>2. QueueTypeOK /\ [Next]_vars => QueueTypeOK'
  <2> SUFFICES ASSUME QueueTypeOK, [Next]_vars PROVE QueueTypeOK'
    OBVIOUS
  <2> USE QueueAssumption DEF QueueTypeOK
  <2>1. ASSUME NEW r \in Request, Arrive(r) PROVE QueueTypeOK'
    BY <2>1 DEF Arrive, Ahead, Inside, Goes, repository, Places
  <2>2. ASSUME NEW r \in Request, Admit(r) PROVE QueueTypeOK'
    BY <2>2 DEF Admit, Goes, repository, Places
  <2>3. ASSUME NEW r \in Request, NEW s \in {"queued", "already-queued"},
               Answer(r, s), UNCHANGED <<repository, late>>
        PROVE QueueTypeOK'
    BY <2>3 DEF Answer, Leave, Release, Goes, repository
  <2>4. ASSUME NEW r \in Request, NEW from, NEW to \in Places,
               NEW commit \in Commit \cup {"none"}, Sees(r, from, to, commit)
        PROVE QueueTypeOK'
    BY <2>4 DEF Sees, Goes, repository
  <2>5. ASSUME NEW r \in Request, CreateRef(r) PROVE QueueTypeOK'
    BY <2>5 DEF CreateRef, AddRef, RefFree, Goes, Places, Commit
  <2>6. ASSUME NEW d \in Digest, Openable(d), OpenPull(d)
        PROVE pull' \in [Digest -> PullRecord]
    <3>1. [count |-> pull[d].count + 1, open |-> TRUE, head |-> ref[d]] \in PullRecord
      BY <2>6 DEF Openable, PullRecord
    <3> QED BY <3>1, <2>6 DEF OpenPull
  <2>7. ASSUME NEW r \in Request, CreatePull(r) PROVE QueueTypeOK'
    <3>1. PullStatus(r) \in {"queued", "already-queued"}
      BY DEF PullStatus
    <3>2. CASE Openable(DigestOf[r]) /\ OpenPull(DigestOf[r]) /\ Answer(r, PullStatus(r))
      BY <2>6, <2>7, <3>1, <3>2 DEF CreatePull, Answer, Leave, Release, Goes
    <3>3. CASE Goes(r, "confirm") /\ UNCHANGED <<ahead, made, head, pull, told, amended>>
      BY <2>7, <3>3 DEF CreatePull, Goes, Places
    <3> QED BY <2>7, <3>2, <3>3 DEF CreatePull
  <2>8. ASSUME NEW call \in Places, NEW d \in Digest, CarryOut(call, d)
        PROVE /\ base' \in [Digest -> Commit \cup {"none"}]
              /\ ref' \in [Digest -> Commit \cup {"none"}]
              /\ pull' \in [Digest -> PullRecord]
    BY <2>6, <2>8 DEF CarryOut, AddRef, Commit
  <2>9. ASSUME NEW r \in Request, Fail(r) PROVE QueueTypeOK'
    <3>1. pc[r] \in Places
      BY <2>9 DEF Fail
    <3>2. CASE CarryOut(pc[r], DigestOf[r]) /\ UNCHANGED late
      BY <2>8, <2>9, <3>1, <3>2 DEF Fail, Leave, Release, Goes
    <3>3. CASE UNCHANGED repository
      BY <2>9, <3>3 DEF Fail, Leave, Release, Goes, repository
    <3> QED BY <2>9, <3>2, <3>3 DEF Fail
  <2>10. ASSUME NEW r \in Request, NEW call \in Places, Land(r, call) PROVE QueueTypeOK'
    BY <2>8, <2>10 DEF Land, repository, relayVars
  <2>11. ASSUME NEW d \in Digest, Merge(d) \/ Close(d) \/ DeleteRef(d) \/ Amend(d)
         PROVE QueueTypeOK'
    <3>1. /\ [pull[d] EXCEPT !.open = FALSE] \in PullRecord
          /\ [pull[d] EXCEPT !.head = IF pull[d].open THEN "altered" ELSE @] \in PullRecord
          /\ pull[d].head \in Commit \cup {"none"}
      BY DEF PullRecord, Commit
    <3>2. /\ [pull EXCEPT ![d].open = FALSE] \in [Digest -> PullRecord]
          /\ [pull EXCEPT ![d].head = IF pull[d].open THEN "altered" ELSE @] \in [Digest -> PullRecord]
      BY <3>1
    <3>3. CASE Merge(d)
      BY <3>1, <3>2, <3>3 DEF Merge, relayVars
    <3>4. CASE Close(d)
      BY <3>2, <3>4 DEF Close, relayVars
    <3>5. CASE DeleteRef(d)
      BY <3>2, <3>5 DEF DeleteRef, relayVars
    <3>6. CASE Amend(d)
      BY <3>2, <3>6 DEF Amend, Relying, relayVars, Commit
    <3> QED BY <2>11, <3>3, <3>4, <3>5, <3>6
  <2>12. ASSUME UNCHANGED vars PROVE QueueTypeOK'
    BY <2>12 DEF vars, relayVars, repository
  <2>13. ASSUME NEW r \in Request, Call(r) PROVE QueueTypeOK'
    <3>1. \A d \in Digest : pull[d].head \in Commit \cup {"none"}
      BY DEF PullRecord
    <3> QED
      BY <2>13, <2>3, <2>4, <2>5, <2>7, <3>1
         DEF Call, CheckBase, FindPull, ReadRef, CountPulls, CountRefs, PinBase, Reread,
             Recheck, Confirm, VerifyPull, SeesPull, Read, Places
  <2> QED BY <2>1, <2>2, <2>9, <2>10, <2>11, <2>12, <2>13 DEF Next
<1> QED BY <1>1, <1>2, PTL DEF Spec

-----------------------------------------------------------------------------
(* What a step does to the chain: a slot is taken, admitted, used or       *)
(* released.                                                               *)
Advances(r) ==
  /\ pc[r] \in Places \ {"waiting"}
  /\ \E to \in Places \ {"waiting"} : Goes(r, to)
  /\ UNCHANGED ahead

Leaves(r) == pc[r] \in Places /\ Goes(r, "done") /\ Release(r)

LEMMA ChainSteps ==
  ASSUME QueueTypeOK, [Next]_vars
  PROVE  \/ \E r \in Request : Arrive(r) \/ Admit(r) \/ Advances(r) \/ Leaves(r)
         \/ UNCHANGED <<pc, ahead>>
<1>1. ASSUME NEW r \in Request, Call(r) PROVE Advances(r) \/ Leaves(r)
  <2>1. ASSUME NEW from \in Places \ {"waiting"}, NEW to \in Places \ {"waiting"}, NEW commit,
               Sees(r, from, to, commit)
        PROVE Advances(r)
    BY <2>1 DEF Sees, At, Advances
  <2>2. ASSUME NEW from \in Places, At(r, from), NEW s, Answer(r, s)
        PROVE Leaves(r)
    BY <2>2 DEF At, Answer, Leave, Leaves
  <2>3. ASSUME CreateRef(r) PROVE Advances(r)
    BY <2>3 DEF CreateRef, At, Advances, Places
  <2>4. ASSUME CreatePull(r) PROVE Advances(r) \/ Leaves(r)
    BY <2>2, <2>4 DEF CreatePull, At, Advances, Places
  <2> QED
    BY <1>1, <2>1, <2>2, <2>3, <2>4
       DEF Call, CheckBase, FindPull, ReadRef, CountPulls, CountRefs, PinBase, Reread,
           Recheck, Confirm, VerifyPull, SeesPull, Read, Places
<1>2. ASSUME NEW r \in Request, Fail(r) PROVE Leaves(r)
  BY <1>2 DEF Fail, Leave, Leaves
<1>3. ASSUME NEW d \in Digest, Merge(d) \/ Close(d) \/ DeleteRef(d) \/ Amend(d)
      PROVE UNCHANGED <<pc, ahead>>
  BY <1>3 DEF Merge, Close, DeleteRef, Amend, relayVars
<1>4. ASSUME NEW r \in Request, NEW call \in Places, Land(r, call)
      PROVE UNCHANGED <<pc, ahead>>
  BY <1>4 DEF Land, relayVars
<1>5. UNCHANGED vars => UNCHANGED <<pc, ahead>>
  BY DEF vars, relayVars
<1> QED BY <1>1, <1>2, <1>3, <1>4, <1>5 DEF Next

(* Of two requests inside a process one waits for the other, a request     *)
(* waits only for requests inside its process, and an admitted one for     *)
(* nobody.                                                                 *)
ChainInv == \A q, r \in Request :
  /\ q \in ahead[r] => pc[q] # "done" /\ ProcessOf[q] = ProcessOf[r]
  /\ q # r /\ pc[q] # "done" /\ pc[r] # "done" /\ ProcessOf[q] = ProcessOf[r]
       => q \in ahead[r] \/ r \in ahead[q]
  /\ pc[r] \in Places \ {"waiting"} => ahead[r] = {}

LEMMA ChainStep ==
  ASSUME QueueTypeOK, ChainInv, [Next]_vars
  PROVE  ChainInv'
<1> USE DEF QueueTypeOK
<1>1. ASSUME NEW s \in Request, Arrive(s) PROVE ChainInv'
  <2>1. /\ pc[s] = "done"
        /\ pc' = [pc EXCEPT ![s] = "waiting"]
        /\ ahead' = [ahead EXCEPT ![s] = {q \in Request : ProcessOf[q] = ProcessOf[s] /\ pc[q] # "done"}]
    BY <1>1 DEF Arrive, At, Goes, Ahead, Inside
  <2>2. \A q \in Request : pc'[q] = IF q = s THEN "waiting" ELSE pc[q]
    BY <2>1
  <2>3. \A q \in Request : ahead'[q] = IF q = s
          THEN {u \in Request : ProcessOf[u] = ProcessOf[s] /\ pc[u] # "done"} ELSE ahead[q]
    BY <2>1
  <2> QED BY <2>1, <2>2, <2>3 DEF ChainInv, Places
<1>2. ASSUME NEW s \in Request, Admit(s) PROVE ChainInv'
  <2>1. /\ pc[s] = "waiting" /\ ahead[s] = {} /\ ahead' = ahead
        /\ \A q \in Request : pc'[q] = IF q = s THEN "base" ELSE pc[q]
    BY <1>2 DEF Admit, At, Goes
  <2> QED BY <2>1 DEF ChainInv, Places
<1>3. ASSUME NEW s \in Request, Advances(s) PROVE ChainInv'
  <2>1. PICK to \in Places \ {"waiting"} : \A q \in Request : pc'[q] = IF q = s THEN to ELSE pc[q]
    BY <1>3 DEF Advances, Goes
  <2>2. pc[s] \in Places \ {"waiting"} /\ ahead' = ahead
    BY <1>3 DEF Advances
  <2> QED BY <2>1, <2>2 DEF ChainInv, Places
<1>4. ASSUME NEW s \in Request, Leaves(s) PROVE ChainInv'
  <2>1. /\ pc[s] \in Places
        /\ \A q \in Request : pc'[q] = IF q = s THEN "done" ELSE pc[q]
        /\ \A q \in Request : ahead'[q] = ahead[q] \ {s}
    BY <1>4 DEF Leaves, Goes, Release
  <2> QED BY <2>1 DEF ChainInv, Places
<1>5. ASSUME UNCHANGED <<pc, ahead>> PROVE ChainInv'
  BY <1>5 DEF ChainInv
<1> QED BY <1>1, <1>2, <1>3, <1>4, <1>5, ChainSteps

LEMMA ChainHolds == Spec => [](QueueTypeOK /\ ChainInv)
<1>1. Init => ChainInv
  BY QueueAssumption DEF Init, ChainInv, Places
<1>2. QueueTypeOK /\ ChainInv /\ [Next]_vars => ChainInv'
  BY ChainStep
<1> QED BY <1>1, <1>2, QueueTypeCorrect, PTL DEF Spec

(* The lock of a relay process: never two calls past it, whichever of the  *)
(* waiters gave up; and nobody waits for a slot that was given back.       *)
THEOREM AdmissionIsSerial == Spec => [](OneAdmitted /\ NoDeadSlot)
<1>1. QueueTypeOK /\ ChainInv => OneAdmitted
  BY DEF QueueTypeOK, ChainInv, OneAdmitted, Admitted, Inside, At
<1>2. QueueTypeOK /\ ChainInv => NoDeadSlot
  BY DEF QueueTypeOK, ChainInv, NoDeadSlot, Inside
<1> QED BY <1>1, <1>2, ChainHolds, PTL

-----------------------------------------------------------------------------
(* The limit of the queue.  A request that passed #assertCapacity and has  *)
(* not created its ref yet is as good as a ref; a process has one at most. *)
Cleared == {r \in Request : pc[r] \in {"pin-base", "create-ref"}}

CapInv ==
  ~LateEffects =>
    /\ late = {}
    /\ Cardinality(Refs) + Cardinality(Cleared) <= MaxPending + Cardinality(Process) - 1

LEMMA Finite ==
  /\ IsFiniteSet(Refs) /\ Cardinality(Refs) \in Nat
  /\ IsFiniteSet(Cleared) /\ Cardinality(Cleared) \in Nat
  /\ IsFiniteSet(Process) /\ Cardinality(Process) \in Nat
<1>1. Refs \in SUBSET Digest /\ Cleared \in SUBSET Request
  BY DEF Refs, Cleared
<1> QED BY <1>1, FS_Subset, FS_CardinalityType, QueueAssumption

LEMMA ClearedBound ==
  ASSUME QueueTypeOK, ChainInv, NEW r \in Request, pc[r] \in Places \ {"waiting"}, r \notin Cleared
  PROVE  Cardinality(Cleared) <= Cardinality(Process) - 1
<1> DEFINE Others == Process \ {ProcessOf[r]}
           f == [q \in Cleared |-> ProcessOf[q]]
<1>1. \A q, s \in Request :
        pc[q] \in Places \ {"waiting"} /\ pc[s] \in Places \ {"waiting"} /\ ProcessOf[q] = ProcessOf[s] => q = s
  BY DEF ChainInv, Places
<1>2. ProcessOf[r] \in Process /\ \A q \in Cleared : q \in Request /\ ProcessOf[q] \in Process
  BY QueueAssumption DEF Cleared
<1>3. \A q \in Cleared : pc[q] \in Places \ {"waiting"}
  BY DEF Cleared, Places
<1>4. f \in [Cleared -> Others]
  BY <1>1, <1>2, <1>3
<1>5. \A q, s \in Cleared : f[q] = f[s] => q = s
  BY <1>1, <1>2, <1>3
<1>6. f \in Injection(Cleared, Others)
  BY <1>4, <1>5 DEF Injection, IsInjective
<1>7. IsFiniteSet(Others) /\ Cardinality(Others) = Cardinality(Process) - 1
  BY <1>2, QueueAssumption, FS_RemoveElement
<1> QED BY <1>6, <1>7, FS_Injection

(* A step that adds neither a ref nor a cleared request keeps the sum.     *)
LEMMA CapShrinks ==
  ASSUME CapInv, late' = late, Refs' \subseteq Refs, Cleared' \subseteq Cleared
  PROVE  CapInv'
<1>1. /\ Refs' \in SUBSET Refs /\ Cleared' \in SUBSET Cleared
      /\ Cardinality(Refs') \in Nat /\ Cardinality(Cleared') \in Nat
      /\ Cardinality(Refs') <= Cardinality(Refs)
      /\ Cardinality(Cleared') <= Cardinality(Cleared)
  BY Finite, FS_Subset, FS_CardinalityType
<1> QED BY <1>1, Finite, QueueAssumption DEF CapInv

(* A cleared request that creates its ref, or leaves, moves one of the     *)
(* sum from the right to the left at most.                                 *)
LEMMA CapSpends ==
  ASSUME CapInv, late' = late, NEW r \in Cleared, NEW d, Refs' \subseteq Refs \cup {d},
         Cleared' = Cleared \ {r}
  PROVE  CapInv'
<1>1. /\ IsFiniteSet(Refs \cup {d}) /\ Cardinality(Refs \cup {d}) <= Cardinality(Refs) + 1
      /\ Cardinality(Refs \cup {d}) \in Nat
  <2>1. IsFiniteSet(Refs \cup {d})
    BY Finite, FS_AddElement
  <2>2. Cardinality(Refs \cup {d}) = IF d \in Refs THEN Cardinality(Refs) ELSE Cardinality(Refs) + 1
    BY Finite, FS_AddElement
  <2> QED BY <2>1, <2>2, Finite
<1>2. Cardinality(Refs') \in Nat /\ Cardinality(Refs') <= Cardinality(Refs \cup {d})
  BY <1>1, FS_Subset, FS_CardinalityType
<1>3. Cardinality(Cleared') \in Nat /\ Cardinality(Cleared') = Cardinality(Cleared) - 1
  BY Finite, FS_RemoveElement, FS_CardinalityType
<1> QED BY <1>1, <1>2, <1>3, Finite, QueueAssumption DEF CapInv

LEMMA CapStep ==
  ASSUME QueueTypeOK, ChainInv, CapInv, [Next]_vars
  PROVE  CapInv'
<1> USE DEF QueueTypeOK
<1>1. ASSUME NEW r \in Request, Arrive(r) \/ Admit(r) PROVE CapInv'
  BY <1>1, CapShrinks DEF Arrive, Admit, At, Goes, Refs, Cleared, repository
<1>2. ASSUME NEW r \in Request, NEW from, NEW to, NEW commit, Sees(r, from, to, commit),
             to \notin {"pin-base", "create-ref"}
      PROVE CapInv'
  BY <1>2, CapShrinks DEF Sees, At, Goes, Refs, Cleared, repository
<1>3. ASSUME NEW r \in Request, NEW s, Answer(r, s), UNCHANGED <<base, ref, late>>
      PROVE CapInv'
  BY <1>3, CapShrinks DEF Answer, Leave, Goes, Refs, Cleared
<1>4. ASSUME NEW r \in Request, CountRefs(r) PROVE CapInv'
  <2>1. /\ pc[r] = "open-refs" /\ late' = late /\ Refs' = Refs
        /\ Cleared' = Cleared \cup {r} /\ r \notin Cleared
        /\ Cardinality(Refs) < MaxPending
    BY <1>4 DEF CountRefs, Read, Sees, At, Goes, Refs, Cleared, repository
  <2>2. Cardinality(Cleared) <= Cardinality(Process) - 1
    BY <2>1, ClearedBound DEF Places
  <2>3. Cardinality(Cleared') = Cardinality(Cleared) + 1
    BY <2>1, Finite, FS_AddElement
  <2> QED BY <2>1, <2>2, <2>3, Finite, QueueAssumption DEF CapInv
<1>5. ASSUME NEW r \in Request, PinBase(r) PROVE CapInv'
  <2>1. CASE Read(r, "pin-base", "create-ref")
    BY <2>1, CapShrinks DEF Read, Sees, At, Goes, Refs, Cleared, repository
  <2> QED BY <1>3, <1>5, <2>1 DEF PinBase, repository
<1>6. ASSUME NEW r \in Request, CreateRef(r) PROVE CapInv'
  <2>1. r \in Cleared /\ Cleared' = Cleared \ {r} /\ late' = late
    BY <1>6 DEF CreateRef, At, Goes, Cleared
  <2>2. Refs' \subseteq Refs \cup {DigestOf[r]}
    BY <1>6, QueueAssumption DEF CreateRef, AddRef, Refs
  <2> QED BY <2>1, <2>2, CapSpends
<1>7. ASSUME NEW r \in Request, CreatePull(r) PROVE CapInv'
  <2>1. CASE Goes(r, "confirm")
    BY <1>7, <2>1, CapShrinks DEF CreatePull, Goes, Refs, Cleared
  <2> QED BY <1>3, <1>7, <2>1 DEF CreatePull
<1>8. ASSUME NEW r \in Request, Fail(r) PROVE CapInv'
  <2>1. Cleared' = Cleared \ {r}
    BY <1>8 DEF Fail, Leave, Goes, Cleared
  <2>2. CASE pc[r] = "create-ref" /\ AddRef(DigestOf[r]) /\ late' = late
    <3>1. r \in Cleared /\ Refs' \subseteq Refs \cup {DigestOf[r]}
      BY <2>2, QueueAssumption DEF AddRef, Refs, Cleared
    <3> QED BY <2>1, <2>2, <3>1, CapSpends
  <2>3. CASE ref' = ref /\ late' = late
    BY <2>1, <2>3, CapShrinks DEF Refs
  <2>4. CASE LateEffects
    BY <2>4 DEF CapInv
  <2> QED BY <1>8, <2>2, <2>3, <2>4 DEF Fail, CarryOut, repository
<1>9. ASSUME NEW r \in Request, NEW call \in Places, Land(r, call) PROVE CapInv'
  BY <1>9 DEF Land, CapInv
<1>10. ASSUME NEW d \in Digest, Merge(d) \/ Close(d) \/ DeleteRef(d) \/ Amend(d) PROVE CapInv'
  <2>1. Refs' \subseteq Refs /\ late' = late /\ Cleared' = Cleared
    BY <1>10 DEF Merge, Close, DeleteRef, Amend, relayVars, Refs, Cleared
  <2> QED BY <2>1, CapShrinks
<1>11. ASSUME UNCHANGED vars PROVE CapInv'
  BY <1>11, CapShrinks DEF vars, relayVars, repository, Refs, Cleared
<1>12. ASSUME NEW r \in Request, Call(r) PROVE CapInv'
  BY <1>12, <1>2, <1>3, <1>4, <1>5, <1>6, <1>7
     DEF Call, CheckBase, FindPull, ReadRef, CountPulls, Reread, Recheck, Confirm, VerifyPull,
         SeesPull, Read, repository
<1> QED BY <1>1, <1>8, <1>9, <1>10, <1>11, <1>12 DEF Next

(* For any number of relay processes the queue exceeds its limit by fewer  *)
(* refs than there are processes, and by none when there is one: what a    *)
(* request counted cannot be made stale by another of its process.         *)
THEOREM QueueStaysBounded == Spec => []QueueBounded
<1>1. Init => CapInv
  <2> SUFFICES ASSUME Init PROVE CapInv
    OBVIOUS
  <2>1. Refs = {} /\ Cleared = {} /\ late = {}
    BY DEF Init, Refs, Cleared
  <2>2. Cardinality(Process) >= 1
    BY Finite, QueueAssumption, FS_EmptySet
  <2> QED BY <2>1, <2>2, Finite, FS_EmptySet, QueueAssumption DEF CapInv
<1>2. QueueTypeOK /\ ChainInv /\ CapInv /\ [Next]_vars => CapInv'
  BY CapStep
<1>3. CapInv => QueueBounded
  BY Finite, QueueAssumption DEF CapInv, QueueBounded
<1> QED BY <1>1, <1>2, <1>3, ChainHolds, PTL DEF Spec

-----------------------------------------------------------------------------
(* Alone, the deployment of the document: one relay process, and nothing   *)
(* happens late.  What is open, merged or was found has a pull request;    *)
(* and in that deployment the answer that there is none is true until one  *)
(* is made.                                                                *)
PullInv ==
  /\ \A d \in Digest : pull[d].open \/ base[d] # "none" => pull[d].count > 0
  /\ \A r \in Request : pc[r] = "verify" => pull[DigestOf[r]].count > 0
FreshInv == Alone =>
  /\ late = {}
  /\ \A d \in Digest : pull[d].count <= 1
  /\ \A r \in Request : pc[r] = "create-pull" => pull[DigestOf[r]].count = 0
AloneInv == PullInv /\ FreshInv

LEMMA OpenedPull ==
  ASSUME QueueTypeOK, NEW d \in Digest, Openable(d), OpenPull(d)
  PROVE  /\ pull'[d].count = pull[d].count + 1
         /\ \A e \in Digest \ {d} : pull'[e] = pull[e]
         /\ pull[d].count \in Nat
BY QueueAssumption DEF QueueTypeOK, PullRecord, OpenPull

(* The maintainers make no pull request.                                   *)
LEMMA Maintained ==
  ASSUME QueueTypeOK, PullInv, NEW d \in Digest, Merge(d) \/ Close(d) \/ DeleteRef(d) \/ Amend(d)
  PROVE  /\ UNCHANGED <<pc, late, told>>
         /\ \A e \in Digest : pull'[e].count = pull[e].count
         /\ \A e \in Digest : pull'[e].open => pull[e].open
         /\ \A e \in Digest : base'[e] # "none" => base[e] # "none" \/ pull[e].open
         /\ \A e \in Digest : base[e] # "none" => base'[e] # "none" \/ pull[e].open
<1> USE DEF QueueTypeOK, PullRecord, relayVars
<1>1. CASE Merge(d) BY <1>1 DEF Merge
<1>2. CASE Close(d) BY <1>2 DEF Close
<1>3. CASE DeleteRef(d) BY <1>3 DEF DeleteRef
<1>4. CASE Amend(d) BY <1>4 DEF Amend
<1> QED BY <1>1, <1>2, <1>3, <1>4

LEMMA AloneStep ==
  ASSUME QueueTypeOK, ChainInv, AloneInv, [Next]_vars
  PROVE  AloneInv'
<1>1. \A q, r \in Request :
        Alone /\ pc[q] \in Places \ {"waiting"} /\ pc[r] \in Places \ {"waiting"} => q = r
  BY DEF Alone, ChainInv, Places
<1>2. ASSUME UNCHANGED <<base, pull>>, late' = late,
             \A r \in Request :
               /\ pc'[r] = "create-pull" => pc[r] = "create-pull" \/ NoPull(DigestOf[r])
               /\ pc'[r] = "verify" => pc[r] = "verify" \/ pull[DigestOf[r]].count = 1
      PROVE AloneInv'
  BY <1>2 DEF AloneInv, PullInv, FreshInv, NoPull, Alone
<1>3. ASSUME NEW r \in Request, Arrive(r) \/ Admit(r) PROVE AloneInv'
  BY <1>2, <1>3 DEF Arrive, Admit, Goes, repository, QueueTypeOK
<1>4. ASSUME NEW r \in Request, NEW from, NEW to, NEW commit, Sees(r, from, to, commit),
             to = "create-pull" => NoPull(DigestOf[r]),
             to = "verify" => pull[DigestOf[r]].count = 1
      PROVE AloneInv'
  BY <1>2, <1>4 DEF Sees, Goes, repository, QueueTypeOK
<1>5. ASSUME NEW r \in Request, NEW s, Answer(r, s), UNCHANGED <<repository, late>> PROVE AloneInv'
  BY <1>2, <1>5 DEF Answer, Leave, Goes, repository, QueueTypeOK
<1>6. ASSUME NEW r \in Request, CreateRef(r) PROVE AloneInv'
  BY <1>2, <1>6 DEF CreateRef, AddRef, Goes, QueueTypeOK
<1>7. ASSUME NEW r \in Request, pc[r] = "create-pull", Openable(DigestOf[r]), OpenPull(DigestOf[r]),
             Goes(r, "done"), UNCHANGED <<base, late>>
      PROVE AloneInv'
  <2> DEFINE d == DigestOf[r]
  <2>1. d \in Digest
    BY QueueAssumption
  <2>2. /\ pull'[d].count = pull[d].count + 1 /\ pull[d].count \in Nat
        /\ \A e \in Digest \ {d} : pull'[e] = pull[e]
    BY <1>7, <2>1, OpenedPull
  <2>3. \A q \in Request : Alone => pc'[q] # "create-pull"
    BY <1>1, <1>7 DEF Goes, QueueTypeOK, Places
  <2>4. PullInv'
    <3>1. \A q \in Request : pc'[q] = "verify" => pc[q] = "verify" /\ DigestOf[q] \in Digest
      BY <1>7, QueueAssumption DEF Goes, QueueTypeOK
    <3>2. \A e \in Digest : pull[e].count > 0 => pull'[e].count > 0
      BY <2>2
    <3>3. \A e \in Digest : pull'[e].open => pull[e].open \/ e = d
      BY <2>2
    <3> QED BY <1>7, <2>1, <2>2, <3>1, <3>2, <3>3 DEF AloneInv, PullInv
  <2>5. FreshInv'
    BY <1>7, <2>1, <2>2, <2>3 DEF AloneInv, FreshInv, Alone
  <2> QED BY <2>4, <2>5 DEF AloneInv
<1>8. ASSUME NEW r \in Request, CreatePull(r) PROVE AloneInv'
  <2>1. CASE Openable(DigestOf[r]) /\ OpenPull(DigestOf[r]) /\ Answer(r, PullStatus(r))
    BY <1>7, <1>8, <2>1 DEF CreatePull, Answer, Leave, At, Goes
  <2>2. CASE Goes(r, "confirm") /\ UNCHANGED pull
    BY <1>2, <1>8, <2>2 DEF CreatePull, Goes, QueueTypeOK
  <2> QED BY <1>7, <1>8, <2>1, <2>2 DEF CreatePull
<1>9. ASSUME NEW r \in Request, Fail(r) PROVE AloneInv'
  <2>1. Goes(r, "done")
    BY <1>9 DEF Fail, Leave
  <2>2. CASE pc[r] = "create-pull" /\ Openable(DigestOf[r]) /\ OpenPull(DigestOf[r]) /\ UNCHANGED <<base, late>>
    BY <1>7, <2>1, <2>2
  <2>3. CASE UNCHANGED <<base, pull, late>>
    BY <1>2, <2>1, <2>3 DEF Goes, QueueTypeOK
  <2>4. CASE LateEffects /\ UNCHANGED repository
    BY <2>1, <2>4 DEF Goes, QueueTypeOK, repository, AloneInv, PullInv, FreshInv, Alone
  <2> QED BY <1>9, <2>2, <2>3, <2>4 DEF Fail, CarryOut, repository
<1>10. ASSUME NEW r \in Request, NEW call \in Places, Land(r, call) PROVE AloneInv'
  <2>1. ~Alone
    BY <1>10 DEF Land, AloneInv, FreshInv
  <2>2. CASE UNCHANGED <<pc, base, pull>>
    BY <2>1, <2>2 DEF AloneInv, PullInv, FreshInv, Alone
  <2>3. CASE Openable(DigestOf[r]) /\ OpenPull(DigestOf[r]) /\ UNCHANGED <<pc, base>>
    <3>1. DigestOf[r] \in Digest /\ \A q \in Request : DigestOf[q] \in Digest
      BY QueueAssumption
    <3>2. \A e \in Digest : pull[e].count > 0 => pull'[e].count > 0
      BY <2>3, <3>1, OpenedPull
    <3>3. \A e \in Digest : pull'[e].open => pull[e].open \/ pull'[e].count > 0
      BY <2>3, <3>1, OpenedPull
    <3> QED BY <2>1, <2>3, <3>1, <3>2, <3>3 DEF AloneInv, PullInv, FreshInv, Alone
  <2> QED BY <1>10, <2>2, <2>3 DEF Land, CarryOut, repository, relayVars
<1>11. ASSUME NEW d \in Digest, Merge(d) \/ Close(d) \/ DeleteRef(d) \/ Amend(d) PROVE AloneInv'
  BY <1>11, Maintained, QueueAssumption DEF AloneInv, PullInv, FreshInv, Alone
<1>12. ASSUME UNCHANGED vars PROVE AloneInv'
  BY <1>2, <1>12 DEF vars, relayVars, repository
<1>13. ASSUME NEW r \in Request, Call(r) PROVE AloneInv'
  BY <1>13, <1>4, <1>5, <1>6, <1>8
     DEF Call, CheckBase, FindPull, ReadRef, CountPulls, CountRefs, PinBase, Reread, Recheck,
         Confirm, VerifyPull, SeesPull, Read, repository
<1> QED BY <1>3, <1>9, <1>10, <1>11, <1>12, <1>13 DEF Next

LEMMA AloneHolds == Spec => [](QueueTypeOK /\ ChainInv /\ AloneInv)
<1>1. Init => AloneInv
  BY QueueAssumption DEF Init, AloneInv, PullInv, FreshInv
<1>2. QueueTypeOK /\ ChainInv /\ AloneInv /\ [Next]_vars => AloneInv'
  BY AloneStep
<1> QED BY <1>1, <1>2, ChainHolds, PTL DEF Spec

-----------------------------------------------------------------------------
(* The same with any number of relays and with late effects, of a report   *)
(* whose maintainers are patient: whoever may still make the pull request  *)
(* has seen none, and the one that another made meanwhile is still open,   *)
(* for the maintainers wait until nobody is at work on the report.         *)
Armed(d) == \E r \in Request :
  DigestOf[r] = d /\ (pc[r] = "create-pull" \/ <<r, "create-pull">> \in late)

PatientInv == \A d \in Patient :
  /\ pull[d].count <= 1
  /\ Armed(d) => pull[d].count = 0 \/ pull[d].open

\* So the pull request that is made is the first one.
LEMMA MadeFirst ==
  ASSUME AloneInv, PatientInv, NEW r \in Request, DigestOf[r] \in Careful, Openable(DigestOf[r]),
         pc[r] = "create-pull" \/ <<r, "create-pull">> \in late
  PROVE  pull[DigestOf[r]].count = 0
<1>1. CASE Alone
  BY <1>1 DEF AloneInv, FreshInv
<1>2. CASE DigestOf[r] \in Patient
  BY <1>2 DEF PatientInv, Armed, Openable
<1> QED BY <1>1, <1>2 DEF Careful

LEMMA PatientStep ==
  ASSUME QueueTypeOK, PullInv, PatientInv, [Next]_vars
  PROVE  PatientInv'
<1> USE QueueAssumption
<1>1. ASSUME UNCHANGED pull,
             \A r \in Request :
               pc'[r] = "create-pull" \/ <<r, "create-pull">> \in late' =>
                 pc[r] = "create-pull" \/ <<r, "create-pull">> \in late \/ NoPull(DigestOf[r])
      PROVE PatientInv'
  BY <1>1 DEF PatientInv, Armed, NoPull
<1>2. ASSUME NEW r \in Request, Openable(DigestOf[r]), OpenPull(DigestOf[r]),
             pc[r] = "create-pull" \/ <<r, "create-pull">> \in late,
             late' \subseteq late, \A q \in Request : pc'[q] = "create-pull" => pc[q] = "create-pull"
      PROVE PatientInv'
  <2> DEFINE e == DigestOf[r]
  <2>1. e \in Digest /\ Armed(e)
    BY <1>2 DEF Armed
  <2>2. /\ pull'[e].count = pull[e].count + 1 /\ pull'[e].open
        /\ \A d \in Digest \ {e} : pull'[d] = pull[d]
    BY <1>2, <2>1, OpenedPull DEF OpenPull, QueueTypeOK
  <2>3. e \in Patient => pull[e].count = 0
    BY <1>2, <2>1 DEF PatientInv, Openable
  <2>4. \A d : Armed(d)' => Armed(d)
    BY <1>2 DEF Armed
  <2> QED BY <2>1, <2>2, <2>3, <2>4 DEF PatientInv
<1>3. ASSUME NEW r \in Request, Arrive(r) \/ Admit(r) PROVE PatientInv'
  BY <1>1, <1>3 DEF Arrive, Admit, Goes, repository, QueueTypeOK
<1>4. ASSUME NEW r \in Request, NEW from, NEW to, NEW commit, Sees(r, from, to, commit),
             to = "create-pull" => NoPull(DigestOf[r])
      PROVE PatientInv'
  BY <1>1, <1>4 DEF Sees, Goes, repository, QueueTypeOK
<1>5. ASSUME NEW r \in Request, NEW s, Answer(r, s), UNCHANGED <<repository, late>> PROVE PatientInv'
  BY <1>1, <1>5 DEF Answer, Leave, Goes, repository, QueueTypeOK
<1>6. ASSUME NEW r \in Request, CreateRef(r) PROVE PatientInv'
  BY <1>1, <1>6 DEF CreateRef, Goes, QueueTypeOK
<1>7. ASSUME NEW r \in Request, CreatePull(r) PROVE PatientInv'
  <2>1. CASE Openable(DigestOf[r]) /\ OpenPull(DigestOf[r]) /\ Answer(r, PullStatus(r))
    BY <1>2, <1>7, <2>1 DEF CreatePull, Answer, Leave, At, Goes, QueueTypeOK
  <2>2. CASE Goes(r, "confirm") /\ UNCHANGED pull
    BY <1>1, <1>7, <2>2 DEF CreatePull, Goes, QueueTypeOK
  <2> QED BY <1>7, <2>1, <2>2 DEF CreatePull
<1>8. ASSUME NEW r \in Request, Fail(r) PROVE PatientInv'
  <2>1. \A q \in Request : pc'[q] = "create-pull" => pc[q] = "create-pull"
    BY <1>8 DEF Fail, Leave, Goes, QueueTypeOK
  <2>2. CASE pc[r] = "create-pull" /\ Openable(DigestOf[r]) /\ OpenPull(DigestOf[r]) /\ UNCHANGED late
    BY <1>2, <2>1, <2>2
  <2>3. CASE UNCHANGED pull /\ (late' = late \/ late' = late \cup {<<r, pc[r]>>})
    BY <1>1, <2>1, <2>3
  <2> QED BY <1>8, <2>2, <2>3 DEF Fail, CarryOut, repository
<1>9. ASSUME NEW r \in Request, NEW call \in Places, Land(r, call) PROVE PatientInv'
  <2>1. UNCHANGED pc /\ late' \subseteq late /\ <<r, call>> \in late
    BY <1>9 DEF Land, relayVars
  <2>2. CASE call = "create-pull" /\ Openable(DigestOf[r]) /\ OpenPull(DigestOf[r])
    BY <1>2, <2>1, <2>2
  <2>3. CASE UNCHANGED pull
    BY <1>1, <2>1, <2>3
  <2> QED BY <1>9, <2>2, <2>3 DEF Land, CarryOut, repository
<1>10. ASSUME NEW d \in Digest, Merge(d) \/ Close(d) \/ DeleteRef(d) \/ Amend(d) PROVE PatientInv'
  <2>1. d \in Patient => ~Armed(d)
    <3>1. d \in Patient => ~AtWork(d)
      BY <1>10 DEF Merge, Close, DeleteRef, Amend, Reviewable
    <3>2. Armed(d) => AtWork(d)
      BY DEF Armed, AtWork, At, Places
    <3> QED BY <3>1, <3>2
  <2>2. /\ UNCHANGED <<pc, late>>
        /\ \A e \in Digest : pull'[e].count = pull[e].count
    BY <1>10, Maintained
  <2>3. \A e \in Digest \ {d} : pull'[e] = pull[e]
    BY <1>10 DEF Merge, Close, DeleteRef, Amend, QueueTypeOK
  <2>4. \A e : Armed(e)' <=> Armed(e)
    BY <2>2 DEF Armed
  <2> QED BY <2>1, <2>2, <2>3, <2>4 DEF PatientInv
<1>11. ASSUME UNCHANGED vars PROVE PatientInv'
  BY <1>1, <1>11 DEF vars, relayVars, repository
<1>12. ASSUME NEW r \in Request, Call(r) PROVE PatientInv'
  BY <1>12, <1>4, <1>5, <1>6, <1>7
     DEF Call, CheckBase, FindPull, ReadRef, CountPulls, CountRefs, PinBase, Reread, Recheck,
         Confirm, VerifyPull, SeesPull, Read, repository
<1> QED BY <1>3, <1>8, <1>9, <1>10, <1>11, <1>12 DEF Next

LEMMA PatientHolds == Spec => [](QueueTypeOK /\ AloneInv /\ PatientInv)
<1>1. Init => PatientInv
  BY QueueAssumption DEF Init, PatientInv
<1>2. QueueTypeOK /\ AloneInv /\ PatientInv /\ [Next]_vars => PatientInv'
  BY PatientStep DEF AloneInv
<1> QED BY <1>1, <1>2, AloneHolds, PTL DEF Spec

(* A report has one pull request at most, however often it is replayed and *)
(* whatever fails, is lost or is raced: in the deployment of the document, *)
(* and with any number of relays and late effects as long as maintainers   *)
(* do not review what is being submitted.                                  *)
THEOREM OnePullEach == Spec => []OnePull
<1>1. AloneInv /\ PatientInv => OnePull
  BY DEF AloneInv, FreshInv, PatientInv, OnePull, Careful
<1> QED BY <1>1, PatientHolds, PTL

-----------------------------------------------------------------------------
(* The refinement, for the same reports.                                   *)
Promised == [Intake!Next]_<<Held, Told>>

LEMMA ReceiptStep ==
  ASSUME NEW r \in Request, Answer(r, "already-queued"), UNCHANGED <<base, pull>>,
         DigestOf[r] \in Careful => DigestOf[r] \in Held
  PROVE  Promised
<1>1. CASE DigestOf[r] \in Careful
  <2>1. Held' = Held \cup {DigestOf[r]}
    BY <1>1 DEF Held
  <2>2. Told' = Told \cup {<<DigestOf[r], "already-queued">>}
    BY <1>1 DEF Answer, Told
  <2>3. Intake!Receive(DigestOf[r], "already-queued")
    BY <2>1, <2>2 DEF Intake!Receive
  <2> QED BY <2>3, QueueAssumption DEF Promised, Intake!Next, Intake!Status
<1>2. CASE DigestOf[r] \notin Careful
  <2>1. Held' = Held /\ Told' = Told
    BY <1>2 DEF Held, Answer, Told
  <2> QED BY <2>1 DEF Promised
<1> QED BY <1>1, <1>2

LEMMA MadeStep ==
  ASSUME QueueTypeOK, NEW d \in Digest, Openable(d), OpenPull(d), base' = base
  PROVE  Held' = IF d \in Careful THEN Held \cup {d} ELSE Held
<1>1. pull'[d].count > 0 /\ \A e \in Digest \ {d} : pull'[e] = pull[e]
  BY OpenedPull
<1> QED BY <1>1 DEF Held, Careful

\* The pull request is made and the answer is lost, or nobody waits for it.
LEMMA KeptStep ==
  ASSUME QueueTypeOK, NEW d \in Digest, Openable(d), OpenPull(d), UNCHANGED <<base, told>>
  PROVE  Promised
<1>1. Told' = Told
  BY DEF Told
<1>2. Held' = Held \/ Intake!Keep(d)
  BY <1>1, MadeStep DEF Intake!Keep
<1> QED BY <1>1, <1>2 DEF Promised, Intake!Next

LEMMA IntakeStep ==
  ASSUME QueueTypeOK, AloneInv, PatientInv, [Next]_vars
  PROVE  Promised
<1> USE QueueAssumption
<1>1. ASSUME UNCHANGED <<base, pull, told>> PROVE Promised
  BY <1>1 DEF Promised, Held, Told
<1>2. \A d \in Careful : pull[d].count > 0 \/ base[d] = "exact" => d \in Held
  BY DEF Held
<1>3. ASSUME NEW r \in Request, CreatePull(r) PROVE Promised
  <2> DEFINE d == DigestOf[r]
  <2>1. CASE Openable(d) /\ OpenPull(d) /\ Answer(r, PullStatus(r)) /\ d \in Careful
    <3>1. Held' = Held \cup {d}
      BY <1>3, <2>1, MadeStep DEF CreatePull
    <3>2. d \notin Held
      <4>1. pull[d].count = 0
        BY <1>3, <2>1, MadeFirst DEF CreatePull, At
      <4> QED BY <4>1 DEF AloneInv, PullInv, Held
    <3>3. Told' = Told \cup {<<d, PullStatus(r)>>}
      BY <2>1 DEF Answer, PullStatus, Told
    <3>4. Intake!Receive(d, PullStatus(r))
      BY <3>1, <3>2, <3>3 DEF Intake!Receive
    <3> QED BY <3>4 DEF PullStatus, Promised, Intake!Next, Intake!Status
  <2>2. CASE Openable(d) /\ OpenPull(d) /\ Answer(r, PullStatus(r)) /\ d \notin Careful
    <3>1. Held' = Held /\ Told' = Told
      BY <1>3, <2>2, MadeStep DEF CreatePull, Answer, Told
    <3> QED BY <3>1 DEF Promised
  <2> QED BY <1>1, <1>3, <2>1, <2>2 DEF CreatePull
<1>4. ASSUME NEW r \in Request, Fail(r) PROVE Promised
  <2>1. CASE Openable(DigestOf[r]) /\ OpenPull(DigestOf[r]) /\ UNCHANGED base
    BY <1>4, <2>1, KeptStep DEF Fail
  <2> QED BY <1>1, <1>4, <2>1 DEF Fail, CarryOut, repository
<1>5. ASSUME NEW r \in Request, Call(r) PROVE Promised
  <2>1. ASSUME NEW from, NEW to, NEW commit, Sees(r, from, to, commit) PROVE Promised
    BY <1>1, <2>1 DEF Sees, repository
  <2>2. ASSUME pull[DigestOf[r]].count > 0 \/ base[DigestOf[r]] = "exact",
               Answer(r, "already-queued"), UNCHANGED repository
        PROVE Promised
    BY <1>2, <2>2, ReceiptStep DEF repository
  <2>3. CASE CreateRef(r)
    BY <1>1, <2>3 DEF CreateRef
  <2>4. CASE VerifyPull(r)
    <3>1. pull[DigestOf[r]].count > 0
      BY <2>4 DEF VerifyPull, At, AloneInv, PullInv
    <3> QED BY <2>2, <2>4, <3>1 DEF VerifyPull, repository
  <2> QED BY <1>3, <1>5, <2>1, <2>2, <2>3, <2>4
          DEF Call, CheckBase, FindPull, ReadRef, CountPulls, CountRefs, PinBase, Reread,
              Recheck, Confirm, SeesPull, Read, repository
<1>6. ASSUME NEW d \in Digest, Merge(d) \/ Close(d) \/ DeleteRef(d) \/ Amend(d) PROVE Promised
  <2>1. \A e \in Digest : e \in Held' <=> e \in Held
    BY <1>6, Maintained DEF AloneInv, PullInv, Held, Careful
  <2>2. Held' = Held
    BY <2>1 DEF Held, Careful
  <2> QED BY <1>6, <2>2, Maintained DEF AloneInv, Promised, Told
<1>7. ASSUME NEW r \in Request, NEW call \in Places, Land(r, call) PROVE Promised
  <2>1. CASE Openable(DigestOf[r]) /\ OpenPull(DigestOf[r]) /\ UNCHANGED base
    BY <1>7, <2>1, KeptStep DEF Land
  <2> QED BY <1>1, <1>7, <2>1 DEF Land, CarryOut, repository
<1>8. ASSUME NEW r \in Request, Arrive(r) \/ Admit(r) PROVE Promised
  BY <1>1, <1>8 DEF Arrive, Admit, repository
<1>9. ASSUME UNCHANGED vars PROVE Promised
  BY <1>1, <1>9 DEF vars, repository
<1> QED BY <1>4, <1>5, <1>6, <1>7, <1>8, <1>9 DEF Next

(* enqueue keeps the promise of DurableIntake: every receipt is for an     *)
(* item the queue holds for good, and "queued" is said by the call that    *)
(* made the item only, so at most once for a report.                       *)
THEOREM IntakeImplemented == Spec => ImplementsDurableIntake
<1>1. Init => Intake!Init
  BY QueueAssumption DEF Init, Intake!Init, Held, Told, Careful
<1>2. QueueTypeOK /\ AloneInv /\ PatientInv /\ [Next]_vars => Promised
  BY IntakeStep
<1> QED BY <1>1, <1>2, PatientHolds, PTL DEF Spec, ImplementsDurableIntake, Intake!Spec, Promised

-----------------------------------------------------------------------------
(* And a receipt is for the exact bytes.  What a call relies on stays true *)
(* unless the branch is amended: relays, late effects and the other things *)
(* maintainers do give a branch the exact commit or none, and a pull       *)
(* request that was found keeps its head while it is the only one.         *)
RelianceInv == \A r \in Request \ amended :
  /\ pc[r] \in {"recheck", "create-pull"} => ref[DigestOf[r]] # "altered"
  /\ pc[r] = "verify" /\ head[r] = "exact" /\ pull[DigestOf[r]].count <= 1
       => pull[DigestOf[r]].head = "exact"

LEMMA RelianceStep ==
  ASSUME QueueTypeOK, PullInv, RelianceInv, [Next]_vars
  PROVE  RelianceInv'
<1> USE QueueAssumption DEF QueueTypeOK
<1>1. ASSUME UNCHANGED <<pull, amended>>,
             \A d \in Digest : ref'[d] = "altered" => ref[d] = "altered",
             NEW r \in Request, \A q \in Request \ {r} : pc'[q] = pc[q] /\ head'[q] = head[q],
             pc'[r] \in {"recheck", "create-pull"} =>
               pc[r] \in {"recheck", "create-pull"} \/ ref'[DigestOf[r]] # "altered",
             pc'[r] = "verify" => head'[r] = pull[DigestOf[r]].head
      PROVE RelianceInv'
  BY <1>1 DEF RelianceInv
<1>2. ASSUME NEW d \in Digest, Openable(d), OpenPull(d), ref' = ref, NEW gone \in SUBSET Request,
             amended' = amended \ gone,
             \A q \in Request \ gone : pc'[q] = pc[q] /\ head'[q] = head[q],
             \A q \in gone : pc'[q] = "done"
      PROVE RelianceInv'
  <2>1. /\ pull'[d].count = pull[d].count + 1 /\ pull[d].count \in Nat
        /\ \A e \in Digest \ {d} : pull'[e] = pull[e]
    BY <1>2, OpenedPull
  <2>2. pull[d].count > 0 => ~(pull'[d].count <= 1)
    BY <2>1
  <2>3. \A q \in Request : pc[q] = "verify" /\ DigestOf[q] = d => pull[d].count > 0
    BY DEF PullInv
  <2> QED BY <1>2, <2>1, <2>2, <2>3 DEF RelianceInv
<1>3. ASSUME NEW r \in Request, Leave(r), UNCHANGED pull,
             \A d \in Digest : ref'[d] = "altered" => ref[d] = "altered"
      PROVE RelianceInv'
  BY <1>3 DEF Leave, Goes, RelianceInv
<1>4. ASSUME NEW r \in Request, Arrive(r) \/ Admit(r) PROVE RelianceInv'
  BY <1>1, <1>4 DEF Arrive, Admit, Goes, repository
<1>5. ASSUME NEW r \in Request, NEW from, NEW to, NEW commit, Sees(r, from, to, commit),
             to \in {"recheck", "create-pull"} => from = "recheck" \/ ref[DigestOf[r]] # "altered",
             to = "verify" => commit = pull[DigestOf[r]].head
      PROVE RelianceInv'
  BY <1>1, <1>5 DEF Sees, At, Goes, repository
<1>6. ASSUME NEW r \in Request, CreateRef(r) PROVE RelianceInv'
  <2>1. \A q \in Request \ {r} : pc'[q] = pc[q] /\ head'[q] = head[q]
    BY <1>6 DEF CreateRef, Goes
  <2>2. pc'[r] \in {"recheck", "reread"} /\ (pc'[r] = "recheck" => AddRef(DigestOf[r]))
    BY <1>6 DEF CreateRef, Goes
  <2>3. AddRef(DigestOf[r]) => ref'[DigestOf[r]] = "exact"
    BY DEF AddRef
  <2>4. \A d \in Digest : ref'[d] = "altered" => ref[d] = "altered"
    BY <1>6 DEF CreateRef, AddRef
  <2> QED BY <1>1, <1>6, <2>1, <2>2, <2>3, <2>4 DEF CreateRef
<1>7. ASSUME NEW r \in Request, CreatePull(r) PROVE RelianceInv'
  <2>1. CASE Openable(DigestOf[r]) /\ OpenPull(DigestOf[r]) /\ Answer(r, PullStatus(r))
    <3>1. /\ amended' = amended \ {r} /\ pc'[r] = "done" /\ ref' = ref
          /\ \A q \in Request \ {r} : pc'[q] = pc[q] /\ head'[q] = head[q]
      BY <1>7, <2>1 DEF CreatePull, Answer, Leave, Goes
    <3>2. DigestOf[r] \in Digest /\ {r} \in SUBSET Request /\ \A q \in {r} : pc'[q] = "done"
      BY <3>1
    <3>3. \A q \in Request \ {r} : pc'[q] = pc[q] /\ head'[q] = head[q]
      BY <3>1
    <3> HIDE DEF QueueTypeOK
    <3> QED BY <1>2, <2>1, <3>1, <3>2, <3>3, Zenon
  <2>2. CASE Goes(r, "confirm") /\ UNCHANGED <<ahead, made, head, pull, told, amended>>
    BY <1>1, <1>7, <2>2 DEF CreatePull, Goes
  <2> QED BY <1>7, <2>1, <2>2 DEF CreatePull
<1>8. ASSUME NEW r \in Request, Fail(r) PROVE RelianceInv'
  <2>1. CASE Openable(DigestOf[r]) /\ OpenPull(DigestOf[r]) /\ ref' = ref
    <3>1. /\ amended' = amended \ {r} /\ pc'[r] = "done"
          /\ \A q \in Request \ {r} : pc'[q] = pc[q] /\ head'[q] = head[q]
      BY <1>8 DEF Fail, Leave, Goes
    <3>2. DigestOf[r] \in Digest /\ {r} \in SUBSET Request /\ \A q \in {r} : pc'[q] = "done"
      BY <3>1
    <3>3. \A q \in Request \ {r} : pc'[q] = pc[q] /\ head'[q] = head[q]
      BY <3>1
    <3> HIDE DEF QueueTypeOK
    <3> QED BY <1>2, <2>1, <3>1, <3>2, <3>3, Zenon
  <2>2. CASE UNCHANGED pull /\ (ref' = ref \/ AddRef(DigestOf[r]))
    <3>1. \A d \in Digest : ref'[d] = "altered" => ref[d] = "altered"
      BY <2>2 DEF AddRef
    <3> QED BY <1>3, <1>8, <2>2, <3>1 DEF Fail
  <2> QED BY <1>8, <2>1, <2>2 DEF Fail, CarryOut, repository
<1>9. ASSUME NEW r \in Request, NEW call \in Places, Land(r, call) PROVE RelianceInv'
  <2>1. CASE Openable(DigestOf[r]) /\ OpenPull(DigestOf[r]) /\ ref' = ref
    <3>1. UNCHANGED <<pc, head, amended>>
      BY <1>9 DEF Land, relayVars
    <3>2. /\ {} \in SUBSET Request /\ amended' = amended \ {} /\ DigestOf[r] \in Digest
          /\ \A q \in Request \ {} : pc'[q] = pc[q] /\ head'[q] = head[q]
          /\ \A q \in {} : pc'[q] = "done"
      BY <3>1
    <3> HIDE DEF QueueTypeOK
    <3> QED BY <1>2, <2>1, <3>2, Zenon
  <2>2. CASE UNCHANGED pull /\ (ref' = ref \/ AddRef(DigestOf[r]))
    <3>1. \A d \in Digest : ref'[d] = "altered" => ref[d] = "altered"
      BY <2>2 DEF AddRef
    <3> QED BY <1>9, <2>2, <3>1 DEF Land, relayVars, RelianceInv
  <2> QED BY <1>9, <2>1, <2>2 DEF Land, CarryOut, repository
<1>10. ASSUME NEW d \in Digest, Merge(d) \/ Close(d) \/ DeleteRef(d) PROVE RelianceInv'
  <2>1. \A e \in Digest : pull'[e].count = pull[e].count /\ pull'[e].head = pull[e].head
    <3>1. pull' = [pull EXCEPT ![d].open = FALSE]
      BY <1>10 DEF Merge, Close, DeleteRef
    <3> QED BY <3>1 DEF PullRecord
  <2>2. \A e \in Digest : ref'[e] = "altered" => ref[e] = "altered"
    BY <1>10 DEF Merge, Close, DeleteRef
  <2>3. UNCHANGED <<pc, head, amended>>
    BY <1>10 DEF Merge, Close, DeleteRef, relayVars
  <2> QED BY <2>1, <2>2, <2>3 DEF RelianceInv
<1>11. ASSUME NEW d \in Digest, Amend(d) PROVE RelianceInv'
  <2>1. \A e \in Digest \ {d} : pull'[e] = pull[e] /\ ref'[e] = ref[e]
    BY <1>11 DEF Amend
  <2>2. UNCHANGED <<pc, head>> /\ amended' = amended \cup Relying(d)
    BY <1>11 DEF Amend, relayVars
  <2> QED BY <2>1, <2>2 DEF RelianceInv, Relying
<1>12. ASSUME UNCHANGED vars PROVE RelianceInv'
  BY <1>12 DEF vars, relayVars, repository, RelianceInv
<1>13. ASSUME NEW r \in Request, NEW s, Answer(r, s), UNCHANGED repository PROVE RelianceInv'
  BY <1>3, <1>13 DEF Answer, repository
<1>14. ASSUME NEW r \in Request, Call(r) PROVE RelianceInv'
  BY <1>14, <1>5, <1>6, <1>7, <1>13
     DEF Call, CheckBase, FindPull, ReadRef, CountPulls, CountRefs, PinBase, Reread, Recheck,
         Confirm, VerifyPull, SeesPull, Read, repository
<1> QED BY <1>4, <1>8, <1>9, <1>10, <1>11, <1>12, <1>14 DEF Next

(* In every deployment, with any number of relays, replays and late        *)
(* effects, a receipt is given only while the exact bytes are held, unless *)
(* maintainers amended the branch after the call had read it.              *)
THEOREM ReceiptsAreExact == Spec => ReceiptIsExact
<1> DEFINE Exact == \A r \in Request \ amended :
             Answered(r) /\ pull'[DigestOf[r]].count <= 1 => HoldsExact(DigestOf[r])'
<1>1. Init => RelianceInv
  BY DEF Init, RelianceInv
<1>2. QueueTypeOK /\ AloneInv /\ RelianceInv /\ [Next]_vars => RelianceInv'
  BY RelianceStep DEF AloneInv
<1>3. QueueTypeOK /\ RelianceInv => Exact
  <2> SUFFICES ASSUME QueueTypeOK, RelianceInv, NEW r \in Request \ amended,
                      Answered(r), pull'[DigestOf[r]].count <= 1
               PROVE  HoldsExact(DigestOf[r])'
    OBVIOUS
  <2> USE QueueAssumption DEF QueueTypeOK
  <2>1. Call(r) /\ pc'[r] = "done" /\ DigestOf[r] \in Digest
    BY DEF Answered
  <2>2. ASSUME NEW from, NEW to, NEW commit, Sees(r, from, to, commit), to # "done" PROVE FALSE
    BY <2>1, <2>2 DEF Sees, Goes
  <2>3. CASE base[DigestOf[r]] = "exact" /\ UNCHANGED repository
    BY <2>3 DEF HoldsExact, repository
  <2>4. CASE VerifyPull(r)
    <3>1. pull' = pull /\ pc[r] = "verify" /\ head[r] = "exact"
      BY <2>4 DEF VerifyPull, At, repository
    <3> QED BY <3>1 DEF RelianceInv, HoldsExact
  <2>5. CASE CreatePull(r)
    <3>1. pc[r] = "create-pull" /\ Openable(DigestOf[r]) /\ OpenPull(DigestOf[r])
      BY <2>1, <2>5 DEF CreatePull, At, Goes
    <3>2. ref[DigestOf[r]] = "exact"
      BY <2>1, <3>1 DEF RelianceInv, Openable, Commit
    <3>3. pull'[DigestOf[r]].head = "exact"
      BY <2>1, <3>1, <3>2 DEF OpenPull
    <3> QED BY <3>3 DEF HoldsExact
  <2>6. ~CreateRef(r)
    BY <2>1 DEF CreateRef, Goes
  <2> QED BY <2>1, <2>2, <2>3, <2>4, <2>5, <2>6
          DEF Call, CheckBase, FindPull, ReadRef, CountPulls, CountRefs, PinBase, Reread,
              Recheck, Confirm, SeesPull, Read, repository
<1>4. QueueTypeOK /\ RelianceInv /\ [Next]_vars => [Exact]_vars
  BY <1>3
<1> QED BY <1>1, <1>2, <1>4, AloneHolds, PTL DEF Spec, ReceiptIsExact

-----------------------------------------------------------------------------
(* No receipt without an item, in any deployment: with several relays,     *)
(* late effects and maintainers at any moment.  An item that was held once *)
(* is held for good, for GitHub never forgets a pull request.              *)
HeldInv == ReceiptIsHeld /\ \A d \in Digest : pull[d].open => pull[d].count > 0

HeldFor(d) == pull[d].count > 0 \/ base[d] # "none"

LEMMA HeldStays ==
  ASSUME QueueTypeOK, HeldInv, [Next]_vars
  PROVE  \A d \in Digest : /\ HeldFor(d) => HeldFor(d)'
                           /\ pull'[d].open => pull'[d].count > 0
<1> USE QueueAssumption DEF QueueTypeOK, PullRecord
<1> DEFINE Stays == \A d \in Digest : /\ HeldFor(d) => HeldFor(d)'
                                      /\ pull'[d].open => pull'[d].count > 0
<1>1. ASSUME UNCHANGED <<base, pull>> PROVE Stays
  BY <1>1 DEF HeldFor, HeldInv
<1>2. ASSUME NEW e \in Digest, Openable(e), OpenPull(e), UNCHANGED base PROVE Stays
  BY <1>2, OpenedPull DEF HeldFor, HeldInv
<1>3. ASSUME NEW e \in Digest, NEW call, CarryOut(call, e) PROVE Stays
  BY <1>1, <1>2, <1>3 DEF CarryOut
<1>4. ASSUME NEW r \in Request, Call(r) PROVE Stays
  <2>1. CASE CreatePull(r)
    BY <1>1, <1>2, <2>1 DEF CreatePull
  <2>2. CASE UNCHANGED <<base, pull>>
    BY <1>1, <2>2
  <2>3. CreatePull(r) \/ UNCHANGED <<base, pull>>
    BY <1>4 DEF Call, CheckBase, FindPull, ReadRef, CountPulls, CountRefs, PinBase, CreateRef,
                Reread, Recheck, Confirm, VerifyPull, SeesPull, Read, Sees, repository
  <2> QED BY <2>1, <2>2, <2>3
<1>5. ASSUME NEW r \in Request, Fail(r) PROVE Stays
  BY <1>1, <1>3, <1>5 DEF Fail, repository
<1>6. ASSUME NEW r \in Request, NEW call \in Places, Land(r, call) PROVE Stays
  BY <1>1, <1>3, <1>6 DEF Land, repository
<1>7. ASSUME NEW e \in Digest, Merge(e) PROVE Stays
  BY <1>7 DEF Merge, HeldFor, HeldInv
<1>8. ASSUME NEW e \in Digest, Close(e) \/ DeleteRef(e) \/ Amend(e) PROVE Stays
  <2>1. UNCHANGED base /\ \A d \in Digest :
          pull'[d].count = pull[d].count /\ (pull'[d].open => pull[d].open)
    <3>1. CASE Close(e) \/ DeleteRef(e)
      BY <3>1 DEF Close, DeleteRef
    <3>2. CASE Amend(e)
      BY <3>2 DEF Amend
    <3> QED BY <1>8, <3>1, <3>2
  <2> QED BY <2>1 DEF HeldFor, HeldInv
<1>9. ASSUME NEW r \in Request, Arrive(r) \/ Admit(r) PROVE Stays
  BY <1>1, <1>9 DEF Arrive, Admit, repository
<1>10. UNCHANGED vars => Stays
  BY <1>1 DEF vars, repository
<1> QED BY <1>4, <1>5, <1>6, <1>7, <1>8, <1>9, <1>10 DEF Next

LEMMA ReceiptsOfHeld ==
  ASSUME QueueTypeOK, PullInv, [Next]_vars
  PROVE  \A d \in Digest, s \in {"queued", "already-queued"} :
           <<d, s>> \in told' \ told => HeldFor(d)'
<1> USE QueueAssumption DEF QueueTypeOK, PullRecord
<1> DEFINE Honest == \A d \in Digest, s \in {"queued", "already-queued"} :
             <<d, s>> \in told' \ told => HeldFor(d)'
<1>1. ASSUME UNCHANGED told PROVE Honest
  BY <1>1
<1>2. ASSUME NEW r \in Request, NEW s, Answer(r, s), HeldFor(DigestOf[r])' PROVE Honest
  BY <1>2 DEF Answer
<1>3. ASSUME NEW r \in Request, CreatePull(r) PROVE Honest
  <2>1. CASE Openable(DigestOf[r]) /\ OpenPull(DigestOf[r]) /\ Answer(r, PullStatus(r))
    <3>1. HeldFor(DigestOf[r])'
      BY <2>1, OpenedPull DEF HeldFor
    <3> QED BY <1>2, <2>1, <3>1
  <2> QED BY <1>1, <1>3, <2>1 DEF CreatePull
<1>4. ASSUME NEW r \in Request, Call(r) PROVE Honest
  <2>1. ASSUME pull[DigestOf[r]].count > 0 \/ base[DigestOf[r]] = "exact",
               Answer(r, "already-queued"), UNCHANGED repository
        PROVE  Honest
    <3>1. HeldFor(DigestOf[r])'
      BY <2>1 DEF HeldFor, repository
    <3> QED BY <1>2, <2>1, <3>1
  <2>2. CASE UNCHANGED told
    BY <1>1, <2>2
  <2>3. \/ CreatePull(r) \/ UNCHANGED told
        \/ /\ pull[DigestOf[r]].count > 0 \/ base[DigestOf[r]] = "exact"
           /\ Answer(r, "already-queued") /\ UNCHANGED repository
    BY <1>4 DEF Call, CheckBase, FindPull, ReadRef, CountPulls, CountRefs, PinBase, CreateRef,
                Reread, Recheck, Confirm, VerifyPull, SeesPull, Read, Sees, At, PullInv, repository
  <2> QED BY <1>3, <2>1, <2>2, <2>3
<1>5. ASSUME NEW r \in Request, Arrive(r) \/ Admit(r) \/ Fail(r) \/ (\E call \in Places : Land(r, call))
      PROVE Honest
  BY <1>1, <1>5 DEF Arrive, Admit, Fail, Land
<1>6. ASSUME NEW d \in Digest, Merge(d) \/ Close(d) \/ DeleteRef(d) \/ Amend(d) PROVE Honest
  BY <1>1, <1>6 DEF Merge, Close, DeleteRef, Amend
<1>7. UNCHANGED vars => Honest
  BY <1>1 DEF vars
<1> QED BY <1>4, <1>5, <1>6, <1>7 DEF Next

(* enqueue never answers for a report that was not taken in, whatever is   *)
(* lost, late, raced by another relay, or done by the maintainers.         *)
THEOREM ReceiptsAreHeld == Spec => []ReceiptIsHeld
<1>1. Init => HeldInv
  BY QueueAssumption DEF Init, HeldInv, ReceiptIsHeld
<1>2. QueueTypeOK /\ AloneInv /\ HeldInv /\ [Next]_vars => HeldInv'
  <2> SUFFICES ASSUME QueueTypeOK, AloneInv, HeldInv, [Next]_vars PROVE HeldInv'
    OBVIOUS
  <2>1. \A d \in Digest : HeldFor(d) => HeldFor(d)'
    BY HeldStays
  <2>2. \A d \in Digest, s \in {"queued", "already-queued"} :
          <<d, s>> \in told' => <<d, s>> \in told \/ HeldFor(d)'
    BY ReceiptsOfHeld DEF AloneInv
  <2>3. ReceiptIsHeld'
    BY <2>1, <2>2 DEF HeldInv, ReceiptIsHeld, HeldFor
  <2> QED BY <2>3, HeldStays DEF HeldInv
<1>3. HeldInv => ReceiptIsHeld
  BY DEF HeldInv
<1> QED BY <1>1, <1>2, <1>3, AloneHolds, PTL DEF Spec
=============================================================================
