--------------------------- MODULE DurableIntake ---------------------------
(***************************************************************************)
(* What the private queue promises a contributor, without its HTTP calls:  *)
(* an item that is held stays held, no receipt is given for an item that   *)
(* is not, and "queued" is said only by the call that made the item.       *)
(***************************************************************************)
CONSTANTS Digest

Status == {"queued", "already-queued"}

VARIABLES held, told

Init == held = {} /\ told = {}

(* The item is made or reconciled, and the receipt says so.                *)
Receive(d, status) ==
  /\ held' = held \cup {d}
  /\ told' = told \cup {<<d, status>>}
  /\ status = "queued" => d \notin held

(* The item is made, and the answer is lost.                               *)
Keep(d) == held' = held \cup {d} /\ UNCHANGED told

Next == \E d \in Digest : Keep(d) \/ \E status \in Status : Receive(d, status)

Spec == Init /\ [][Next]_<<held, told>>
=============================================================================
