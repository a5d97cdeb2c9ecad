---------------------------- MODULE VerifiedCache ----------------------------
(***************************************************************************)
(* What the artifact store promises.  The pinned name holds nothing, the   *)
(* pinned bytes, or a foreign file that was there before and stays.  The   *)
(* pinned bytes may be published, and withdrawn only as long as nobody was *)
(* granted them; a client is granted them only while they are there.       *)
(***************************************************************************)
CONSTANT Client

VARIABLES cache, lease

vars == <<cache, lease>>

Init == cache \in {"absent", "pinned", "foreign"} /\ lease = {}

Publish ==
  /\ cache = "absent" /\ cache' = "pinned"
  /\ UNCHANGED lease

Withdraw ==
  /\ cache = "pinned" /\ lease = {}
  /\ cache' = "absent"
  /\ UNCHANGED lease

Grant(c) ==
  /\ cache = "pinned" /\ c \notin lease
  /\ lease' = lease \cup {c}
  /\ UNCHANGED cache

Next == Publish \/ Withdraw \/ \E c \in Client : Grant(c)

Spec == Init /\ [][Next]_vars
=============================================================================
