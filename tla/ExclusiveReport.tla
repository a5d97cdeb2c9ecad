-------------------------- MODULE ExclusiveReport --------------------------
(***************************************************************************)
(* What a contributor is promised about the path a report is written to.   *)
(* Runs share the path, and the outside may do to it what it likes.  A run *)
(* puts its whole report there in one step, once, and only where nothing   *)
(* was; it takes back nothing but its own report; and it says "written" of *)
(* a whole report and "write-failed" only of a path it does not hold.      *)
(***************************************************************************)
CONSTANTS Process, Absent, Outside

VARIABLES path,      \* Absent, Outside, or the run whose report is there
          whole,     \* what is there is what that run meant to write
          stage,     \* per run: "before" it publishes, "holding", or "after"
          answer     \* per run: "none" until it has an answer

vars == <<path, whole, stage, answer>>

Init == /\ path \in {Absent, Outside} /\ whole = TRUE
        /\ stage = [p \in Process |-> "before"]
        /\ answer = [p \in Process |-> "none"]

Publish(p) ==
  /\ stage[p] = "before" /\ path = Absent
  /\ path' = p /\ whole' = TRUE
  /\ stage' = [stage EXCEPT ![p] = "holding"]
  /\ UNCHANGED answer

Leave(p) ==
  /\ stage[p] # "after"
  /\ stage' = [stage EXCEPT ![p] = "after"]
  /\ IF path = p THEN path' = Absent /\ whole' = TRUE ELSE UNCHANGED <<path, whole>>
  /\ UNCHANGED answer

Answer(p, a) ==
  /\ answer[p] = "none"
  /\ a = "written" => path = p /\ whole
  /\ a = "write-failed" => path # p
  /\ answer' = [answer EXCEPT ![p] = a]
  /\ stage' = [stage EXCEPT ![p] = "after"]
  /\ UNCHANGED <<path, whole>>

Crash(p) == stage' = [stage EXCEPT ![p] = "after"] /\ UNCHANGED <<path, whole, answer>>

(* The outside creates, replaces, removes or changes what is there. *)
Interfere ==
  /\ \/ path' \in {Absent, Outside} /\ whole' = TRUE
     \/ path \in Process /\ path' = path /\ whole' = FALSE
  /\ UNCHANGED <<stage, answer>>

Next ==
  \/ Interfere
  \/ \E p \in Process :
       \/ Publish(p) \/ Leave(p) \/ Crash(p)
       \/ \E a \in {"written", "write-failed", "cleanup-uncertain"} : Answer(p, a)

Spec == Init /\ [][Next]_vars
=============================================================================
