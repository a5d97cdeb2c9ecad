------------------------- MODULE MCSubmissionQueue -------------------------
(* Three submissions, two of one report and one of another, to one relay   *)
(* or to two.                                                              *)
EXTENDS SubmissionQueue, TLC

CONSTANTS r1, r2, r3, d1, d2, p1, p2

TwoReports == r1 :> d1 @@ r2 :> d1 @@ r3 :> d2
OneRelay == [r \in Request |-> p1]
TwoRelays == r1 :> p1 @@ r2 :> p2 @@ r3 :> p1
=============================================================================
