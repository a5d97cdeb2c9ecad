---------------------------- MODULE ReportLedger ----------------------------
(***************************************************************************)
(* What the public registry promises: the reports it has accepted stay as  *)
(* they are, and whatever is published with them has been admitted.        *)
(***************************************************************************)
CONSTANTS Paths, Entries, Absent, Genesis, Admitted(_, _)

VARIABLES reports, rest

Init == reports = [p \in Paths |-> Absent] /\ rest = Genesis

Publish ==
  /\ reports' \in [Paths -> Entries \cup {Absent}]
  /\ \A p \in Paths : reports[p] # Absent => reports'[p] = reports[p]
  /\ Admitted(reports', rest')

Spec == Init /\ [][Publish]_<<reports, rest>>
=============================================================================
