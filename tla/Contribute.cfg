SPECIFICATION FairSpec
CONSTANTS
  c1 = c1
  c2 = c2
  Process = {c1, c2}
  Absent = Absent
  Outside = Outside
  Submitting = {c1}
  RacesUnlink = FALSE
INVARIANTS
  WriteFailedLeavesNothing
  SaysWhatHappened
PROPERTIES
  CancelEnds
  ImplementsExclusiveReport
