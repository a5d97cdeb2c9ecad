SPECIFICATION FairSpec
CONSTANT MaxChanges = 3
CHECK_DEADLOCK FALSE
INVARIANTS
  EvidenceIsReal
  ReportedSdkIsImported
  PassUsedPinned
  CancelledIsClean
PROPERTIES
  Ends
  ImplementsContainedRun
