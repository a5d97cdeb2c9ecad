SPECIFICATION FairSpec
CONSTANT MaxEvents = 16
CHECK_DEADLOCK FALSE
INVARIANTS
  ContractHonoured
  PassIsEarned
  FirstFailureReported
PROPERTIES
  Settles
