SPECIFICATION RunSpec
CONSTANTS
  MaxEvents = 16
  MaxInFlight = 2
  DrainFirst = FALSE
  CrashExits <- AnyCrash
  SdkBackends <- BothBackends
CHECK_DEADLOCK FALSE
INVARIANTS
  HonestRunnerAccepted
  ClaimIsReal
  ExecutedIsAdmitted
  CwdOutlivesChild
  FailureNamesFrontier
PROPERTY ImplementsContainedRun
