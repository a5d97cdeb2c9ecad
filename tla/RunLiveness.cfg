SPECIFICATION FairRunSpec
CONSTANTS
  MaxEvents = 16
  MaxInFlight = 1
  DrainFirst = TRUE
  CrashExits <- SilentCrash
  SdkBackends <- OneBackend
CHECK_DEADLOCK FALSE
PROPERTIES
  Decides
  OrphanEnds
