SPECIFICATION KillingRunSpec
CONSTANTS
  MaxEvents = 16
  MaxInFlight = 1
  DrainFirst = TRUE
  CrashExits <- AnyCrash
  SdkBackends <- OneBackend
CHECK_DEADLOCK FALSE
PROPERTY DescendantsEndWithOwner
