SPECIFICATION Spec
CONSTANTS
  p1 = p1
  p2 = p2
  k1 = k1
  k2 = k2
  Paths = {p1, p2}
  Absent = "none"
  Entries = {"report", "exec"}
  Regular = {"report"}
  Publishable = {"report"}
  Independent = {k1, k2}
  Anonymous = "anonymous"
  Observed <- Successes
  Configuration <- OneConfiguration
  Offered <- MCOffered
  Genesis <- EmptyRegistry
  Admitted <- RegistryAdmitted
  RestAfter <- RegistryAfter
  MaxIntroduced = 4
  MaxLine = 4
  MaxTopic = 4
SYMMETRY Symmetry
CHECK_DEADLOCK FALSE
INVARIANTS
  HeadsAreKept
  CheckedHistoryKeeps
  AdditiveForkAccepted
  EveryReportIsAccounted
  ReproducedIsIndependent
  ReleaseGateAgrees
PROPERTIES
  ImplementsLedger
