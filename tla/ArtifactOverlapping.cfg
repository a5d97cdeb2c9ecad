SPECIFICATION Spec
CONSTANTS
  s1 = s1
  s2 = s2
  Session = {s1, s2}
  Old = Old
  NoFile = NoFile
  Quiescent = FALSE
SYMMETRY AttemptSymmetry
CHECK_DEADLOCK FALSE
INVARIANTS
  BlobIsVerified
  SettledClean
  HonestChildAccepted
PROPERTIES
  NoClobber
