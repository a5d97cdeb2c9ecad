SPECIFICATION Spec
CONSTANTS
  r1 = r1
  r2 = r2
  r3 = r3
  d1 = d1
  d2 = d2
  p1 = p1
  p2 = p2
  Request = {r1, r2, r3}
  Digest = {d1, d2}
  Process = {p1, p2}
  DigestOf <- TwoReports
  ProcessOf <- TwoRelays
  MaxPending = 1
  MaxConcurrent = 1
  MaxPulls = 2
  LateEffects = TRUE
  MaxLate = 2
  Patient = {d1}
INVARIANTS
  OnePull
PROPERTIES
  ImplementsDurableIntake
