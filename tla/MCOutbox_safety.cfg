SPECIFICATION Spec
CONSTANTS
  Records = {r1, r2}
  Publishers = {p1, p2}
  BatchSize = 2
  LeaseDuration = 2
  MaxAttempts = 2
  InitialBackoff = 1
  MaxBackoff = 2
  MaxLate = 1
  MaxFaults = 1
  Null = Null
SYMMETRY Symmetric
INVARIANTS
  TypeOK
  NoStrandedClaim
  ClaimDispatchedOnce
PROPERTIES
  DeadNeverRetried
  ImplementsDelivery
