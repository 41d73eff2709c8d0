SPECIFICATION FairSpec
CONSTANTS
  Records = {r1}
  Publishers = {p1, p2}
  BatchSize = 1
  LeaseDuration = 2
  MaxAttempts = 3
  InitialBackoff = 2
  MaxBackoff = 3
  MaxLate = 1
  MaxFaults = 2
  Null = Null
PROPERTIES
  Settles
  RetrySpaced
