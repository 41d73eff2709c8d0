\* One module with two versions, one service in two environments, two clients that
\* may report at the same time, two deployments.
CONSTANTS
  m = m
  v1 = v1
  s = s
  Modules = {m}
  Versions = {v1, v2}
  Services = {s}
  Environments = {prod, staging}
  Reporters = {r1, r2}
  Inputs <- SomeInputs
  MaxTime = 2
  MaxDeployments = 2
  Null = Null
SPECIFICATION Spec
SYMMETRY Symmetry
INVARIANTS
  DriftTruthful
  SummaryAnnounced
  LatestFollowsReports
CHECK_DEADLOCK FALSE
