SPECIFICATION Spec
CONSTANTS
  m1 = m1
  m2 = m2
  Modules = {m1, m2}
  Changed = m1
  Breaking = TRUE
  Environments = {"Production ", "staging"}
  Canonical <- MCCanonical
  Enabled = TRUE
  ProductionEnvironments = {}
  AllowMaintainerApproval = TRUE
  ImpactLimit = 2
  MaxChanges = 3
  Null = Null
CHECK_DEADLOCK FALSE
INVARIANT
  ProductionConsumersAsked
