SPECIFICATION Spec
CONSTANTS
  Calls = {c1, c2, c3, c4}
  Reports = {b1}
  m1 = m1
  m2 = m2
  a1 = a1
  Modules = {m1, m2}
  Actors = {a1}
  OwnerEntries <- MCOwnerEntries
  PolicyResults <- MCPolicyResults
  AllowMaintainerApproval = TRUE
  MaxOwnerChanges = 2
  Null = Null
SYMMETRY Symmetric
CHECK_DEADLOCK FALSE
INVARIANTS
  TypeOK
  IdempotentCreation
  ApprovalSound
  OneDecisionPerRequirement
  AuditExplainsStatus
  SingleRequirementExact
PROPERTIES
  DecisionsFinal
