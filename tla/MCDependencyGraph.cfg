SPECIFICATION Spec
CONSTANTS
  Modules = {m1, m2, m3}
  Versions = {v1, v2}
  Descriptors <- MCDescriptors
  WellKnown = {"timestamp"}
  Requests = {r1}
  MaxTime = 3
  Null = Null
SYMMETRY Symmetric
CHECK_DEADLOCK FALSE
INVARIANTS
  ReferencesAccounted
  AffectedOrReported
  LatestRespectsOrder
  AnswerWhole
