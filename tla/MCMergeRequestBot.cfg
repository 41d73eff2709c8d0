\* Two jobs of one commit, one of them with --governance=true, three notes and
\* pages of one.
CONSTANTS
  j1 = j1
  j2 = j2
  c = c
  Jobs = {j1, j2}
  Commit <- OneCommit
  Governance = {j1}
  PageSize = 1
  MaxNotes = 3
  Null = Null
SPECIFICATION Spec
INVARIANTS
  GateHonest
  DuplicatesExplained
CHECK_DEADLOCK FALSE
