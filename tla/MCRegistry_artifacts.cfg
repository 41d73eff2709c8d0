SPECIFICATION Spec
CONSTANTS
  Calls = {c1, c2}
  Modules = {m1}
  Versions = {v1}
  Sources = {s1}
  Projects = {}
  MaxFaults = 0
  i1 = i1
  ImageOf <- MCImageOf
  Null = Null
SYMMETRY Symmetric
CHECK_DEADLOCK FALSE
INVARIANTS
  PublishedArtifactsStored
