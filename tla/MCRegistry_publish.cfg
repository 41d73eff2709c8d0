SPECIFICATION Spec
CONSTANTS
  Calls = {c1, c2, c3, c4}
  Modules = {m1, m2}
  Versions = {v1}
  Sources = {s1, s2}
  Projects = {p1, p2}
  MaxFaults = 1
  i1 = i1
  ImageOf <- MCImageOf
  Null = Null
SYMMETRY Symmetric
CHECK_DEADLOCK FALSE
INVARIANTS
  RepliesTruthful
  StoreAgrees
  LinksAnnounced
PROPERTIES
  ImplementsCatalog
