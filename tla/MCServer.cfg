SPECIFICATION ServerSpec
CONSTANTS
  Requests <- MCRequests
  Mixes <- MCMixes
  MaxConns = 2
INVARIANTS
  ConfigKept
  OrderlyStop
PROPERTIES
  ShutdownEnds
  ServedUnlessStarved
