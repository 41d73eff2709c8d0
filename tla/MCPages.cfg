SPECIFICATION Spec
CONSTANTS
  ModuleNames <- MCModuleNames
  Inventories <- MCInventories
  Versions = {"v1", "v2"}
  Seeded = "v1"
  Services = {"shop", "web"}
  Environments = {"prod", "dev"}
  VersionsLimit = 1
  ReportsLimit = 1
  ListLimit = 2
  ChangesLimit = 1
  MaxTime = 2
  MaxRows = 3
  MaxCommits = 3
  Null = Null
INVARIANTS
  LatestHonest
  PageWhole
  ApprovalBacked
  NotFoundHonest
