SPECIFICATION Spec
CONSTANTS
  Kinds <- SomeKinds
  Catalog <- SomeCatalog
  Templates <- SomeTemplates
  Spaces = {"pg", "target"}
  Pins = {1, 2}
  Sources = {"pg"}
  Target = "target"
  Backups = {"a", "b"}
  SourceOf <- OneSource
  GroupOf <- OwnGroup
  PicksOf <- AllClaims
  InitObjects <- Start
  Edits <- Changes
  Drop = {"Secret", "Service"}
  Keep = {"Secret"}
  FirstNode = 1
  Faults = {"edit", "write", "prune", "client"}
  MaxFaults = 2
INVARIANTS TypeOK ReportsOwn RestoreWorks RestoredIsBackup PodsFindVolumes
CHECK_DEADLOCK FALSE
