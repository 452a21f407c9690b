SPECIFICATION Spec
CONSTANTS
  Kinds <- SomeKinds
  Catalog <- SomeCatalog
  Templates <- SomeTemplates
  Spaces = {"pg", "target"}
  Pins = {1, 2}
  Sources = {"pg"}
  Target = "target"
  Backups = {"a"}
  SourceOf <- OneSource
  GroupOf <- OwnGroup
  PicksOf <- CacheOnly
  InitObjects <- Start
  Edits <- Changes
  Drop = {"Secret", "Service"}
  Keep = {"Secret"}
  FirstNode = 1
  Faults = {}
  MaxFaults = 0
INVARIANTS RestoreWorks
CHECK_DEADLOCK FALSE
