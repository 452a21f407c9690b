SPECIFICATION Spec
CONSTANTS
  Kinds <- SomeKinds
  Catalog <- SomeCatalog
  Templates <- SomeTemplates
  Spaces = {"pg", "dev", "target"}
  Pins = {1, 2}
  Sources = {"pg", "dev"}
  Target = "target"
  Backups = {"a", "b"}
  SourceOf <- OwnSource
  GroupOf <- OneGroup
  PicksOf <- AllClaims
  InitObjects <- Start
  Edits <- Changes
  Drop = {"Secret", "Service"}
  Keep = {"Secret"}
  FirstNode = 1
  Faults = {}
  MaxFaults = 0
INVARIANTS ReportsOwn
CHECK_DEADLOCK FALSE
