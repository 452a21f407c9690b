SPECIFICATION FairSpec
CONSTANTS
  Nodes = {1, 2}
  Claims = {1, 2}
  Hook <- FirstHooked
  SpecPVCs = {1, 2}
  Selector = "nil"
  Labelled = {}
  InitWorlds <- LastMissing
  StatusLag = 2
  ObjectLag = 2
  Faults = {"abort", "crash", "delete", "podLoss", "collect"}
  MaxFaults = 1
  MaxCount = 2
INVARIANTS JobsPrepared CompletedIsRestorable RefIsWholeBackup
PROPERTIES Settles
CHECK_DEADLOCK FALSE
