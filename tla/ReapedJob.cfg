SPECIFICATION FairSpec
CONSTANTS
  Nodes = {1, 2}
  Claims = {1, 2}
  Hook <- FirstHooked
  SpecPVCs = {}
  Selector = "nil"
  Labelled = {}
  InitWorlds <- OnePerNode
  StatusLag = 1
  ObjectLag = 1
  Faults = {"ttl"}
  MaxFaults = 1
  MaxCount = 2
PROPERTIES ReachesTerminal
CHECK_DEADLOCK FALSE
