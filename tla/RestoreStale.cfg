SPECIFICATION FairSpec
CONSTANTS
  Nodes = {1, 2}
  Volumes = {1, 2}
  Pins <- AllPinned
  InitWorlds <- OpenWorlds
  StatusLag = 2
  ObjectLag = 2
  Faults = {"abort", "crash", "ttl", "join", "leave"}
  MaxFaults = 2
INVARIANTS WorkloadOnFullVolumes CompletedIsRestored
PROPERTIES RestoreEnds
CHECK_DEADLOCK FALSE
