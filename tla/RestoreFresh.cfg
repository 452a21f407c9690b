SPECIFICATION FairSpec
CONSTANTS
  Nodes = {1, 2}
  Volumes = {1, 2}
  Pins <- FirstOnSecond
  InitWorlds <- World
  StatusLag = 1
  ObjectLag = 1
  Faults = {"abort", "crash", "delete", "ttl", "outage", "repoLoss", "longHold",
            "tamper", "leave"}
  MaxFaults = 2
INVARIANTS TypeOK
PROPERTIES PhaseMonotone RestoreSettles
CHECK_DEADLOCK FALSE
