SPECIFICATION Spec
CONSTANTS
  Nodes = {1, 2}
  Claims = {1, 2}
  Hook <- FirstHooked
  SpecPVCs = {}
  Selector = "nil"
  Labelled = {}
  InitWorlds <- LastUnbound
  StatusLag = 1
  ObjectLag = 2
  Faults = {"abort", "crash", "delete", "ttl", "outage", "podLoss", "repoLoss"}
  MaxFaults = 2
  MaxCount = 2
INVARIANTS MetricsMatchOutcome OutcomeInv NoJobLeftBehind
PROPERTIES TerminalFinal RecordedNotRecreated ImplementsLifecycle
CHECK_DEADLOCK FALSE
