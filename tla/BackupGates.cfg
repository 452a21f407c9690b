SPECIFICATION Spec
CONSTANTS
  Nodes = {1, 2}
  Claims = {1, 2, 3}
  Hook <- SecondInvalid
  SpecPVCs = {}
  Selector = "valid"
  Labelled = {1, 2}
  InitWorlds <- World
  StatusLag = 1
  ObjectLag = 1
  Faults = {"repoLoss", "drift"}
  MaxFaults = 1
  MaxCount = 2
INVARIANTS TypeOK HooksAtMostOnce HookFailureLeavesNoJobs UnreadableBlamesAgent UnselectedUntouched
CHECK_DEADLOCK FALSE
