SPECIFICATION FairSpec
CONSTANTS
  Slots = {1, 3}
  Horizon = 3
  Lag = 2
  Faults = {"abort", "crash", "delete", "edit", "repoLoss"}
  MaxFaults = 2
  MaxCount = 2
INVARIANTS TypeOK LastWasServed FireInv
PROPERTIES NeverBackfills OncePerSlot LastSlotServed ActiveConverges
CHECK_DEADLOCK FALSE
