CONSTANTS
  Limit = 2
  Initial = 3
  MaxCore = 6
  Faults = {"crash", "loss"}
  MaxFaults = 2
SPECIFICATION FairSpec
CHECK_DEADLOCK FALSE
INVARIANTS
  BlockHasList
  FinalizedLists
PROPERTY KeepsServing
