CONSTANTS
  NumStores = 4
  ContractStore = 2
  MongoStore = 3
  MaxHeight = 3
  ContractHeights = {1, 2}
  Faults = {"crash", "storeFailure", "contextFailure", "consensusRestart"}
  MaxFaults = 2
SPECIFICATION Spec
CHECK_DEADLOCK FALSE
INVARIANTS
  CommittedBlocksAreWhole
  PreviousStaysBehind
  NoBlockForgotten
  QueryNeverAhead
  ReportedHash
  ContractHasDatabase
PROPERTIES
  ImplementsLedger
