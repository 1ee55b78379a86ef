CONSTANTS
  NumStores = 4
  ContractStore = 2
  MongoStore = 3
  MaxHeight = 3
  ContractHeights = {2}
  Faults = {"crash", "storeFailure", "contextFailure"}
  MaxFaults = 2
SPECIFICATION FairSpec
CHECK_DEADLOCK FALSE
PROPERTIES
  EveryBlockCommitted
