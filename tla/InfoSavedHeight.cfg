CONSTANTS
  NumStores = 3
  ContractStore = 1
  MongoStore = 2
  MaxHeight = 3
  ContractHeights = {}
  Faults = {"consensusRestart"}
  MaxFaults = 1
SPECIFICATION Spec
CHECK_DEADLOCK FALSE
PROPERTY InfoReportsSavedHeight
