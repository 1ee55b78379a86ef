CONSTANTS
  Ids = {1, 2, 3}
  Values = {v1, v2}
  None = None
  MaxHeight = 4
SPECIFICATION Spec
CHECK_DEADLOCK FALSE
PROPERTY DeleteLeavesNoUpdate
