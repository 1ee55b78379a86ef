CONSTANTS
  First = 1
  Last = 2
  Payments <- MCPayments
  Gap = 1
  MaxQueue = 2
  MaxFaults = 0
SPECIFICATION Spec
CHECK_DEADLOCK FALSE
INVARIANT
  StoppedHasNoStream
