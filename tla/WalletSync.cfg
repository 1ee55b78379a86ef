CONSTANTS
  First = 1
  Last = 2
  Payments <- MCPayments
  Gap = 1
  MaxQueue = 2
  MaxFaults = 2
SPECIFICATION FairSpec
CHECK_DEADLOCK FALSE
INVARIANTS
  OneChunkAtATime
  OneStream
  NoPaymentPassed
PROPERTIES
  HistoryEnds
  ChunksProcessed
  StopEnds
