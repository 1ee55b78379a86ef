CONSTANTS
  Txs = {t1, t2}
  Lockable = {t1}
  CacheSize = 1
  Keep = 1
  MaxBlocks = 2
  Counts = {0, 1}
  MaxFlight = 3
SPECIFICATION FairSpec
CHECK_DEADLOCK FALSE
INVARIANTS
  ProofAfterTransactions
  NothingSeenIsLost
  NoGapWhenCaughtUp
  LockSentOnce
PROPERTIES
  PendingGetsSent
