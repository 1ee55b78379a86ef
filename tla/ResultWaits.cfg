CONSTANTS
  Calls = {c1, c2}
  Txs = {t1}
  MaxHeight = 3
  MaxFaults = 2
SPECIFICATION FairSpec
CHECK_DEADLOCK FALSE
INVARIANTS
  ProofShowsResult
  NoResultMissed
  NoListenerForgotten
PROPERTIES
  CallsAnswered
  ComesBack
