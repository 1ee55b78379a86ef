CONSTANTS
  Conns = {c1, c2}
  MaxParts = 4
  MaxBad = 1
SPECIFICATION FairSpec
CHECK_DEADLOCK FALSE
INVARIANTS
  NoRequestForgotten
  EndedBetweenRequests
  ExitCutsNobody
PROPERTIES
  ShutdownEnds
