SPECIFICATION FairSpec
CONSTANTS
  NShards = 4
  Gids = {1, 2, 3, 4, 5, 6}
  Servers <- ServerNames
  MaxNum = 3
  MaxBatch = 2
INVARIANTS ConfigChecks FewestMoves
PROPERTY RebalanceEnds
CHECK_DEADLOCK FALSE
