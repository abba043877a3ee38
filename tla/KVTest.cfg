CONSTANTS
  c1 = c1
  c2 = c2
  c3 = c3
  Main = main
  Clients = {main, c1, c2, c3}
  Clerks = {main, c1, c2, c3}
  Servers = {s1, s2}
  Home = s1
  Keys = {k}
  Key = k
  Values <- EntryLists
  EmptyValue <- NoEntries
  Teams <- TwoRounds
  MaxIters = 2
  MaxPartitionedIters = 1
  MaxMaybes = 2
SPECIFICATION FairSpec
INVARIANTS ChecksPass Confined Reaching NoFatal EndsReclaimed
PROPERTY TestEnds
CHECK_DEADLOCK FALSE
