SPECIFICATION FairSpec
CONSTANTS
  Workers = {w1, w2}
  nMap = 1
  nReduce = 1
  TaskCap = 1
  CompletionCap = 1
  Lateness = {TRUE}
  MaxFaults = 1
  Strays <- StrayCompletions
PROPERTIES ImplementsJob JobFinishes WorkersExit
CHECK_DEADLOCK FALSE
