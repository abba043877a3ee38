SPECIFICATION Spec
CONSTANTS
  Workers = {w1, w2}
  nMap = 1
  nReduce = 1
  TaskCap = 2
  CompletionCap = 1
  Lateness = {TRUE}
  MaxFaults = 0
  Strays = {}
INVARIANT OutputFinal
