SPECIFICATION Spec
CONSTANTS
  Workers = {w1, w2}
  nMap = 2
  nReduce = 1
  TaskCap = 3
  CompletionCap = 1
  Lateness = {TRUE, FALSE}
  MaxFaults = 1
  Strays = {}
SYMMETRY Symmetry
INVARIANTS NoTaskLost NoDuplicateTask ReduceInputsWhole OutputComplete OutputFinalTimely
PROPERTY ImplementsJob
