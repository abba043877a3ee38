SPECIFICATION FairSpec
CONSTANTS
  Clients = {c1, c2}
  Keys = {lock}
  Values = {c1, c2, nobody}
  EmptyValue = nobody
  LockName = lock
  MaxAcquires = 2
INVARIANT MutualExclusion
PROPERTIES HandOver ReleaseReturns OwnerLearns SomebodyAcquires
