SPECIFICATION FairSpec
CONSTANTS
  Clients = {c1, c2}
  Keys = {k1}
  Values = {empty, x}
  EmptyValue = empty
  NoEntry = NoEntry
  Reliable = FALSE
  Unstable = {}
  AnyVersion = TRUE
  MaxOps = 2
  MaxVersion = 1
  MaxHandlers = 2
  QueueCap = 1
PROPERTIES Linearizable CallsReturn
