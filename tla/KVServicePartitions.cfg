SPECIFICATION Spec
CONSTANTS
  Clients = {c1, c2}
  Keys = {k1}
  Values = {empty, x}
  EmptyValue = empty
  NoEntry = NoEntry
  Reliable = TRUE
  Unstable = {c1}
  AnyVersion = FALSE
  MaxOps = 2
  MaxVersion = 2
  MaxHandlers = 2
  QueueCap = 2
PROPERTY Linearizable
