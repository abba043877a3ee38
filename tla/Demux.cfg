CONSTANTS
  Callers = {a, b}
  MaxCalls = 2
  BufLen = 1
SPECIFICATION FairSpec
INVARIANT NobodyForgotten
PROPERTIES CallersReturn ImplementsChannel
CHECK_DEADLOCK FALSE
