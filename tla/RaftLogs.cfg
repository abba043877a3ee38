SPECIFICATION FairSpec
CONSTANTS
  Servers = {s1, s2}
  Cmds = {a, b}
  None = None
  MaxLog = 3
  SnapShotInterval = 2
  MaxKills = 1
  MaxOdd = 1
  Expected = 2
  Configs <- TestConfigs
INVARIANTS Truthful NoFalseAlarm FaultCaught
PROPERTIES OneIsCommitted CatchUp
CHECK_DEADLOCK FALSE
