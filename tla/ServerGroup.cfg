CONSTANTS
  Servers = {s1, s2}
  Clerks = {c}
  Slots = {x}
  Reliable = FALSE
  MaxStarts = 2
  MaxSaves = 1
SPECIFICATION FairSpec
INVARIANTS KnownIsDurable LinksMatchConnected
PROPERTY ForwardsReturn
