CONSTANTS
  Servers = {s0, s1}
  Labs = {"kvsrv", "raft", "rsm", "kvraft"}
  Handlers = {h1}
  VisEnable = {"never", "unset", "always"}
  MaxTests = 2
  MaxTime = 4
SYMMETRY Symmetry
SPECIFICATION Spec
INVARIANTS TimelineTrue OpsKept FailureShown
CHECK_DEADLOCK FALSE
