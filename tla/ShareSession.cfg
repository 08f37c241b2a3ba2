SPECIFICATION Spec
CONSTANTS
  hub = hub
  n1 = n1
  Node = {hub, n1}
  Hub = hub
  Session = {s1, s2}
  Pid = {p1, p2, p3}
  NoPid = NoPid
  NoSession = NoSession
  NoNode = NoNode
  Hostfile <- EitherWay
  Events = {"overlap", "late", "exit", "marker", "elsewhere", "crash", "emergency"}
INVARIANTS RankZeroHasCrew  WorkerCanBeStopped
SYMMETRY Symmetry
CHECK_DEADLOCK FALSE
