SPECIFICATION Spec
CONSTANTS
  Model = {m1}
  Pid = {p1,p2}
  Task = {t1}
  NoModel = NoModel
  NoPid = NoPid
  NoFile = NoFile
  Events = {"external", "alien", "squatter", "status", "exit", "crash", "emergency", "wedge", "abort"}
INVARIANTS  Consistent
PROPERTIES KeepsLifecycle
CHECK_DEADLOCK FALSE
SYMMETRY Symmetry
