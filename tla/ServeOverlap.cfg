SPECIFICATION Spec
CONSTANTS
  Model = {m1}
  Pid = {p1,p2,p3}
  Task = {t1,t2}
  NoModel = NoModel
  NoPid = NoPid
  NoFile = NoFile
  Events = {"external", "exit", "disconnect"}
INVARIANTS NoLeakedServer ReportedModelIsServed
PROPERTIES StopIsRespected
CHECK_DEADLOCK FALSE
SYMMETRY Symmetry
