SPECIFICATION FairSpec
CONSTANTS
  Model = {m1}
  Pid = {p1,p2}
  Task = {t1}
  NoModel = NoModel
  NoPid = NoPid
  NoFile = NoFile
  Events = {"external", "exit"}
PROPERTIES LoadsEnd ConflictHeals 
CHECK_DEADLOCK FALSE
