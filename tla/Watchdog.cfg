SPECIFICATION Spec
CONSTANTS
  Pid = {p1, p2}
  Portless = {p2}
  Jitter = {0, 3}
  Events = {"stubborn", "immune"}

PROPERTIES KillsAreEarned  SeverityClimbs
