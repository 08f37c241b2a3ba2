SPECIFICATION FairHeartbeatSpec
CONSTANTS
  p1 = p1
  p2 = p2
  Peer = {p1, p2}
  ServePort = {q1}
  Share = Share
  Loop = {l1}
  NoLoop = NoLoop
  Handler = {h1}
  Hostfile <- TwoHostfiles
  Events = {"loss", "recover", "hang", "share"}
INVARIANTS ThreeStrikes StatusIsTrue 
PROPERTIES DeadPeerStopsServers
CHECK_DEADLOCK FALSE
