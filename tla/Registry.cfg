CONSTANTS
    p1 = p1
    p2 = p2
    h1 = h1
    h2 = h2
    Port = {p1, p2}
    Managed = {p1}
    Mgr = {m1, m2, m3}
    Handler = {h1, h2}
    Poll = Poll
    NoPort = NoPort
    NoMgr = NoMgr
    Asks <- MCAsks
SPECIFICATION FairSpec
INVARIANTS TypeOK NeverDisappears
CHECK_DEADLOCK FALSE
PROPERTIES EveryRequestEnds PollGoesOn
