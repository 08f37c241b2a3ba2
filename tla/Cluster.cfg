CONSTANTS
    h = h
    w = w
    hub1 = hub1
    ip = ip
    work1 = work1
    work2 = work2
    None = None
    Machine = {h, w}
    Name = {hub1, work1, work2, ip}
    Parent <- MCParent
    Called <- MCCalled
    Address <- MCAddress
    Known = {work1}
    Hosts = {}
    Local = h
    Listed = {ip}
    Capacity = 1
    MaxStarts = 1
SPECIFICATION FairSpec
INVARIANTS TypeOK OneEntry
PROPERTIES GoneIsOffline SteadyIsShown
CHECK_DEADLOCK FALSE
