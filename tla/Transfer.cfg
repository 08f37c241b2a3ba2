CONSTANTS
    n1 = n1
    n2 = n2
    m1 = m1
    Transfers = 2
    Node = {n1, n2}
    Model = {m1}
    MaxVersion = 2
    None = None
    Stored <- MCStored
    Asks <- MCAsks
    Events = {"refuse", "loss", "edit", "disk"}
SPECIFICATION FairSpec
INVARIANTS DoneMeansArrived
PROPERTY EveryPipelineEnds
CHECK_DEADLOCK FALSE
