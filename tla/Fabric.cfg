SPECIFICATION Spec
CONSTANTS
    None = None
    Node <- Nodes
    Port <- Ports
    Cable <- Cables
    Hub = 1
    Plugged <- InPlace
    Listed <- NodeList
    Static <- Fixed
    Tool = {2}
    Asked <- NoList
    Cuts <- PowerCut
    Restarts <- Updates
    OldLinks <- FromTui
    OldIps <- IpsKnown
    MaxAttempts = 2
    MaxEvents = 2
INVARIANTS TypeOK  
CHECK_DEADLOCK FALSE
CONSTRAINT OneAtATime
