SPECIFICATION Spec
CONSTANTS
    BRG1 = BRG1
    BRG2 = BRG2
    Brgs <- TwoBrgs
    sport <- Sports
    dport <- Dports
    key <- Keys
    EarlyData = FALSE
    MaxPackets = 5
    MaxRing = 3
CHECK_DEADLOCK FALSE
INVARIANTS
    TunnelMatchesBridge
    
PROPERTIES
    HeardIsTunnelled
    
