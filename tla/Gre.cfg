SPECIFICATION Spec
CONSTANTS
    BRG1 = BRG1
    BRG2 = BRG2
    BRG3 = BRG3
    BRGr = BRGr
    Router = Router
    Brgs <- ThreeBrgs
    MaxPackets = 7
    MaxRing = 3
CHECK_DEADLOCK FALSE

    
PROPERTIES
    HeardIsTunnelled
    
