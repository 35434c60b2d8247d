SPECIFICATION Spec
CONSTANTS
    s1 = s1
    s2 = s2
    Stations <- TwoStations
    SimuTime = 8
    PktLen = 3
    CWmin = 2
    CWmax = 3
    Gaps = {1, 3}
    FullTime <- Rates
    LongestTx = 2
INVARIANTS
    BackoffInWindow
    BitsConserved
    HeldWhileSending
