SPECIFICATION Spec
CONSTANTS
    Start <- Origin
    Upper <- Square
    Lower <- LowerLeft
    Moves <- EightWays
    MaxMoves = 4
    Steps = 3
INVARIANTS
    StaysInside
PROPERTY KeepsReporting
