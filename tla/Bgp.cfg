CONSTANTS
    Routers <- RouterSet
    local_id <- Ids
    holdtime <- HoldTimes
    Conns = {1, 2}
    MaxAccept = 1
    MaxFaults = 1
    FaultKinds = {"overlap", "crash", "clear", "hold", "connect", "partial", "malformed"}
SPECIFICATION Spec
INVARIANTS OneOwner NeverStuck Listening SameVerdict  UpdateInOrder HoldAgreed 
