CONSTANTS
    Routers <- RouterSet
    local_id <- Ids
    holdtime <- NoHoldTimes
    Conns = {1, 2, 3}
    MaxAccept = 2
    MaxFaults = 1
    FaultKinds = {"crash"}
SPECIFICATION Spec
PROPERTY EstablishedWins
