SPECIFICATION Spec
CONSTANTS
    NThreads = 3
    Slots <- PeerAndQueue
    Kind <- Kinds
    Owner <- Args
    Fd <- Fdes
    Delays <- Times
    Vals = {1, 2}
    NFds = 1
    MaxLate = 1
INVARIANTS
    InOnePlace
    
    PqueueCorrect
PROPERTIES
    
    NoStarvation
