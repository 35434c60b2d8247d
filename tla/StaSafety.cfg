SPECIFICATION Spec
CONSTANTS
    a1 = a1
    a2 = a2
    NoAp = NoAp
    Aps <- TwoAps
    Caps <- MixedCaps
    ErpSupported = FALSE
    QosSupported = FALSE
    HtSupported = FALSE
    VhtSupported = FALSE
    HeSupported = FALSE
    Snrs <- ThreeSnrs
    SnrDb <- Db
    m_snrThreshold = 20
    ProbeRequestTimeout = 1
    WaitBeaconTimeout = 2
    AssocRequestTimeout = 2
    Interval <- Intervals
    MaxMissedBeacons = 2
    Fits = {TRUE}
    StrayResponses = TRUE
    SilenceBound = 4
    AssertsEnabled = TRUE
INVARIANTS
    NeverStranded
    NoLeftoverEvent
    CandidatesRanked
    WatchdogFollowsEnd
    WatchdogPatient
PROPERTY ImplementsAssociation
