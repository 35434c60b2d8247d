SPECIFICATION Spec
CONSTANTS
    a1 = a1
    a2 = a2
    NoAp = NoAp
    Aps <- OneAp
    Caps <- MixedCaps
    ErpSupported = FALSE
    QosSupported = FALSE
    HtSupported = FALSE
    VhtSupported = FALSE
    HeSupported = FALSE
    Snrs <- TwoSnrs
    SnrDb <- Db
    m_snrThreshold = 20
    ProbeRequestTimeout = 1
    WaitBeaconTimeout = 2
    AssocRequestTimeout = 2
    Interval <- ShortIntervals
    MaxMissedBeacons = 3
    Fits = {TRUE}
    StrayResponses = TRUE
    SilenceBound = 3
    AssertsEnabled = FALSE
PROPERTIES
    SilentApIsLeft
    WaitEnds
    RefusedIsRetried
