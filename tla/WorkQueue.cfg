SPECIFICATION Spec
CONSTANTS
    Items <- RouteNodes
    max_retries = 2
    UINT_MAX = 1000
    MaxCycles = 18
INVARIANTS
    LoopOnList
    ScheduledIfWork
PROPERTIES
    GranularityGrows
    Drains
    Completes
