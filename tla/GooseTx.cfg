\* Two runs, three values into a ring of two, an interface that comes and goes.
SPECIFICATION FairSpec
CONSTANTS
    Depth = 2
    FirstRetx = 1
    Heartbeat = 4
    Jitter = 1
    MaxPush = 3
    MaxRuns = 2
    MaxSq = 3
INVARIANTS
    TypeOK
    InTime
    StoppedMeansSilent
PROPERTIES
    StopReturns
    NewestIsShown
    BroadcastSpec
