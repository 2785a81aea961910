\* One client thread, two publishers, runs of 0, 1 and 2 seconds, repeated.
SPECIFICATION FairSpec
CONSTANTS
    Clients = {ws}
    Exiters = {}
    MaxId = 2
    Durations = {0, 1}
    RepeatCounts = {0, 2}
    MaxTime = 1
    MaxCycle = 2
    RetuneWhileRunning = FALSE
    NoOne = NoOne
INVARIANTS
    TypeOK
    WriterMemorySafe
    RunningHasWriter
    FullCourse
PROPERTIES
    StopReturns
    NaturalEnd
