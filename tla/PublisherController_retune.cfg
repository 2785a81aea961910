\* Clients call mp_set_duration during a run.
SPECIFICATION Spec
CONSTANTS
    Clients = {ws}
    Exiters = {}
    MaxId = 1
    Durations = {0, 1}
    RepeatCounts = {0, 2}
    MaxTime = 1
    MaxCycle = 2
    RetuneWhileRunning = TRUE
    NoOne = NoOne
INVARIANTS
    RunningHasWriter
