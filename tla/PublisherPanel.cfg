\* Two of: a start, another one, a reset, a lost connection; two publishers.
SPECIFICATION FairSpec
CONSTANTS
    Starters = {"first", "second"}
    GooseLids = {2}
    MaxLid = 2
    MaxEvents = 2
    MaxId = 3
    MaxTicks = 1
INVARIANTS
    PageAndEngineAgree
PROPERTIES
    StopSilences
    EndIsNoticed
    RunIsShown
