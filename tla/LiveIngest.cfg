\* A magnitude and a Boolean submitter, two lives of the worker, two publishers.
SPECIFICATION FairSpec
CONSTANTS
    Submitters = {s1, g1}
    GooseFeeders = {g1}
    Capacity = 2
    Quiesce = TRUE
    TeardownInOrder = TRUE
    MaxValue = 2
    MaxInits = 2
    MaxPubs = 2
INVARIANTS
    MemorySafe
    FunnelKeepsAll
PROPERTIES
    StoreMovesForward
    ShutdownReturns
    AcceptedIsRouted
CHECK_DEADLOCK FALSE
