\* Three calls of two commands, and everything that may go wrong.
SPECIFICATION FairSpec
CONSTANTS
    Cmds = {start, stop}
    Slow = TRUE
    Flaky = TRUE
    Retargets = TRUE
    ListenerCalls = TRUE
    MaxCalls = 3
INVARIANTS
    WaitingAreListed
    ExecutedOnceInOrder
    RightPromise
PROPERTIES
    CallersDoNotHang
