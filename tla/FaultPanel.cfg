\* Four of: a change of the panel, Apply, Reset, Start, Stop, a lost connection.
SPECIFICATION FairSpec
CONSTANTS
    Profiles = {"loss"}
    MaxCount = 1
    MaxTicks = 1
    MaxCalls = 3
    MaxEvents = 4
INVARIANTS
    PanelAndInjectorAgree
PROPERTIES
    FaultsEndWithRun
    NumbersCatchUp
