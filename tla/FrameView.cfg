SPECIFICATION ViewSpec
CONSTANTS
  AppId = 16385
  ConfRev = 1
  Synch = 2
  Mus = {1, 2}
  Name <- MCName
  NewName <- MCNewName
  Pool <- MCPool
  Sample <- MCSample
  InitialList <- MCInitialList
  Vlans = {0, 5}
  Priorities = {0, 7}
  AsduCounts = {1, 4}
  Toggled <- MCToggled
  MaxFetches = 2
  MaxActs = 5
INVARIANTS TreeIsCurrent ViewConsistent BytesAgree
CHECK_DEADLOCK FALSE
