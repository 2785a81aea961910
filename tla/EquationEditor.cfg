SPECIFICATION EditorSpec
CONSTANTS
  Base <- MCBase
  Neutral = {"Vn"}
  Drafts <- MCDrafts
  Magnitudes = {0, 2}
  AutoNames <- MCAutoNames
  MaxChannels = 4
  Files = {"f1", "f2"}
  MaxEdits = 7
INVARIANTS EditorConsistent
PROPERTIES ApplyHitsShown
CHECK_DEADLOCK FALSE
