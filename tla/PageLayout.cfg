SPECIFICATION Spec
CONSTANTS
  Keys = {"id", "type"}
  Default = {"id"}
  OldKeys = {"type", "gone"}
  Room <- MCRoom
  MinWidth = 6
  Moves <- MCMoves
  MaxEvents = 7
INVARIANTS PanelsSurvive ChoicesRemembered
PROPERTIES GripFits
