SPECIFICATION Spec
CONSTANTS
  LEOrder <- MCLEOrder
  PoolOrder <- MCPoolOrder
  Preset <- MCPreset
  MaxChannels <- MCMax
  Custom <- MCCustom
  Typed <- MCTyped
  Files <- MCFiles
  Rates = {80, 96}
  Starters = {s1, s2}
  MaxStreams = 2
  MaxEvents = 5
PROPERTIES StreamKeepsItsChannels
