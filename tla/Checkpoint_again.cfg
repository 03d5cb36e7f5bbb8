SPECIFICATION Spec
CONSTANTS
  Muxers = {FALSE}
  Duration = 1
  Plays = {0}
  UserSeeks = {}
  NoHint = NoHint
  MaxSegments = 3
  MaxStarts = 3
PROPERTIES
  NoRedo
CHECK_DEADLOCK FALSE
