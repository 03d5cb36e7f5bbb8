SPECIFICATION Spec
CONSTANTS
  Muxers = {TRUE, FALSE}
  Duration = 2
  Plays = {0, 4}
  UserSeeks = {0, 4, 20}
  NoHint = NoHint
  MaxSegments = 3
  MaxStarts = 3
INVARIANT TypeOK
PROPERTIES
  FirstResumeExact
  SeekHonoured
CHECK_DEADLOCK FALSE
