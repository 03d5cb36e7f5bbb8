SPECIFICATION LinkSpec
CONSTANTS
  Keys = {k1}
  Unwired = Unwired
  Sessions = {s1, s2}
  Reported = s1
  passCacheTTL = 2
  Timeout = 1
  Prelude = 1
PROPERTIES RulingIsBacked SpeedHeldBack FailsOpen FollowsPMS
