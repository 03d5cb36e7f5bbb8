SPECIFICATION SessionSpec
CONSTANTS
  Workers = {w1, w2}
  Nobody = Nobody
  maxRecoveries = 2
  MaxEvents = 0
CHECK_DEADLOCK FALSE
INVARIANTS SuccessIsReal SuccessIsTold
PROPERTIES SignalEnds NothingLeftRunning
