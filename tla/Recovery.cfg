SPECIFICATION FairSpec
CONSTANTS
  Workers = {w1, w2, w3}
  Nobody = Nobody
  maxRecoveries = 2
  MaxEvents = 2
CHECK_DEADLOCK FALSE
INVARIANTS BrokenNeverReused ClientNotBlamed
PROPERTIES OneResponse HandlerReturns
