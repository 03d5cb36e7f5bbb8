SPECIFICATION ReadSpec
CONSTANTS
  Tickets = {t1, t2}
  Probes = {p1, p2}
  MaxTime = 1
SYMMETRY Symmetry
CHECK_DEADLOCK FALSE
INVARIANTS LedgerExact LoadCoversLive ReuseIsJustified ReadCoversUnlessProbed
