SPECIFICATION FairSpec
CONSTANTS
  h1 = h1
  h2 = h2
  h3 = h3
  s1 = s1
  s2 = s2
  Handlers <- MCHandlers
  Sessions <- MCSessions
  session <- MCSession
  Nobody = Nobody
  Caps = {0, 1}
CHECK_DEADLOCK FALSE
INVARIANTS EntryExact CapUnlessRaced QuietExit
PROPERTIES DrainEnds CancelledEnds
