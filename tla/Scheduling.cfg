SPECIFICATION Spec
CONSTANTS
  Workers <- MCWorkers
  FirstBackend <- MCFirstBackend
  MaxSessions <- MCMaxSessions
  Dispatches = {d1, d2}
  GpuLoads = {0, 1}
  Strategies = {"load", "round-robin", "least-sessions", "random"}
  MaxProbes = 1
  MaxPolls = 2
SYMMETRY Symmetry
CHECK_DEADLOCK FALSE
INVARIANTS EachOnce FirstIsNearLeast Rotation
