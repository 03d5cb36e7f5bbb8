SPECIFICATION HeartbeatSpec
CONSTANTS
  Urls = {w1}
  List = {}
  Lookups = {}
  Timeout = 3
  MaxFaults = 4
  ReapEvery = 1
  MaxBackoff = 6
INVARIANTS SilentWorkerLeaves
PROPERTIES OneLossTolerated WorkerRejoins
