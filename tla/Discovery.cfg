SPECIFICATION FairSpec
CONSTANTS
  listed = listed
  others = {w1}
  Urls <- MCUrls
  List <- MCList
  Lookups = {r1, r2}
  Timeout = 2
  MaxFaults = 3
INVARIANTS PoolIsVouched
PROPERTIES KnowledgeKept PoolConverges
