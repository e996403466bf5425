SPECIFICATION FairSpec
CONSTANTS
  None = None
  Clusters = {"c"} RuleIds = {"r"}
  Groups = {1, 2}
  Offline = Offline Gone = Gone
  Levels = {0, 1}
  Covers <- Prefixed
  Bodies <- MCBodies
  Ticker = "ticker" Requests = {"now"}
  Faults = {"list", "lag", "resolve", "insert", "restart"}
  MaxFaults = 1
  Cap = 3
INVARIANTS TypeOK DuplicatesBounded NoEventForMissingRule
PROPERTIES JudgedGroupsKeepEvents LagRaises RecoveryResolves
