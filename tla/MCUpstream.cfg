CONSTANTS
  MaxAttempts = 4
  FastAttempts = 4
  FastWait = 1
  Waits = {2}
  Budget = 4
  MaxFrames = 3
  Cap = 2
  TraeFrames = 6
  Creds = {a, b}  Changes = 1  Home = "global"  Horizon = 1
SPECIFICATION LanesSpec
CHECK_DEADLOCK FALSE
INVARIANTS FailureToldOnce FaultsDecide NothingLost RealmKept
PROPERTIES CallsKeepContract CallsEnd CatalogSettles
