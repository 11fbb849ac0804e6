CONSTANTS
  Goroutines = {g0, g1}
  Nobody = Nobody
  MaxEvents = 2
  a = a
  b = b
  Order <- MCOrder
  NoAccount = NoAccount
  Reserves = {0, 1}
  DailyCap = 2
  Full = 2
  MaxChanges = 1
  NightTarget = 2
  MaxOpen = 1
  MaxFaults = 1
SPECIFICATION LanesSpec
CHECK_DEADLOCK FALSE
INVARIANTS PaidOnce DeletesOnlyEmpty RunSettles
PROPERTIES NeverFlipFlops AccountsSettle
