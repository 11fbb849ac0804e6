CONSTANTS
  caller = caller
  fetcher = fetcher
  refresher = refresher
  Procs = {caller, fetcher, refresher}
  RolesOf <- MCRolesOf
  NoProc = NoProc
  MaxPairs = 3
SPECIFICATION Spec
INVARIANTS OneRenewal PairKept DeadOnlyIfGone

