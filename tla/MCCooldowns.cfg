CONSTANTS
  Auths = {a1}
  Models = {m1, m2}
  NoName = NoName
  NoPair = NoPair
  Callers = {c1, c2}
  MaxEntries = 2
  RateLimitTTL = 2
  UnknownTTL = 1
  DefaultWindow = 1
  Horizon = 2
  Ladder <- MCLadder
  SweepFrom = 1
  Caps = {0, 1}
  MaxTime = 2
  ZcodeAuths = {z1, z2}
  ZcodeRateLimitTTL = 3
  ZcodeMaxTime = 4
SPECIFICATION PluginsSpec
SYMMETRY Symmetry
CHECK_DEADLOCK FALSE
INVARIANTS SlotsCounted BoundedTable
PROPERTIES WindowsKept HoldsKept LiveEntriesKept
