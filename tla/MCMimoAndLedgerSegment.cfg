SPECIFICATION LanesSpec
CONSTANTS
  Home = {"cn"}  Mode = "auto"  Rounds = 1  Outages = 2
  Flows = {f1, f2}  NoFlow = NoFlow  Fails = TRUE
  Requests = {r1, r2}  Hours = 2  Retention = 1  Changes = 1

PROPERTY SegmentKept
CHECK_DEADLOCK FALSE
