SPECIFICATION LanesSpec
CONSTANTS
  Lanes = {"offpeak"}
  Calls = {c1}
  MaxEvents = 2
  Ranked <- MCRanked
  P1 = P1
  P2 = P2
  NoPlan = NoPlan
  Params = {t1, t2}
  NoParam = NoParam
  Capacity = 1
  Order <- MCOrder
  A1 = A1
  A2 = A2
  NoOne = NoOne
  Flows = {f1}
  Polls = {p1, p2}
  NoFlow = NoFlow
  Executes = {e}
  Streams = {s}
  Tickets = {k1, k2}
  NoTicket = NoTicket
  NoRound = NoRound
  Budget = 2
  MaxAttempts = 2
  MaxPoll = 2
  MaxTime = 3
CHECK_DEADLOCK FALSE
INVARIANTS ExecuteSettlesAll SettledNeverSent
PROPERTY RoundsEndInTime
