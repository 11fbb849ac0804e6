SPECIFICATION LanesSpec
CONSTANTS
  NoId = NoId
  Coupon = Coupon
  Detail = Detail
  Seed = NoId
  Consent = FALSE
  MaxRound = 2
  MaxRetries = 1
  MaxEvents = 1
  Calls = {c1, c2}
  Regions = {"cn"}
  Nobody = Nobody
  Scheduler = tick
  Handlers = {h1}
INVARIANTS LatchIsVerdict GrantsTold NoStampede
PROPERTY AccountsSettle
