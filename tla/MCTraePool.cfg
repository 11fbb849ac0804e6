CONSTANTS
    Parts = {"pool"}
    Logins = {}
    NoLogin = NoLogin
    Tasks = {}
    MaxCrashes = 1
    Accounts = {}
    Hands = {}
    NoAccount = NoAccount
    Skew = 1
    MaxRetries = 2
    MaxClock = 3
    Lanes = {}
    NoPair = NoPair
    MaxPairs = 2
    Uids = {u1}
    Requests = {r1, r2}
    NoUid = NoUid
    DayLen = 2
    DaySpans = {2}
    SoftTTL = 1
    ErrorTTL = 1
    Threshold = 2
    MaxTime = 3
SPECIFICATION Spec
SYMMETRY Symmetry
CHECK_DEADLOCK FALSE
INVARIANT FreezeEndsAtMidnight
