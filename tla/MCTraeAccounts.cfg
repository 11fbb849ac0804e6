CONSTANTS
    Parts = {"login", "checkin", "credential"}
    Logins = {l1, l2}
    NoLogin = NoLogin
    Tasks = {t1}
    MaxCrashes = 1
    Accounts = {a, b}
    Hands = {h1, h2}
    NoAccount = NoAccount
    Skew = 1
    MaxRetries = 2
    MaxClock = 3
    Lanes = {n1, n2}
    NoPair = NoPair
    MaxPairs = 2
    Uids = {}
    Requests = {}
    NoUid = NoUid
    DayLen = 2
    DaySpans = {2}
    SoftTTL = 1
    ErrorTTL = 1
    Threshold = 2
    MaxTime = 3
SPECIFICATION Spec
CHECK_DEADLOCK FALSE
INVARIANTS SingleSlot RepeatsOverlap
PROPERTIES AcceptedSettles CredentialKept
