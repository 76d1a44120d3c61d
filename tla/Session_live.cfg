SPECIFICATION FairSpec
CONSTANTS
    c1 = c1
    w1 = w1
    a1 = a1
    p1 = p1
    p2 = p2
    None = None
    Absent = Absent
    Channels = {c1}
    Wallets = {w1}
    Accounts = {a1}
    PINs = {p1, p2}
    Exp = 2
    Retries = 0
    Watchdog = TRUE
    Suspends = FALSE
    MaxTokens = 2
    PlatKey = PlatKey
INVARIANTS NoneExpired
PROPERTIES RequestsEnd SessionsEnd
CHECK_DEADLOCK FALSE
