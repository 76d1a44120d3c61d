SPECIFICATION Spec
CONSTANTS
    c1 = c1
    c2 = c2
    w1 = w1
    a1 = a1
    p1 = p1
    p2 = p2
    None = None
    Absent = Absent
    Channels = {c1, c2}
    Wallets = {w1}
    Accounts = {a1}
    PINs = {p1, p2}
    Exp = 1
    Retries = 0
    Watchdog = TRUE
    Suspends = TRUE
    MaxTokens = 2
    PlatKey = PlatKey
INVARIANTS SessionInv EntriesCohere NoDuplicate
PROPERTIES KeyOfTheSession StoresForTheSession
SYMMETRY SessionSymmetry
CHECK_DEADLOCK FALSE
