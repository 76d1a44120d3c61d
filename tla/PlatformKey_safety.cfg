SPECIFICATION Spec
CONSTANTS
    cbor = cbor
    u2f = u2f
    qt = qt
    f1 = f1
    f2 = f2
    t1 = t1
    None = None
    Callers = {cbor, qt}
    Gui = qt
    Fallback = {cbor}
    FileKeys = {f1}
    TpmKeys = {t1}
    Protected = {t1}
    MaxCalls = 2
    QueueMax = 2
    AppRuns = TRUE
INVARIANTS PKInv UnlockedHasKey
PROPERTY Implements
CHECK_DEADLOCK FALSE
