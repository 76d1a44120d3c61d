SPECIFICATION FairSpec
CONSTANTS
    cbor = cbor
    u2f = u2f
    qt = qt
    f1 = f1
    f2 = f2
    t1 = t1
    None = None
    Callers = {cbor, qt}
    Gui = qt
    Fallback = {cbor}
    FileKeys = {f1}
    TpmKeys = {}
    Protected = {f1}
    MaxCalls = 2
    QueueMax = 1
    AppRuns = TRUE
PROPERTIES FailsFast CallFreesWorker
CHECK_DEADLOCK FALSE
