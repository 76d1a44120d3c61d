SPECIFICATION FairSpec
CONSTANTS
    None = None
    Broadcast = Broadcast
    MaxCids = 2
    MaxUrbs = 2
    MaxSegs = 2
    MaxStale = 1
    Leftovers <- MCLeftovers
INVARIANTS
    UsbInv
    WaitingIsOwed
    RepliesInOrder
PROPERTIES
    RepliesGoOut
CHECK_DEADLOCK FALSE
