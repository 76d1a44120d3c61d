SPECIFICATION FairSpec
CONSTANTS
    a = a
    b = b
    k1 = k1
    k2 = k2
    m1 = m1
    m2 = m2
    m3 = m3
    x1 = x1
    None = None
    Clients <- MCClients
    Channels <- MCChannels
    Messages <- PairMessages
    Controls = {x1}
    ClientOf <- PairClientOf
    Length <- PairLength
    Segs <- PairSegs
    FirstPayload = 56
    NextPayload = 59
    MaxSeq = 1
    RspMax = 1
    PendingMax = 1
PROPERTIES Answered LockReleased
CHECK_DEADLOCK FALSE
