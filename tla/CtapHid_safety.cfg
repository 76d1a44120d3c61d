SPECIFICATION Spec
CONSTANTS
    a = a
    b = b
    k1 = k1
    k2 = k2
    m1 = m1
    m2 = m2
    m3 = m3
    x1 = x1
    None = None
    Clients <- MCClients
    Channels <- MCChannels
    Messages <- MCMessages
    Controls = {}
    ClientOf <- MCClientOf
    Length <- MCLength
    Segs <- MCSegs
    FirstPayload = 56
    NextPayload = 59
    MaxSeq = 3
    RspMax = 2
    PendingMax = 2
SYMMETRY Symmetry
INVARIANTS IInv RequestIntegrity ReplyOrder
CHECK_DEADLOCK FALSE
