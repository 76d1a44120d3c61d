SPECIFICATION FairSpec
CONSTANTS
    k1 = k1
    k2 = k2
    None = None
    Channels = {k1}
    MaxCalls = 2
    MaxCloses = 0
    AuthMax = 1
    SysMax = 1
    Sensor = TRUE
    AtLaunch = FALSE
PROPERTY GatherEnds
CHECK_DEADLOCK FALSE
