SPECIFICATION FairSpec
CONSTANTS
    None = None
    Restarters = {r1, r2}
    QueueMax = 10
    MaxDevices = 4
    MaxFaults = 2
INVARIANTS
    LifecycleInv
    KnownDevice
    NoStrayQuit
PROPERTIES
    SuccessMeansRunning
    SignalEnds
    RestartEnds
CHECK_DEADLOCK FALSE
