SPECIFICATION FairSpec
CONSTANTS
    Devices = {d1, d2}
    NoDevice = NoDevice
    MaxPlays = 2
    MaxQueue = 2
    Handles <- TwoHandles
    Faults <- ReportedFaults
    Timing <- EveryTiming
INVARIANTS ViewKnowsStreamEnded EndIsNotLost
PROPERTIES
    EndReachesView
    CloseEventuallyWorks
CHECK_DEADLOCK FALSE
