SPECIFICATION FairSpec
CONSTANTS
    Devices = {d1}
    NoDevice = NoDevice
    MaxPlays = 1
    MaxQueue = 2
    Handles <- TwoHandles
    Faults <- NoFaults
    Timing <- EveryTiming
PROPERTY StopReleasesConnection
CHECK_DEADLOCK FALSE
