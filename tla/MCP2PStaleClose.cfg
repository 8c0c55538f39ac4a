SPECIFICATION FairSpec
CONSTANTS
    Devices = {d1}
    NoDevice = NoDevice
    MaxPlays = 2
    MaxQueue = 2
    Handles <- TwoHandles
    Faults <- ReportedFaults
    Timing <- EveryTiming
PROPERTY StopEndsOnlyItsOwnPlay
CHECK_DEADLOCK FALSE
