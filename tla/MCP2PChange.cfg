SPECIFICATION ChangeFairSpec
CONSTANTS
    Devices = {d1}
    NoDevice = NoDevice
    MaxPlays = 1
    MaxQueue = 2
    MaxChanges = 1
    Handles <- TwoHandles
    Faults <- ControlsOrPeer
    Timing <- EveryTiming
INVARIANT ChangeTypeOK
PROPERTIES
    FailedChangeReachesView
    CloseEventuallyWorksWithChanges
CHECK_DEADLOCK FALSE
