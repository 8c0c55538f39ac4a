SPECIFICATION Spec
CONSTANTS
    Devices = {d1, d2}
    NoDevice = NoDevice
    MaxPlays = 2
    MaxQueue = 2
    Handles <- TwoHandles
    Faults <- EveryFault
    Timing <- NoTiming
INVARIANTS
    TypeOK
    OnePlayAtATime
    NothingLeftBehind
    CallsOnLiveLibrary
    TearsDownItsOwn
PROPERTY ContractKept
CHECK_DEADLOCK FALSE
