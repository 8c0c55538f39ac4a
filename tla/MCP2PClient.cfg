SPECIFICATION Spec
CONSTANTS
    Types <- EveryType
    MaxId = 2
    None = None
CHECK_DEADLOCK FALSE
INVARIANTS ClientTypeOK OneVerdict LiveStreamInMap EndIsTold
PROPERTY OverIsOver
