SPECIFICATION Spec
CONSTANTS
    Settings = {brightness, contrast}
    Values = {127, 255}
    Default = 127
    Unknown = unknown
    Turns = {upDown, leftRight}
    Stop = stop
    MaxTouches = 3
    MaxCameras = 2
CHECK_DEADLOCK FALSE
INVARIANTS ControlsTypeOK NextPressMirrors PacedChoiceArrives LastTurnArrived
