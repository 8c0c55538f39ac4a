SPECIFICATION FairSpec
CONSTANTS
    Types = {"transit"}
    MaxId = 2
    None = None
CHECK_DEADLOCK FALSE
PROPERTY StopReturns
