SPECIFICATION FairSpec
CONSTANTS
    d1 = d1
    u1 = u1
    Devices = {d1}
    Users = {u1, u2}
    NoUser = none
    File <- OneDevice
    MaxTouches = 4
CHECK_DEADLOCK FALSE
INVARIANTS DeviceTypeOK StoreFollowsRequests SearchKeepsKnown ClosesForItsOwn
PROPERTIES DisplaysEnd
