SPECIFICATION FairSpec
CONSTANTS
    Workers = {w1, w2, w3}
    MaxInits = 3
CHECK_DEADLOCK FALSE
INVARIANTS SipTypeOK WorkersOnLiveEndpoint
PROPERTIES KeepsBeating ReleaseReturns
