SPECIFICATION FairSpec
CONSTANTS
    Frames = 2
    Slices = 2
    MaxAsks = 2
CHECK_DEADLOCK FALSE
INVARIANTS StreamTypeOK TornOnlyByChange
PROPERTIES SilenceIsReported WatchedChangeEnds CloseReturns
