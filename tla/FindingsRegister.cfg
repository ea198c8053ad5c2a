SPECIFICATION Spec
CONSTANTS
    Rounds = {4, 5, 6, 7}
    TrackFiles <- MCTrackFiles
    MaxEdits = 1
INVARIANTS
    NothingLost
    HighestOfPlain
    SummaryOfRegister
PROPERTY
    NormalizeIdempotent
CHECK_DEADLOCK FALSE
