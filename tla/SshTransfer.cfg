SPECIFICATION FairSpec
CONSTANTS
    Argvs <- MCArgvs
    LocalEnv <- MCLocalEnv
    StdinBlocks = 2
    OutBlocks <- MCOutBlocks
    StatusCodes = {0, 7}
INVARIANTS
    RequestMatchesArgv
    UploadComplete
    LimitKeptWhenAlone
    ZeroMeansDelivered
PROPERTY
    RunEnds
CHECK_DEADLOCK FALSE
