SPECIFICATION Spec
CONSTANTS
    Argvs <- MCOneArgv
    LocalEnv <- MCLocalEnv
    StdinBlocks = 2
    OutBlocks <- MCOutBlocks
    StatusCodes = {0, 7}
INVARIANT
    NoSilentTruncation
CHECK_DEADLOCK FALSE
