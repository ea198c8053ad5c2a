SPECIFICATION FairSpec
CONSTANTS
    fence = fence
    entity = entity
    term = term
    Forced = Forced
    Issues <- SmallIssues
    Subsystem <- SmallSubsystem
    FenceLoss = fence
    Configs <- LoopConfigs
    Requests <- LoopRequests
    MayRaise <- AllRaise
    MaxRuns = 1
PROPERTIES
    RunsEnd
CHECK_DEADLOCK FALSE
