SPECIFICATION Spec
CONSTANTS
    fence = fence
    entity = entity
    term = term
    Forced = Forced
    Issues <- SmallIssues
    Subsystem <- SmallSubsystem
    FenceLoss = fence
    Configs <- KernelConfigs
    Requests <- KernelRequests
    MayRaise <- NoRaise
    MaxRuns = 1
INVARIANT
    StrictPayloadNotEmpty
CHECK_DEADLOCK FALSE
