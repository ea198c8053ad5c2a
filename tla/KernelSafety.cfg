SPECIFICATION Spec
CONSTANTS
    fence = fence
    entity = entity
    term = term
    Forced = Forced
    Issues <- SmallIssues
    Subsystem <- SmallSubsystem
    FenceLoss = fence
    Configs <- KernelConfigs
    Requests <- KernelRequests
    MayRaise <- NoRaise
    MaxRuns = 2
INVARIANTS
    TypeOK
    CertifiedEmission
    TrailPersisted
    ArtifactsAfterTrail
    HandOffsAgree
    RepairsAtMostOnce
    EmptyPayloadExplained
    LogIsCanonicalPrefix
PROPERTIES
    ImplementsLifecycle
CHECK_DEADLOCK FALSE
