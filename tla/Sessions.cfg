SPECIFICATION Spec
CONSTANTS
    Configs <- MCConfigs
    Overrides <- MCOverrides
    Pairs <- MCPairs
    Suites <- MCSuites
    MaxRuns = 2
    MaxEdits = 1
    MaxIssues = 2
INVARIANTS
    PublishedTogether
    OnlyAcceptedPublished
    MixedReportExplained
    BenchBlockingOnlyLenient
CHECK_DEADLOCK FALSE
