CONSTANTS
    None = "none"
    Untimed <- NoTime
    Kinds <- AllKinds
    Feeds <- OnlyFlows
    AuthThreshold = 2
    AuthWindow = 1
    RateMultiplier = 3
    MinSamples = 2
    MaxSamples = 2
    Sigma = 3
    MinimumDelta = 1
    ChangeMultiplier = 2
    NetWindow = 1
    FanoutThreshold = 2
    ScanThreshold = 2
    FailureThreshold = 2
    SupportLimit = 2
    CorrelationWindow = 1
    MaxSpan = 2
    MaxLabelled = 2
    MaliciousLabels = {"1"}
    BenignLabels = {"0"}
    KnownClasses <- Classes
    Horizon = 4
    MaxEvents = 5
    FindingLimit = 3
    MaxIncidentEvents = 4
    ReferenceLimit = 2
    EdgeLimit = 5
    RelationLimit = 1
    SampleLimit = 2
    Overflow = 10
    Calendar <- AllTimes
    Length <- LengthOf
    Minute = 2
    MinVolume = 2
SPECIFICATION Spec
CHECK_DEADLOCK FALSE
INVARIANT AnalysisCompletes
