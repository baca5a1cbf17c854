CONSTANTS
    TotalRolloutSteps = 5
    MaxRequiredSamples = 3
    MaxConcurrentSamples = 2
    PendingCapacity = 3
    PartialRollout = TRUE
    MaxFailures = 1
    TestFreq = 1
    HasValReward = TRUE
    RequiredSamples = 2
    TriggerStep = 1
    ValBeforeTrain = TRUE
    NoSample = NoSample
SPECIFICATION Spec
INVARIANTS
    TypeOK
    SampleAccounting
    ConcurrencyBound
    ProcessorSurvives
    NoGenerationDuringSync
