CONSTANTS
    TotalRolloutSteps = 2
    MaxRequiredSamples = 1
    MaxConcurrentSamples = 1
    PendingCapacity = 3
    PartialRollout = FALSE
    MaxFailures = 0
    TestFreq = 1
    HasValReward = TRUE
    RequiredSamples = 1
    TriggerStep = 1
    ValBeforeTrain = TRUE
    NoSample = NoSample
SPECIFICATION Spec
INVARIANTS
    FinalMetricsAreFinal
