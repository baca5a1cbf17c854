CONSTANTS
    TotalRolloutSteps = 3
    MaxRequiredSamples = 2
    MaxConcurrentSamples = 1
    PendingCapacity = 1
    PartialRollout = FALSE
    MaxFailures = 1
    TestFreq = 1
    HasValReward = TRUE
    RequiredSamples = 1
    TriggerStep = 2
    ValBeforeTrain = TRUE
    NoSample = NoSample
SPECIFICATION FairSpec
PROPERTIES
    FinishSignal
CHECK_DEADLOCK FALSE
