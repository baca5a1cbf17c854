CONSTANTS
    TotalRolloutSteps = 2
    MaxRequiredSamples = 2
    MaxConcurrentSamples = 2
    PendingCapacity = 4
    PartialRollout = TRUE
    MaxFailures = 1
    TestFreq = 1
    HasValReward = TRUE
    RequiredSamples = 1
    TriggerStep = 1
    ValBeforeTrain = TRUE
    NoSample = NoSample
SPECIFICATION FairSpec
PROPERTIES
    SyncCompletes
CHECK_DEADLOCK FALSE
