CONSTANTS
    TotalRolloutSteps = 5
    MaxRequiredSamples = 2
    MaxConcurrentSamples = 2
    PendingCapacity = 9
    PartialRollout = FALSE
    MaxFailures = 0
    TestFreq = 1
    HasValReward = TRUE
    RequiredSamples = 1
    TriggerStep = 1
    ValBeforeTrain = TRUE
    NoSample = NoSample
SPECIFICATION Spec
INVARIANTS
    SampleAccounting
    AllDelivered
    BudgetSlack
    VersionSkew
    NoLostWakeup
