CONSTANTS
    TotalRolloutSteps = 4
    MaxRequiredSamples = 2
    MaxConcurrentSamples = 2
    PendingCapacity = 3
    PartialRollout = TRUE
    MaxFailures = 0
    TestFreq = 1
    HasValReward = TRUE
    RequiredSamples = 1
    TriggerStep = 2
    ValBeforeTrain = TRUE
    NoSample = NoSample
SPECIFICATION FairSpec
INVARIANTS
    FixedRolloutNumber
    PartialHasNoEffect
PROPERTIES
    OnPolicy
    Termination
