CONSTANTS
    Getters = {g1, g2}
    MaxQueueSize = 2
    MaxPuts = 4
    MaxValidates = 1
    MaxVersion = 1
    NoSample = NoSample
SPECIFICATION FairSpec
INVARIANTS
    TypeOK
    QueueIsWindow
    NoLostWakeup
PROPERTIES
    ImplementsFifo
    ShutdownReleasesGetters
