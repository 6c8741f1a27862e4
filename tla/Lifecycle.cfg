SPECIFICATION FairSpec
CONSTANTS
    MaxPort = 2
    Attempts = 2
    SelfNamed = FALSE
    MaxStarts = 2
INVARIANTS
    TypeOK
    RunningServesAdvertisedPort
    ServingCanBeStopped
    NoListenerLeaked
    PoolLoopStoppable
PROPERTIES
    OpFinishes
