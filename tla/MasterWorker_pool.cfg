SPECIFICATION FairSpec
CONSTANTS
    MaxItems = 5
    MaxBuffer = 2
    MaxMasters = 2
    MaxWorkers = 3
INVARIANTS
    TypeOK
    ExactlyOnce
    MastersNeverSpin
    AllConsumedAtExit
PROPERTY
    OneWorkerTerminates
