SPECIFICATION FairSpec
CONSTANTS
    MaxItems = 3
    MaxBuffer = 3
    MaxMasters = 1
    MaxWorkers = 3
PROPERTY
    Termination
