SPECIFICATION Spec
CONSTANTS
    NPROC = 3
    Prios = {0, 1}
    MaxPid = 4
INVARIANTS
    TypeOK
    OneRunning
    ParentsAlive
    NoMissedZombie
    PidsUnique
    EmbryosOwned
    KilledAwake
    BoundedInversion
