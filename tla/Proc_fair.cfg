SPECIFICATION FairSpec
CONSTANTS
    NPROC = 3
    Prios = {0}
    MaxPid = 3
PROPERTIES
    ZombiesReaped
    KilledExit
    RoundRobin
