SPECIFICATION SyncSpec
CONSTANTS
    Threads = {t1, t2, t3}
    Value = 1
    MaxUps = 3
    Readers = {r1, r2, r3}
    Writers = {w1, w2}
INVARIANTS
    LockDiscipline
    OneWaiter
    NoLostWakeup
    RWTypeOK
    WritersExclude
    CountersExact
    RWNoLostWakeup
PROPERTIES
    ImplementsSemaphore
    PreferredProgress
