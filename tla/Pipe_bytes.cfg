SPECIFICATION FairSpec
CONSTANTS
    Readers = {r1}
    Writers = {w1, w2}
    Killable = {r1, w1, w2}
    PIPESIZE = 2
    Width = 4
    MaxCall = 3
    MaxBytes = 5
INVARIANTS
    TypeOK
    FirstInFirstOut
    NoLostWakeup
PROPERTY
    EverybodyLeaves
