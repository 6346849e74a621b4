SPECIFICATION Spec
CONSTANTS
    Procs = {p1, p2, p3}
    Blocks = {b1, b2, b3}
    Values = {0, 1}
    LOGSIZE = 3
    MAXOPBLOCKS = 1
SYMMETRY LogSymmetry
INVARIANTS
    TypeOK
    HeaderHasRoom
    CommitsAlone
    SleepersAreWoken
    QuiescentIsClean
PROPERTIES
    BlockBehindLogKept
    ImplementsTransactions
