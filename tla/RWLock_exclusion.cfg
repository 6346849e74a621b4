SPECIFICATION Spec
CONSTANTS
    Readers = {r1, r2}
    Writers = {w1}
INVARIANT
    ReadersExcludeWriters
