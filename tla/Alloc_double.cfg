SPECIFICATION Spec
CONSTANTS
  Units = 6
  MidSplits = TRUE
INVARIANTS NoDoubleAllocation
