SPECIFICATION Spec
CONSTANTS
  Units = 6
  MidSplits = FALSE
INVARIANTS ListPartitionsPage NoDoubleAllocation FreeMemoryIsUsable
