SPECIFICATION ScanSpec
CONSTANTS
  NPROC = 4
  Prios = {0}
  MaxPid = 5
  Free = {1}
INVARIANT NumProcWasTrue
