SPECIFICATION Spec
CONSTANTS
  g1 = g1
  g2 = g2
  g3 = g3
  GpuThread = {g1, g2, g3}
  ITERS = 2
  MAX_HITS = 2
  Threshold = {1}
  ZerosOf <- MCZerosOf
  OutOfRange <- OneOutOfRange
  Watchdog = TRUE
  StatusChecked = FALSE
  Unwritten = Unwritten
INVARIANTS NothingMissed
