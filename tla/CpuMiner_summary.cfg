SPECIFICATION Spec
CONSTANTS
  k1 = k1
  k2 = k2
  k3 = k3
  Key = {k1, k2, k3}
  ZerosOf <- MCZerosOf
  CharsInOrder <- MCCharsInOrder
  Worker = {w1, w2}
  MIN_ZEROS = 1
  max_zeros = 2
  COUNTER_FLUSH = 2
  Faults = {}
  Relaxed = FALSE
  None = None
  MaxKeys = 3
SYMMETRY WorkerSymmetry
INVARIANTS SummaryIsTheBest
