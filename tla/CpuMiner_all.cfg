SPECIFICATION FairSpec
CONSTANTS
  k1 = k1
  k2 = k2
  k3 = k3
  Key = {k2, k3}
  ZerosOf <- MCZerosOf
  CharsInOrder <- MCCharsInOrder
  Worker = {w1, w2}
  MIN_ZEROS = 1
  max_zeros = 2
  COUNTER_FLUSH = 2
  Faults = {"encode", "write", "stdout"}
  Relaxed = TRUE
  None = None
  MaxKeys = 3
INVARIANTS FileHasTheBest KeysAccounted WalletIsInFile
PROPERTIES CtrlCEndsTheProcess
