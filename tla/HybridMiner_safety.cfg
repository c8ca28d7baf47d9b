SPECIFICATION HybridSpec
CONSTANTS
  k1 = k1
  k2 = k2
  k3 = k3
  Key = {k1, k2, k3}
  ZerosOf <- MCZerosOf
  Scan <- MCScan
  Worker = {w1, w2}
  Gpu = gpu
  Thread = {w1, w2, gpu}
  target = 2
  Faults = {"kernel", "gpu", "stdout"}
  None = None
  NoThread = NoThread
  MaxKeys = 3
  COUNTER_FLUSH = 2
  GPU_FLOOR = 2
  N_THREADS = 1
  ITERS = 1
  CounterSpace = 2
  MAX_HITS = 2
SYMMETRY WorkerSymmetry
INVARIANTS HybridTypeOK NothingLost SummaryIsTheBest OnlyVerifiedKeys KeysAccounted
