SPECIFICATION FairSpec
CONSTANTS
  g1 = g1
  g2 = g2
  GpuThread = {g1, g2}
  ITERS = 2
  CounterSpace = 6
  ZerosOf <- MCZerosOf
  GPU_FLOOR = 2
  MAX_HITS = 2
  WrongRecords <- MCWrongRecords
  Memory <- MCMemory
  Arguments <- MCArguments
  UnknownFlag = {"--Reveal"}
  Number <- MCNumber
  Bytes <- MCBytes
  Long = {"hash"}
  Faults = {"kernel", "gpu", "stdout", "write"}
  MaxTotal = 16
  MaxStrays = 1
INVARIANTS TypeOK LinesTrue NothingLost TotalIsHonest
PROPERTIES NoBatchAfterTarget CtrlCEndsTheProcess
