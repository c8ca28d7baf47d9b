SPECIFICATION Spec
CONSTANTS
  WORD = 3
  LIMBS = 3
  C = 5
  n = 457
  Gx = 1
  Gy = 39
  ITERS = 5
  B2_SUBBATCH = 3
  Seed <- MCSeed
  Counter = {0}
  Derive <- MCDerive
  Entry = {"mine_incremental"}
  Pipeline = {"mine_pipeline"}
INVARIANTS KeysAreConsecutive
