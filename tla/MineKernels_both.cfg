SPECIFICATION Spec
CONSTANTS
  WORD = 3
  LIMBS = 3
  C = 5
  n = 457
  Gx = 1
  Gy = 39
  ITERS = 5
  B2_SUBBATCH = 3
  Seed <- MCSeed
  Counter = {0}
  Derive <- MCDerive
  Entry = {"mine", "mine_incremental", "mine_incremental_raw_test",
           "derive_test", "ec_test", "field_test", "scalar_add_mod_n_test"}
  Pipeline = {"mine_pipeline", "_pipeline"}
INVARIANTS KeysOpenPoints NoCandidateSkipped FieldIsExact
