SPECIFICATION Spec
CONSTANTS
  k1 = k1
  k2 = k2
  Key = {k1, k2}
  ZerosOf <- MCZerosOf
  Thread = {t1, t2, t3}
  target = 2
  Faults = {"stdout"}
  None = None
  NoThread = NoThread
  MaxKeys = 2
SYMMETRY ThreadSymmetry
INVARIANTS TypeOK BestAgrees LinesOrdered TargetStops BestIsLastLine
PROPERTIES RejectedOnlyIfBeaten ImplementsTracker
