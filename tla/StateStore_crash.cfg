CONSTANTS
  p1 = p1  p2 = p2  p3 = p3
  c1 = c1  c2 = c2  c3 = c3
  k1 = k1  k2 = k2
  None = None
  Procs <- TwoProcs
  Calls <- ThreeCalls
  Home <- TwoHomes
  Keys = {k1}
  Requests <- SetOrGet
  Inodes = {i1, i2}
  MaxEntries = 1
  MaxReadAttempts = 1
SYMMETRY CallSymmetry
SPECIFICATION Spec
CHECK_DEADLOCK FALSE
INVARIANTS LockInvariant LockAccounted TruthfulOutcome DurabilityTruth
