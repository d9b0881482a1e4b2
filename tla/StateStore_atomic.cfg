CONSTANTS
  p1 = p1  p2 = p2  p3 = p3
  c1 = c1  c2 = c2  c3 = c3
  k1 = k1  k2 = k2
  None = None
  Procs <- TwoProcs
  Calls <- TwoCalls
  Home <- ApartHomes
  Keys = {k1, k2}
  Requests <- Mixed
  Inodes = {i1}
  MaxEntries = 1
  MaxReadAttempts = 1
SPECIFICATION FairSpec
CHECK_DEADLOCK FALSE
PROPERTIES Linearizable CallsReturn
