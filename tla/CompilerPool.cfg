SPECIFICATION FairSpec
CONSTANTS
  r1 = r1  r2 = r2  r3 = r3  r4 = r4
  w1 = w1  w2 = w2
  kA = kA  kB = kB
  Nil = Nil
  Requests = {r1, r2, r3, r4}
  Threads = {w1, w2}
  Keys = {kA, kB}
  KeyOf <- MCKeyOf
  Chars <- MCChars
  Custom = {r4}
  MaxWorkers = 2
  MaxUses = 2
  MaxEntries = 2
  MaxChars = 3
CHECK_DEADLOCK FALSE
INVARIANTS ThreadsOwned CacheAccounted
PROPERTY RequestsSettle
