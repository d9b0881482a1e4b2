SPECIFICATION SettlesSpec
CONSTANTS
  r1 = r1  r2 = r2  w1 = w1  w2 = w2  kA = kA
  Nil = Nil
  Requests = {r1, r2}
  Threads = {w1, w2}
  Keys = {kA}
  KeyOf <- MCKeyOf
  Chars <- MCChars
  Custom = {}
  MaxWorkers = 1
  MaxUses = 2
  MaxEntries = 1
  MaxChars = 2
  c1 = c1  c2 = c2
  Session = Session
  d1 = d1
  NoRoot = NoRoot
  i1 = i1  cA = cA  l1 = l1
  NoJob = NoJob
  h1 = h1  h2 = h2
CHECK_DEADLOCK FALSE
INVARIANTS ServiceKept
PROPERTIES CancellationReported PromisesKept
