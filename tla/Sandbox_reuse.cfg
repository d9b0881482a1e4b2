SPECIFICATION Spec
CONSTANTS
  xA = xA  xB = xB
  w1 = w1  w2 = w2
  Nil = Nil
  Executions <- TwoExecutions
  Threads <- TwoThreads
  Stuck <- NoneStuck
  Ends <- TwoEnds
  MaxCalls = 1
SYMMETRY Interchangeable
INVARIANTS RunsIsolated
CHECK_DEADLOCK FALSE
