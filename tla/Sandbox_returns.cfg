SPECIFICATION FairSpec
CONSTANTS
  xA = xA  xB = xB
  w1 = w1  w2 = w2
  Nil = Nil
  Executions <- TwoExecutions
  Threads <- TwoThreads
  Stuck <- OneStuck
  Ends <- TwoEnds
  MaxCalls = 0
INVARIANT CancelledIsDead
PROPERTIES SandboxSettles
CHECK_DEADLOCK FALSE
