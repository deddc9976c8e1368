\* Two threads make the first request of a runner together.
SPECIFICATION PoolSpec
CONSTANTS
  t1 = t1 t2 = t2 t3 = t3
  None = None
  Threads <- TwoThreads
  Workers = 1
  RestartBudget = 0
  FirstUseAlone = FALSE
  Closing = "never"
INVARIANT NoException
CHECK_DEADLOCK FALSE
