\* Three requests, two workers, one restart; one thread at a time creates a
\* pool, close() may be called when no request is in flight, fair threads.
SPECIFICATION FairPoolSpec
CONSTANTS
  t1 = t1 t2 = t2 t3 = t3
  None = None
  Threads <- ThreeThreads
  Workers = 2
  RestartBudget = 1
  FirstUseAlone = TRUE
  Closing = "quiescent"
INVARIANT WorkerExclusive
INVARIANT PermitsConserved
INVARIANT NoException
INVARIANT NoWorkerOrphaned
INVARIANT TelemetryBalanced
PROPERTY EveryCallReturns
\* Every thread may have returned.
CHECK_DEADLOCK FALSE
