\* Two requests over up to two servers.
SPECIFICATION FairLspSpec
CONSTANTS
  MaxRequests = 2
  MaxStarts = 2
  MaxPipe = 1
  MaxQueue = 1
INVARIANT AnswerAboutThisRequest
INVARIANT NoServerLeaked
INVARIANT RunningMeansInitialized
INVARIANT ProtocolFollowed
PROPERTY WorkerContract
PROPERTY EveryRequestEnds
\* The requests may all have been served.
CHECK_DEADLOCK FALSE
