\* Concurrent requests on a toolchain the gate accepts or cannot start, with
\* everything a request waits for ending in the end; no symmetry.
SPECIFICATION FairRunnerSpec
CONSTANTS
  r1 = r1 r2 = r2 r3 = r3
  Requests <- ThreeRequests
  Sequential = FALSE
  Toolchains <- MCUsable
  Faults <- MCTransient
  Configs <- MCPersistent
INVARIANT SingleProbe
INVARIANT NotPoisoned
INVARIANT SuccessConfirmedByCli
INVARIANT FallbackAccounted
PROPERTY EveryRequestAnswered
CHECK_DEADLOCK FALSE
