\* One call of the wrapper, in either mode, on either toolchain, by runners
\* less and more patient than the wrapper's own timeouts.
SPECIFICATION FairIsolationSpec
CONSTANTS
  ProbeTimeout = 1
  WallTimeout = 3
  Patiences = {1, 2, 3, 4, 5}
INVARIANTS
  IsolatedLeanTrusted
  NothingLeftBehind
PROPERTIES
  EveryRunEnds
\* A call ends: the wrapper is a process that exits.
CHECK_DEADLOCK FALSE
