\* Two or more threads make their first requests of a runner together.
SPECIFICATION PreflightSpec
CONSTANTS
  r1 = r1 r2 = r2 r3 = r3 r4 = r4 r5 = r5
  Requests <- MCRequests
  Sequential = FALSE
  Toolchains <- MCIncompatible
  Faults <- MCTimeoutOnly
INVARIANT AdmittedOnlyCompatible
CHECK_DEADLOCK FALSE
