\* One request at a time.  The pipeline under every configuration, toolchain
\* and probe fault that the gate handles (RunLeanFileRaises needs none of
\* them); the gate alone under every toolchain and every probe fault.
SPECIFICATION OneByOneSpec
CONSTANTS
  r1 = r1 r2 = r2 r3 = r3
  Requests <- ThreeRequests
  Sequential = TRUE
  Toolchains <- MCToolchains
  Faults <- MCDecodable
  Configs <- MCConfigs
SYMMETRY ThreeSymmetry
INVARIANT TightUntilException
INVARIANT TimeoutNotCached
PROPERTY VerdictsTrustworthy
\* Every request may have been answered.
CHECK_DEADLOCK FALSE
