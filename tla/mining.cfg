\* All traces of six to eight small terms, and a dozen with a known formula;
\* four sources with short reports, and traces of the fitted families.
SPECIFICATION MCSpec
CONSTANTS
  Traces <- MCTraces
  Holdouts <- MCHoldouts
  Adversarial <- MCAdversarial
  Sequences <- MCSequences
  MaxDegree = 8
  MaxOrder = 64
  Offers <- MCOffers
  PrefixTerms <- MCPrefixTerms
  MinSizes <- MCMinSizes
  HoldoutTerms = 2
  ParameterBound = 3
INVARIANTS
  IndicesInRange
  PrefixGenerated
  ReducedEchelon
  SearchesAgree
  MinersAgree
  LeanReproducesTrace
  ConsensusDetermined
  FitsReproduceTrace
  HolonomicComplete
\* A call ends with its candidate.
CHECK_DEADLOCK FALSE
