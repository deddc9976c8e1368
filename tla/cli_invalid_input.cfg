\* The same requests; the output of Lean may fail to decode.
SPECIFICATION AnswerSpec
CONSTANTS
  ScalarSpecs <- MCScalarSpecs
  PairSpecs <- MCPairSpecs
  Answers <- MCAnswers
  Certificates <- MCCertificates
  MaxBound = 5
  MaxTerms = 4
  AnswerLimit = 8
  MaxLiteral = 3
  MaxExponent = 2
  MaxNodes = 14
  MaxDepth = 4
INVARIANT InvalidInputBeforeLean
CHECK_DEADLOCK FALSE
