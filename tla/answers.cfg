\* Requests of every kind over intervals of up to four values below five.
SPECIFICATION AnswerSpec
CONSTANTS
  ScalarSpecs <- MCScalarSpecs
  PairSpecs <- MCPairSpecs
  Answers <- MCAnswers
  Certificates <- MCCertificates
  MaxBound = 5
  MaxTerms = 4
  AnswerLimit = 8
  MaxLiteral = 3
  MaxExponent = 2
  MaxNodes = 14
  MaxDepth = 4
INVARIANT AcceptedExpressionsAgree
INVARIANT VerdictMeansSpec
\* The command exits.
CHECK_DEADLOCK FALSE
