\* Stripping, over every short source; and the line-level gates with the
\* template contract, by both routes, over every theorem of MaxLines lines.
SPECIFICATION SanitizerSpec
CONSTANTS
  MaxMixed = 4
  MaxComment = 8
  MaxString = 6
  MaxLines = 4
  Sources <- MCSources
  Documents <- MCDocuments
  Formulas <- MCFormulas
  Goals <- MCGoals
INVARIANTS
  CodeExactlyKept
  LinesKept
  PassedMeansVerified
  TemplatesPass
\* A source is judged once.
CHECK_DEADLOCK FALSE
