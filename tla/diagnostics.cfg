\* Every text of up to six lines and every report of up to four diagnostics.
SPECIFICATION ReportSpec
CONSTANTS
  MaxDiagnostics = 4
  MaxLines = 6
  Transports <- MCTransports
  Reports <- MCReports
  Inputs <- MCInputs
INVARIANT AcceptsTheGrammar
INVARIANT ReportsClassified
\* The scan ends.
CHECK_DEADLOCK FALSE
