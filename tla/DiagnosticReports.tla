-------------------------- MODULE DiagnosticReports --------------------------
(***************************************************************************)
(* From the diagnostics Lean reports on a file to the verdict read off     *)
(* them: the text the CLI prints or the runner formats from LSP messages,  *)
(* joined as checker_status joins stdout and stderr, and scanned.  A third *)
(* "transport", any text at all, is the scanner by itself: a process other *)
(* than Lean may have printed it.                                          *)
(***************************************************************************)
EXTENDS NativeDiagnostics, SequencesExt

CONSTANTS
  Transports,   \* a subset of {"cli", "lsp", "text"}
  Reports       \* the reports explored: sequences of diagnostics

(* A false native_decide decision, any other error, an LSP message that    *)
(* names no severity, a linter's warning with its note, and a warning with *)
(* an indented continuation.  The two lists of the LSP side default a      *)
(* missing severity differently, so that such a message is in both.        *)
DiagnosticKinds == {"decision", "error", "unmarked", "linter", "hint"}
Errors          == {"decision", "error", "unmarked"}
Warnings        == {"linter", "hint", "unmarked"}

(* What stands against the reading of a report as a refutation.            *)
Undecided == {"error", "unmarked"}

ASSUME ReportsAssumption ==
  /\ Transports \subseteq {"cli", "lsp", "text"}
  /\ Reports \subseteq Seq(DiagnosticKinds)

VARIABLES transport, report

reportVars == <<scannerVars, transport, report>>

(* What lean prints of a message: its prefix names the severity.           *)
CliText(d) ==
  CASE d = "decision"   -> <<"header", "indent", "false">>
    [] d \in Undecided   -> <<"other">>
    [] d = "linter"     -> <<"warning", "blank", "note", "blank">>
    [] d = "hint"       -> <<"warning", "indent">>

(* _format_diag puts "[line:character] " before the message, whatever the  *)
(* severity: a warning's first line no longer says that it is one.         *)
LspText(d) ==
  CASE d = "decision"   -> <<"header", "indent", "false">>
    [] d \in Undecided   -> <<"other">>
    [] d = "linter"     -> <<"other", "blank", "note">>
    [] d = "hint"       -> <<"other", "indent">>

(* The CLI prints in document order on stdout; of LSP diagnostics the      *)
(* warnings become stdout and the errors stderr, which follows it.         *)
Lines(t, rep) ==
  LET InOrder   == [i \in DOMAIN rep |-> CliText(rep[i])]
      Only(kinds) == [i \in DOMAIN rep |-> IF rep[i] \in kinds THEN LspText(rep[i]) ELSE <<>>]
  IN  IF t = "cli" THEN FlattenSeq(InOrder)
      ELSE FlattenSeq(Only(Warnings)) \o FlattenSeq(Only(Errors))

Strip(s) ==
  LET Text == {i \in DOMAIN s : s[i] \notin Blank}
  IN  IF Text = {} THEN <<>>
      ELSE SubSeq(s, CHOOSE i \in Text : \A j \in Text : i <= j,
                     CHOOSE i \in Text : \A j \in Text : i >= j)

Output(t, rep) == Strip(Lines(t, rep))

ReportInit ==
  /\ transport \in Transports
  /\ \/ transport = "text" /\ report = <<>> /\ lines \in Inputs
     \/ transport # "text" /\ report \in Reports /\ lines = Output(transport, report)
  /\ transport = "cli" => \A i \in DOMAIN report : report[i] # "unmarked"
  /\ ScanFromTop

ReportNext == ScannerNext /\ UNCHANGED <<transport, report>>

ReportSpec == ReportInit /\ [][ReportNext]_reportVars

-----------------------------------------------------------------------------
AllErrorsDecide ==
  /\ \E i \in DOMAIN report : report[i] = "decision"
  /\ \A i \in DOMAIN report : report[i] \notin Undecided

(* A report is read as a rejection only when every error in it is Lean's   *)
(* decision that the claim is false; from the CLI, exactly then, whatever  *)
(* warnings surround the decisions.                                        *)
ReportsClassified ==
  /\ (place = "accepted" /\ transport # "text") => AllErrorsDecide
  /\ (place \in Done /\ transport = "cli" /\ AllErrorsDecide) => place = "accepted"
=============================================================================
