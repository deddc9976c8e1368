------------------------ MODULE MCDiagnosticReports ------------------------
(* Reports of up to MaxDiagnostics diagnostics, by either transport, and   *)
(* every stripped text of up to MaxLines lines.                            *)
EXTENDS DiagnosticReports

CONSTANTS MaxDiagnostics, MaxLines

MCTransports == {"cli", "lsp", "text"}
MCReports    == UNION {[1 .. n -> DiagnosticKinds] : n \in 0 .. MaxDiagnostics}
MCInputs     == {s \in UNION {[1 .. n -> LineKinds] : n \in 0 .. MaxLines} : Stripped(s)}
=============================================================================
