-------------------------- MODULE NativeDiagnostics --------------------------
(***************************************************************************)
(* specification._native_false_diagnostics: the line scanner that decides  *)
(* whether the output of a failed check is a complete refutation by        *)
(* native_decide, the only thing that may be read as a rejection.          *)
(*                                                                         *)
(* A line is known by what the scanner can tell of it.  "spaces" is a line *)
(* of white space only, which counts as indented and as blank.             *)
(***************************************************************************)
EXTENDS Naturals, Sequences

LineKinds == {"warning", "header", "indent", "spaces", "blank", "note", "false", "other"}
Indented  == {"indent", "spaces"}
Blank     == {"blank", "spaces"}

CONSTANT Inputs   \* the outputs explored, as sequences of line kinds

(* Output is stripped before it is split: it starts and ends with text.    *)
Stripped(s) ==
  s # <<>> => /\ s[1] \notin Indented \cup Blank
              /\ s[Len(s)] \notin Blank

ASSUME InputsAssumption == \A s \in Inputs : s \in Seq(LineKinds) /\ Stripped(s)

VARIABLES
  lines,
  index,       \* the next line to look at
  decisions,   \* complete native_decide diagnostics read so far
  place        \* the loop of the scanner that is running, or its answer

scannerVars == <<lines, index, decisions, place>>

Gaps   == {"warningGap", "noteGap", "decisionGap"}
Bodies == {"warning", "note", "proposition"}
Done   == {"accepted", "rejected"}

ScannerTypeOK ==
  /\ lines \in Seq(LineKinds)
  /\ index \in 1 .. Len(lines) + 1
  /\ decisions \in 0 .. Len(lines)
  /\ place \in {"top"} \cup Gaps \cup Bodies \cup Done

ScanFromTop == index = 1 /\ decisions = 0 /\ place = "top"

ScannerInit == lines \in Inputs /\ ScanFromTop

AtEnd == index = Len(lines) + 1
At(S) == ~AtEnd /\ lines[index] \in S

Advance(p) == place' = p /\ index' = index + 1
Stay(p)    == place' = p /\ UNCHANGED index

-----------------------------------------------------------------------------
(* The outer loop: a block starts with a warning or with the header of a   *)
(* native_decide diagnostic; any other line makes the output inconclusive. *)
ReadWarning == place = "top" /\ At({"warning"}) /\ Advance("warning")
ReadHeader  == place = "top" /\ At({"header"}) /\ Advance("proposition")

(* Slip: lines that start no block are passed over.                        *)
SkipOther  == place = "top" /\ At(LineKinds \ {"warning", "header"}) /\ Advance("top")
RefuseLine == place = "top" /\ At(LineKinds \ {"warning", "header"}) /\ Stay("rejected")

EndOfOutput ==
  place = "top" /\ AtEnd /\ Stay(IF decisions > 0 THEN "accepted" ELSE "rejected")

(* The indented lines of a warning, of its note or of a proposition.       *)
SkipIndented == place \in Bodies /\ At(Indented) /\ Advance(place)

(* Slip: a note may be followed by another.                                *)
NotesRepeat(body) == "warningGap"
GapAfter(body) == IF body = "warning" THEN "warningGap" ELSE "noteGap"

EndOfBody ==
  place \in {"warning", "note"} /\ ~At(Indented) /\ Stay(GapAfter(place))

SkipBlank == place \in Gaps /\ At(Blank) /\ Advance(place)

ReadNote == place = "warningGap" /\ At({"note"}) /\ Advance("note")

EndOfGap ==
  /\ place \in Gaps
  /\ ~At(Blank)
  /\ ~(place = "warningGap" /\ At({"note"}))
  /\ Stay("top")

(* A proposition of at least one line is closed by exactly "is false".     *)
Closes == lines[index - 1] # "header" /\ At({"false"})

Decide ==
  /\ place = "proposition"
  /\ ~At(Indented)
  /\ Closes
  /\ Advance("decisionGap")
  /\ decisions' = decisions + 1

RefuseProposition ==
  place = "proposition" /\ ~At(Indented) /\ ~Closes /\ Stay("rejected")

Scan ==
  \/ /\ \/ ReadWarning \/ ReadHeader \/ RefuseLine \/ EndOfOutput
        \/ SkipIndented \/ EndOfBody \/ SkipBlank \/ ReadNote \/ EndOfGap
        \/ RefuseProposition
     /\ UNCHANGED decisions
  \/ Decide

ScannerNext == Scan /\ UNCHANGED lines

ScannerSpec == ScannerInit /\ [][ScannerNext]_scannerVars

-----------------------------------------------------------------------------
(* The grammar the scanner is meant to recognise, stated by what surrounds *)
(* each line that starts a block, with no order of reading.                *)
BodyThenGap(s) ==
  \E k \in 0 .. Len(s) :
    /\ \A i \in 1 .. k : s[i] \in Indented
    /\ \A i \in k + 1 .. Len(s) : s[i] \in Blank

WarningTail(s) ==
  \/ BodyThenGap(s)
  \/ \E n \in 1 .. Len(s) :
       /\ s[n] = "note"
       /\ BodyThenGap(SubSeq(s, 1, n - 1))
       /\ BodyThenGap(SubSeq(s, n + 1, Len(s)))

DecisionTail(s) ==
  \E n \in 2 .. Len(s) :
    /\ s[n] = "false"
    /\ \A i \in 1 .. n - 1 : s[i] \in Indented
    /\ \A i \in n + 1 .. Len(s) : s[i] \in Blank

IsRefutation(s) ==
  LET Starts == {i \in 1 .. Len(s) : s[i] \in {"warning", "header"}}
      EndOf(i) == CHOOSE e \in i .. Len(s) :
                    /\ e + 1 \in Starts \cup {Len(s) + 1}
                    /\ \A j \in i + 1 .. e : j \notin Starts
      After(i) == SubSeq(s, i + 1, EndOf(i))
  IN  /\ 1 \in Starts
      /\ \E i \in Starts : s[i] = "header"
      /\ \A i \in Starts : IF s[i] = "header" THEN DecisionTail(After(i))
                                              ELSE WarningTail(After(i))

(* The scanner's answer is membership in the grammar: no output is taken   *)
(* for a refutation by the order in which its loops happen to eat lines,   *)
(* and no well-formed one is lost at a boundary.                           *)
AcceptsTheGrammar ==
  place \in Done => (place = "accepted" <=> IsRefutation(lines))

DecidedAt(i) ==
  \E n \in i + 2 .. Len(lines) :
    lines[n] = "false" /\ \A j \in i + 1 .. n - 1 : lines[j] \in Indented

(* Conservatism: an accepted output has at least one native_decide         *)
(* diagnostic, every one of them is complete, and nothing in the output is *)
(* unrecognised (truncated output and additional errors "deliberately      *)
(* remain inconclusive").                                                  *)
AcceptedMeansDecided ==
  place = "accepted" =>
    /\ \E i \in DOMAIN lines : lines[i] = "header"
    /\ \A i \in DOMAIN lines : lines[i] # "other"
    /\ \A i \in DOMAIN lines : lines[i] = "header" => DecidedAt(i)
=============================================================================
