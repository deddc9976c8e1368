-------------------------- MODULE LeanOutputProofs --------------------------
(***************************************************************************)
(* Proofs about what comes back from Lean: through the isolation wrapper,  *)
(* for timeouts and patience of any length; and in its diagnostics, for    *)
(* output of any length.                                                   *)
(***************************************************************************)
EXTENDS DiagnosticReports, Isolation, WellFoundedInduction, SequenceTheorems, TLAPS

-----------------------------------------------------------------------------
(* The isolation wrapper.                                                  *)
Places == {"start", "probing", "running", "exited", "killed"}
Leans  == {"none", "running", "ended", "killed"}

(* The clock never passes the deadline of the process that is waited for,  *)
(* and a run is started before the version check's deadline; so the whole  *)
(* call takes no longer than both timeouts.                                *)
Clock ==
  /\ pc = "start"   => now = 0
  /\ pc = "probing" => started = 0 /\ now <= ProbeTimeout
  /\ pc = "running" => started <= ProbeTimeout /\ now <= started + WallTimeout

CleanInv ==
  /\ now \in Nat /\ started \in Nat /\ patience \in Nat
  /\ pc \in Places /\ lean \in Leans
  /\ pc = "start" => lean = "none"
  /\ Clock
  /\ NothingLeftBehind

LEMMA CleanInitially == IsolationInit => CleanInv
  BY IsolationAssumption DEF IsolationInit, CleanInv, Clock, NothingLeftBehind, Places, Leans

LEMMA CleanPreserved == CleanInv /\ [IsolationNext]_isolationVars => CleanInv'
<1> SUFFICES ASSUME CleanInv, [IsolationNext]_isolationVars PROVE CleanInv'
  OBVIOUS
<1> USE IsolationAssumption DEF CleanInv, Clock, NothingLeftBehind, Places, Leans, given
<1>1. CASE Start
  BY <1>1 DEF Start, Launch
<1>2. CASE FailToStart
  BY <1>2 DEF FailToStart, Quit
<1>3. CASE PassProbe
  <2>1. CASE VersionConfirmed /\ Launch("running")
    BY <1>3, <2>1 DEF PassProbe, Launch
  <2>2. CASE \E code, text : Quit(code, text) /\ UNCHANGED <<started, lean, end>>
    BY <1>3, <2>2 DEF PassProbe, Quit
  <2> QED
    BY <1>3, <2>1, <2>2 DEF PassProbe
<1>4. CASE ProbeTimesOut
  BY <1>4 DEF ProbeTimesOut, Quit
<1>5. CASE RunTimesOut
  BY <1>5 DEF RunTimesOut, KillGroup, Quit
<1>6. CASE Report
  <2>1. PICK code, text : Quit(code, text) /\ UNCHANGED <<given, now, started, lean, end>>
    BY <1>6 DEF Report
  <2> QED
    BY <1>6, <2>1 DEF Report, Quit
<1>7. CASE LeanExits
  BY <1>7 DEF LeanExits
\* The runner's timeout comes before some deadline, so it is not a long one.
<1>8. CASE RunnerTimesOut
  <2>1. now <= ProbeTimeout + WallTimeout
    BY <1>8 DEF RunnerTimesOut, Waiting
  <2> QED
    BY <1>8, <2>1 DEF RunnerTimesOut, Waiting
<1>9. CASE DieWithParent
  BY <1>9 DEF DieWithParent
<1>10. CASE Tick
  BY <1>10 DEF Tick, Waiting, Deadline, ProbeWait
<1>11. CASE UNCHANGED isolationVars
  BY <1>11 DEF isolationVars
<1> QED
  BY <1>1, <1>2, <1>3, <1>4, <1>5, <1>6, <1>7, <1>8, <1>9, <1>10, <1>11
  DEF IsolationNext, Wrapper

(* Whatever the timeouts are: a wrapper that has exited left neither Lean  *)
(* nor its scratch directory behind, and a runner that waits longer than   *)
(* both timeouts of the wrapper never has to kill it.                      *)
THEOREM WrapperCleansUp == IsolationSpec => []NothingLeftBehind
<1>1. CleanInv => NothingLeftBehind
  BY DEF CleanInv
<1> QED
  BY <1>1, CleanInitially, CleanPreserved, PTL DEF IsolationSpec

-----------------------------------------------------------------------------
(* An end of Lean on a file that a trusted toolchain could have produced,  *)
(* unless a signal ended it, which the wrapper does not pass on.           *)
Genuine(e) == e.signalled \/ [returncode |-> e.returncode, output |-> e.output] \in Pinned!LeanExits(claim)

(* A file reaches Lean only if the toolchain is the pinned one, and the    *)
(* exit that the runner sees is a failure or one Lean has made.            *)
TrustInv ==
  /\ claim \in {"true", "false", "broken"}
  /\ pc \in Places
  /\ pc # "exited" => printed = "other"
  /\ mode = "file" /\ pc = "running" => install = "pinned"
  /\ mode = "file" /\ pc = "running" /\ lean = "ended" => Genuine(end)
  /\ mode = "file" /\ pc = "exited" =>
       \/ status \in {"other", "wrapper_timeout"}
       \/ [returncode |-> status, output |-> printed] \in Pinned!LeanExits(claim)
  /\ mode = "version" /\ pc = "exited" /\ status = "zero" => install = "pinned"

LEMMA TrustInitially == IsolationInit => TrustInv
  BY DEF IsolationInit, TrustInv, Places

LEMMA TrustPreserved == TrustInv /\ [IsolationNext]_isolationVars => TrustInv'
<1> SUFFICES ASSUME TrustInv, [IsolationNext]_isolationVars PROVE TrustInv'
  OBVIOUS
<1> USE DEF TrustInv, Places, given
<1>1. CASE Start
  BY <1>1 DEF Start, Launch
<1>2. CASE FailToStart
  BY <1>2 DEF FailToStart, Quit
\* The version check lets a file through on the pinned toolchain only.
<1>3. CASE PassProbe
  BY <1>3 DEF PassProbe, Launch, Quit, VersionConfirmed
<1>4. CASE ProbeTimesOut
  BY <1>4 DEF ProbeTimesOut, Quit
<1>5. CASE RunTimesOut
  BY <1>5 DEF RunTimesOut, Quit
\* What is reported is a failure, or the end of Lean as it was.
<1>6. CASE Report
  <2>1. PICK r \in Reported(end) :
          IF mode = "version" /\ install # "pinned"
          THEN Quit("other", r[2]) ELSE Quit(r[1], r[2])
    BY <1>6 DEF Report
  <2>2. r[1] = "other" \/ (r = <<end.returncode, end.output>> /\ ~end.signalled)
    BY <2>1 DEF Reported
  <2>3. CASE mode = "file" /\ r = <<end.returncode, end.output>> /\ ~end.signalled
    BY <1>6, <2>1, <2>3 DEF Report, Quit, Genuine
  <2>4. CASE r[1] = "other" \/ mode # "file"
    BY <1>6, <2>1, <2>4 DEF Report, Quit
  <2> QED
    BY <2>2, <2>3, <2>4
<1>7. CASE LeanExits
  <2>1. ASSUME mode = "file", pc = "running" PROVE Genuine(end')
    BY <1>7, <2>1 DEF LeanExits, PossibleEnds, LeanEnds, Genuine
  <2> QED
    BY <1>7, <2>1 DEF LeanExits, Genuine
<1>8. CASE RunnerTimesOut
  BY <1>8 DEF RunnerTimesOut, Waiting
<1>9. CASE DieWithParent
  BY <1>9 DEF DieWithParent
<1>10. CASE Tick
  BY <1>10 DEF Tick, Waiting
<1>11. CASE UNCHANGED isolationVars
  BY <1>11 DEF isolationVars, Genuine
<1> QED
  BY <1>1, <1>2, <1>3, <1>4, <1>5, <1>6, <1>7, <1>8, <1>9, <1>10, <1>11
  DEF IsolationNext, Wrapper

(* What _run_lean_file makes of a failure is something it can make of any  *)
(* Lean: an exit code that decides nothing, or a timeout.                  *)
LEMMA FailuresAllowed ==
  ASSUME NEW c \in {"true", "false", "broken"}
  PROVE  /\ \A z \in {"other", "wrapper_timeout"} :
              Pinned!ExitResult([returncode |-> z, output |-> "other"]) \in Pinned!LeanFileResults(c)
         /\ [Pinned!NoRun EXCEPT !.timedOut = TRUE, !.output = "other"] \in Pinned!LeanFileResults(c)
<1>1. "other" \in Pinned!RefutationsPossible(c)
  BY DEF Pinned!RefutationsPossible, Pinned!Outputs
<1>2. ASSUME NEW z \in {"other", "wrapper_timeout"}
      PROVE  [returncode |-> z, output |-> "other"] \in Pinned!LeanExits(c)
  BY <1>1 DEF Pinned!LeanExits, Pinned!ReturnCodes
<1> QED
  BY <1>1, <1>2 DEF Pinned!LeanFileResults

LEMMA TrustSuffices == TrustInv => IsolatedLeanTrusted
<1> SUFFICES ASSUME TrustInv PROVE IsolatedLeanTrusted
  OBVIOUS
<1>1. ASSUME Over, mode = "file" PROVE Seen \in Pinned!LeanFileResults(claim)
  <2>1. CASE pc = "killed"
    <3>1. Seen = [Pinned!NoRun EXCEPT !.timedOut = TRUE, !.output = "other"]
      BY <2>1 DEF TrustInv, Seen, Result, Pinned!Failed, Pinned!NoRun
    <3> QED
      BY <3>1, FailuresAllowed DEF TrustInv
  <2>2. CASE pc = "exited" /\ status \in {"other", "wrapper_timeout"}
    <3>1. Seen = Pinned!ExitResult([returncode |-> status, output |-> "other"])
      BY <2>2 DEF Seen, Result, Pinned!Failed, Pinned!NoRun, Pinned!ExitResult
    <3> QED
      BY <2>2, <3>1, FailuresAllowed DEF TrustInv
  <2>3. CASE pc = "exited" /\ status \notin {"other", "wrapper_timeout"}
    <3>1. [returncode |-> status, output |-> printed] \in Pinned!LeanExits(claim)
      BY <1>1, <2>3 DEF TrustInv
    <3>2. status \in {"zero", "one"}
      BY <2>3, <3>1 DEF Pinned!LeanExits, Pinned!ReturnCodes
    <3>3. Seen = Pinned!ExitResult([returncode |-> status, output |-> printed])
      BY <2>3, <3>2 DEF Seen, Result, Pinned!Failed, Pinned!NoRun, Pinned!ExitResult
    <3> QED
      BY <3>1, <3>3 DEF Pinned!LeanFileResults
  <2> QED
    BY <1>1, <2>1, <2>2, <2>3 DEF Over
<1> QED
  BY <1>1 DEF IsolatedLeanTrusted, TrustInv

(* Whatever the timeouts are, the runner sees of a file what a trusted     *)
(* Lean could show it, and `--version` succeeds for the pinned toolchain   *)
(* only.                                                                   *)
THEOREM WrapperShowsTrustedLean == IsolationSpec => []IsolatedLeanTrusted
BY TrustInitially, TrustPreserved, TrustSuffices, PTL DEF IsolationSpec

-----------------------------------------------------------------------------
(* The diagnostic scanner.                                                 *)
(* A header whose proposition is still being read.                         *)
Pending(i) ==
  /\ place \in {"proposition", "rejected"}
  /\ \A j \in i + 1 .. index - 1 : lines[j] \in Indented

ReadSoFar ==
  \A i \in 1 .. index - 1 :
    /\ lines[i] # "other"
    /\ lines[i] = "header" => DecidedAt(i) \/ Pending(i)

HeaderRead == \E i \in 1 .. index - 1 : lines[i] = "header"

ScannerInv ==
  /\ ScannerTypeOK
  /\ decisions < index
  /\ ReadSoFar
  /\ place = "proposition" \/ decisions > 0 => HeaderRead
  /\ place = "accepted" => AtEnd /\ decisions > 0

LEMMA ScanFromTopInv == lines \in Seq(LineKinds) /\ ScanFromTop => ScannerInv
  BY DEF ScanFromTop, ScannerInv, ScannerTypeOK, ReadSoFar, HeaderRead, Gaps, Bodies, Done

LEMMA ScannerInitInv == ScannerInit => ScannerInv
  BY ScanFromTopInv, InputsAssumption DEF ScannerInit

LEMMA LenType == ASSUME ScannerTypeOK PROVE Len(lines) \in Nat /\ index \in Nat
  BY DEF ScannerTypeOK

(* Reading one line that is neither a header nor unrecognised keeps the    *)
(* account of the lines read, unless a pending header loses its body.      *)
LEMMA AdvanceInv ==
  ASSUME ScannerInv, UNCHANGED lines, ~AtEnd, NEW p, Advance(p),
         p \in {"top"} \cup Gaps \cup Bodies,
         lines[index] \notin {"header", "other"},
         place = "proposition" => p = "proposition" /\ lines[index] \in Indented,
         place # "rejected", place # "proposition" => p # "proposition",
         UNCHANGED decisions
  PROVE  ScannerInv'
<1> USE DEF ScannerInv, ScannerTypeOK, Advance, AtEnd
<1>1. index' = index + 1 /\ index' \in 1 .. Len(lines) + 1 /\ ScannerTypeOK'
  OBVIOUS
<1>2. \A i : DecidedAt(i)' = DecidedAt(i)
  BY DEF DecidedAt
<1>3. ReadSoFar'
  BY <1>1, <1>2 DEF ReadSoFar, Pending
<1>4. HeaderRead => HeaderRead'
  BY <1>1 DEF HeaderRead
<1> QED
  BY <1>1, <1>3, <1>4 DEF Gaps, Bodies

(* Moving between loops without reading keeps it too.                      *)
LEMMA StayInv ==
  ASSUME ScannerInv, UNCHANGED <<lines, decisions>>, NEW p, Stay(p),
         p \in {"top", "rejected", "accepted"} \cup Gaps,
         place = "proposition" => p = "rejected",
         place # "rejected", p = "accepted" => AtEnd /\ decisions > 0
  PROVE  ScannerInv'
<1> USE DEF ScannerInv, ScannerTypeOK, Stay, AtEnd
<1>1. \A i : DecidedAt(i)' = DecidedAt(i)
  BY DEF DecidedAt
<1>2. ReadSoFar'
  BY <1>1 DEF ReadSoFar, Pending
<1> QED
  BY <1>2 DEF HeaderRead, Gaps, Done

LEMMA ReadHeaderInv ==
  ASSUME ScannerInv, ReadHeader, UNCHANGED <<lines, decisions>>
  PROVE  ScannerInv'
<1> USE DEF ScannerInv, ScannerTypeOK, ReadHeader, Advance, At, AtEnd
<1>1. /\ index' = index + 1 /\ place' = "proposition" /\ lines[index] = "header"
      /\ index \in 1 .. Len(lines) /\ ScannerTypeOK'
  BY DEF Bodies
<1>2. \A i : DecidedAt(i)' = DecidedAt(i)
  BY DEF DecidedAt
<1>3. ReadSoFar'
  BY <1>1, <1>2 DEF ReadSoFar, Pending
<1>4. HeaderRead'
  BY <1>1 DEF HeaderRead
<1> QED
  BY <1>1, <1>3, <1>4

LEMMA DecideInv ==
  ASSUME ScannerInv, Decide, UNCHANGED lines
  PROVE  ScannerInv'
<1> USE DEF ScannerInv, ScannerTypeOK, Decide, Advance, Closes, At, AtEnd
<1>1. /\ index \in 1 .. Len(lines) /\ lines[index] = "false" /\ index' = index + 1
      /\ place = "proposition" /\ place' = "decisionGap" /\ decisions' = decisions + 1
      /\ lines[index - 1] # "header" /\ ScannerTypeOK'
  BY DEF Gaps
<1>2. \A i : DecidedAt(i)' = DecidedAt(i)
  BY DEF DecidedAt
<1>3. ASSUME NEW i \in 1 .. index - 1, lines[i] = "header" PROVE DecidedAt(i)
  <2>1. CASE Pending(i)
    <3>1. i # index - 1
      BY <1>1, <1>3
    <3>2. index \in i + 2 .. Len(lines)
      BY <1>1, <3>1
    <3> QED
      BY <1>1, <2>1, <3>2 DEF DecidedAt, Pending
  <2> QED
    BY <1>3, <2>1 DEF ReadSoFar
<1>4. ReadSoFar'
  BY <1>1, <1>2, <1>3 DEF ReadSoFar
<1>5. HeaderRead'
  BY <1>1 DEF HeaderRead
<1> QED
  BY <1>1, <1>4, <1>5

LEMMA ScannerStepInv == ScannerInv /\ [ScannerNext]_scannerVars => ScannerInv'
<1> SUFFICES ASSUME ScannerInv, [ScannerNext]_scannerVars PROVE ScannerInv'
  OBVIOUS
<1>1. CASE ReadWarning /\ UNCHANGED <<lines, decisions>>
  BY <1>1, AdvanceInv DEF ReadWarning, At, Bodies
<1>2. CASE ReadHeader /\ UNCHANGED <<lines, decisions>>
  BY <1>2, ReadHeaderInv
<1>3. CASE RefuseLine /\ UNCHANGED <<lines, decisions>>
  BY <1>3, StayInv DEF RefuseLine
<1>4. CASE EndOfOutput /\ UNCHANGED <<lines, decisions>>
  BY <1>4, StayInv DEF EndOfOutput
<1>5. CASE SkipIndented /\ UNCHANGED <<lines, decisions>>
  BY <1>5, AdvanceInv DEF SkipIndented, At, Bodies, Indented
<1>6. CASE EndOfBody /\ UNCHANGED <<lines, decisions>>
  BY <1>6, StayInv DEF EndOfBody, GapAfter, Gaps
<1>7. CASE SkipBlank /\ UNCHANGED <<lines, decisions>>
  BY <1>7, AdvanceInv DEF SkipBlank, At, Gaps, Blank
<1>8. CASE ReadNote /\ UNCHANGED <<lines, decisions>>
  BY <1>8, AdvanceInv DEF ReadNote, At, Bodies
<1>9. CASE EndOfGap /\ UNCHANGED <<lines, decisions>>
  BY <1>9, StayInv DEF EndOfGap, Gaps
<1>10. CASE RefuseProposition /\ UNCHANGED <<lines, decisions>>
  BY <1>10, StayInv DEF RefuseProposition
<1>11. CASE Decide /\ UNCHANGED lines
  BY <1>11, DecideInv
<1>12. CASE UNCHANGED scannerVars
  BY <1>12 DEF scannerVars, ScannerInv, ScannerTypeOK, ReadSoFar, Pending, DecidedAt,
               HeaderRead, AtEnd
<1> QED
  BY <1>1, <1>2, <1>3, <1>4, <1>5, <1>6, <1>7, <1>8, <1>9, <1>10, <1>11, <1>12
     DEF ScannerNext, Scan

LEMMA ScannerInvariance == ScannerSpec => []ScannerInv
  BY ScannerInitInv, ScannerStepInv, PTL DEF ScannerSpec

(* The scanner's cursor never leaves the output by more than one line, so  *)
(* no `lines[index]` behind an index check can fail.                       *)
THEOREM ScannerTypeCorrect == ScannerSpec => []ScannerTypeOK
  BY ScannerInvariance, PTL DEF ScannerInv

LEMMA AcceptedIsDecided == ScannerInv => AcceptedMeansDecided
<1> SUFFICES ASSUME ScannerInv, place = "accepted"
             PROVE  AcceptedMeansDecided
  BY DEF AcceptedMeansDecided
<1>1. index = Len(lines) + 1 /\ HeaderRead /\ ReadSoFar
  BY DEF ScannerInv, AtEnd
<1>2. DOMAIN lines = 1 .. index - 1
  BY <1>1, LenType DEF ScannerInv, ScannerTypeOK
<1>3. /\ \A i \in DOMAIN lines : lines[i] # "other"
      /\ \A i \in DOMAIN lines : lines[i] = "header" => DecidedAt(i)
  BY <1>1, <1>2 DEF ReadSoFar, Pending
<1>4. \E i \in DOMAIN lines : lines[i] = "header"
  BY <1>1, <1>2 DEF HeaderRead
<1> QED
  BY <1>3, <1>4 DEF AcceptedMeansDecided

(* For output of any length: what _native_false_diagnostics accepts has a  *)
(* native_decide refutation, no incomplete one and no unrecognised line.   *)
THEOREM AcceptanceIsConservative == ScannerSpec => []AcceptedMeansDecided
  BY AcceptedIsDecided, ScannerInvariance, PTL

-----------------------------------------------------------------------------
(* The grammar, by the places of lines in the whole output.                *)
StartLine(i)  == lines[i] \in {"warning", "header"}
AllIn(S, a, z) == \A j \in a .. z : lines[j] \in S

\* The block that starts at line i goes on to line e.
Extent(i, e) ==
  /\ e \in i .. Len(lines)
  /\ e = Len(lines) \/ StartLine(e + 1)
  /\ \A j \in i + 1 .. e : ~StartLine(j)

BodyAt(a, e) == \E k \in a .. e : AllIn(Indented, a + 1, k) /\ AllIn(Blank, k + 1, e)
WarningAt(i, e) ==
  BodyAt(i, e) \/ \E n \in i + 1 .. e : lines[n] = "note" /\ BodyAt(i, n - 1) /\ BodyAt(n, e)
DecisionAt(i, e) ==
  \E n \in i + 2 .. e :
    lines[n] = "false" /\ AllIn(Indented, i + 1, n - 1) /\ AllIn(Blank, n + 1, e)
GoodAt(i, e) == IF lines[i] = "header" THEN DecisionAt(i, e) ELSE WarningAt(i, e)

Grammatical ==
  /\ 1 \in DOMAIN lines /\ StartLine(1)
  /\ \E i \in DOMAIN lines : lines[i] = "header"
  /\ \A i \in DOMAIN lines : StartLine(i) => \A e \in DOMAIN lines : Extent(i, e) => GoodAt(i, e)

\* What the scanner has read of the block that starts at line b.  A body is
\* as long as it can be, so the line behind it is not indented.
GapFrom(a) ==
  \E g \in a .. index - 1 :
    /\ AllIn(Indented, a + 1, g) /\ AllIn(Blank, g + 1, index - 1)
    /\ g < Len(lines) => lines[g + 1] \notin Indented
NoteOf(b, n) == n \in b + 1 .. index - 1 /\ lines[n] = "note" /\ BodyAt(b, n - 1)

Complete(b) ==
  /\ ~At(Blank)
  /\ \/ lines[b] = "warning" /\ ~At({"note"}) /\ GapFrom(b)
     \/ lines[b] = "warning" /\ \E n \in DOMAIN lines : NoteOf(b, n) /\ GapFrom(n)
     \/ lines[b] = "header" /\ DecisionAt(b, index - 1)

Read(b) ==
  CASE place = "warning"     -> lines[b] = "warning" /\ AllIn(Indented, b + 1, index - 1)
    [] place = "warningGap"  -> lines[b] = "warning" /\ GapFrom(b)
    [] place = "note"        -> /\ lines[b] = "warning"
                                /\ \E n \in DOMAIN lines :
                                     NoteOf(b, n) /\ AllIn(Indented, n + 1, index - 1)
    [] place = "noteGap"     -> /\ lines[b] = "warning"
                                /\ \E n \in DOMAIN lines : NoteOf(b, n) /\ GapFrom(n)
    [] place = "proposition" -> lines[b] = "header" /\ AllIn(Indented, b + 1, index - 1)
    [] place = "decisionGap" -> lines[b] = "header" /\ DecisionAt(b, index - 1)
    [] OTHER                 -> Complete(b)

\* Line b is the last start that has been read, and the blocks before it
\* are good ones.
Latest(b) ==
  /\ b \in 1 .. index - 1 /\ StartLine(b)
  /\ \A j \in b + 1 .. index - 1 : ~StartLine(j)
  /\ \A i \in 1 .. b - 1 : StartLine(i) =>
       \A e \in DOMAIN lines : Extent(i, e) => GoodAt(i, e)

GrammarInv ==
  /\ index = 1 => place \in {"top", "rejected"}
  /\ index > 1 => StartLine(1)
  /\ place \notin Done /\ index > 1 => \E b \in DOMAIN lines : Latest(b) /\ Read(b)
  /\ HeaderRead /\ place \notin {"proposition"} \cup Done => decisions > 0
  /\ place \in Done => (place = "accepted" <=> Grammatical)

LEMMA IndexType ==
  ASSUME ScannerInv
  PROVE  /\ Len(lines) \in Nat /\ index \in 1 .. Len(lines) + 1
         /\ DOMAIN lines = 1 .. Len(lines)
         /\ AtEnd <=> index = Len(lines) + 1
         /\ ~AtEnd => index \in DOMAIN lines /\ lines[index] \in LineKinds
         /\ \A S : At(S) <=> ~AtEnd /\ lines[index] \in S
  BY DEF ScannerInv, ScannerTypeOK, AtEnd, At

(* Where a block ends is determined.                                       *)
LEMMA ExtentUnique ==
  ASSUME ScannerInv, NEW i, NEW e, NEW f, Extent(i, e), Extent(i, f), i \in Nat
  PROVE  e = f
<1>1. e \in i .. Len(lines) /\ f \in i .. Len(lines) /\ Len(lines) \in Nat
  BY IndexType DEF Extent
<1>2. e < f => e + 1 \in i + 1 .. f /\ e # Len(lines)
  BY <1>1
<1>3. f < e => f + 1 \in i + 1 .. e /\ f # Len(lines)
  BY <1>1
<1> QED
  BY <1>1, <1>2, <1>3 DEF Extent

(* A block that reading has completed is a good one, if it ends here.      *)
LEMMA CompleteIsGood ==
  ASSUME ScannerInv, NEW b \in DOMAIN lines, Complete(b)
  PROVE  GoodAt(b, index - 1)
<1>1. lines[b] = "header" => DecisionAt(b, index - 1)
  BY DEF Complete
<1>2. GapFrom(b) => BodyAt(b, index - 1)
  BY IndexType DEF GapFrom, BodyAt
<1>3. \A n \in DOMAIN lines : NoteOf(b, n) /\ GapFrom(n) => WarningAt(b, index - 1)
  BY IndexType DEF GapFrom, BodyAt, NoteOf, WarningAt
<1> QED
  BY <1>1, <1>2, <1>3 DEF Complete, GoodAt, WarningAt

(* A body with its gap does not reach beyond what the scanner took.        *)
LEMMA GapStuck ==
  ASSUME ScannerInv, NEW a \in Nat, GapFrom(a), ~At(Blank), ~AtEnd,
         NEW e \in Nat, index <= e, e <= Len(lines)
  PROVE  ~BodyAt(a, e)
<1>1. PICK g \in a .. index - 1 :
        /\ AllIn(Indented, a + 1, g) /\ AllIn(Blank, g + 1, index - 1)
        /\ g < Len(lines) => lines[g + 1] \notin Indented
  BY DEF GapFrom
<1>2. g < Len(lines) /\ lines[index] \notin Blank /\ index \in Nat /\ g \in Nat
  BY <1>1, IndexType
<1> SUFFICES ASSUME NEW k \in a .. e, AllIn(Indented, a + 1, k), AllIn(Blank, k + 1, e)
             PROVE  FALSE
  BY DEF BodyAt
<1>3. k <= g
  <2>1. k > g => g + 1 \in a + 1 .. k
    BY <1>1, <1>2
  <2> QED
    BY <1>1, <1>2, <2>1 DEF AllIn
<1>4. index \in k + 1 .. e
  BY <1>1, <1>2, <1>3
<1> QED
  BY <1>2, <1>4 DEF AllIn

(* No body contains a note or the end of a decision.                       *)
LEMMA BodyLines ==
  ASSUME NEW a \in Nat, NEW e \in Nat, BodyAt(a, e), NEW j \in a + 1 .. e
  PROVE  lines[j] \in Indented \cup Blank
<1>1. PICK k \in a .. e : AllIn(Indented, a + 1, k) /\ AllIn(Blank, k + 1, e)
  BY DEF BodyAt
<1>2. j \in a + 1 .. k \/ j \in k + 1 .. e
  BY <1>1
<1> QED
  BY <1>1, <1>2 DEF AllIn

LEMMA GapLines ==
  ASSUME NEW a \in Nat, GapFrom(a), index \in Nat, NEW j \in a + 1 .. index - 1
  PROVE  lines[j] \in Indented \cup Blank
<1>1. BodyAt(a, index - 1)
  BY DEF GapFrom, BodyAt
<1> QED
  BY <1>1, BodyLines

(* A complete block with more lines behind it is a bad one.                *)
LEMMA CompleteStuck ==
  ASSUME ScannerInv, NEW b \in DOMAIN lines, b < index, Complete(b), ~AtEnd,
         NEW e \in DOMAIN lines, index <= e
  PROVE  ~GoodAt(b, e)
<1>0. /\ b \in Nat /\ e \in Nat /\ index \in Nat /\ b + 1 <= index /\ e <= Len(lines)
      /\ ~At(Blank) /\ index \in 1 .. Len(lines) /\ lines[index] \notin Blank
      /\ Len(lines) \in Nat /\ DOMAIN lines = 1 .. Len(lines)
  BY IndexType DEF Complete
<1>1. "false" \notin Indented \cup Blank /\ "note" \notin Indented \cup Blank
  BY DEF Indented, Blank
<1>2. CASE lines[b] = "warning" /\ ~At({"note"}) /\ GapFrom(b)
  <2>1. ~BodyAt(b, e)
    BY <1>0, <1>2, GapStuck
  <2>2. ASSUME NEW n \in b + 1 .. e, lines[n] = "note", BodyAt(b, n - 1) PROVE FALSE
    <3>1. n > index
      <4>1. n # index
        BY <1>0, <1>2, <2>2, IndexType
      <4>2. n \notin b + 1 .. index - 1
        BY <1>0, <1>1, <1>2, <2>2, GapLines
      <4> QED
        BY <1>0, <4>1, <4>2
    <3>2. n - 1 \in Nat /\ index <= n - 1 /\ n - 1 <= Len(lines)
      BY <1>0, <3>1
    <3> QED
      BY <1>0, <1>2, <2>2, <3>2, GapStuck
  <2> QED
    BY <1>2, <2>1, <2>2 DEF GoodAt, WarningAt
<1>3. ASSUME lines[b] = "warning", NEW m \in DOMAIN lines, NoteOf(b, m), GapFrom(m)
      PROVE  ~GoodAt(b, e)
  <2>1. m \in b + 1 .. index - 1 /\ lines[m] = "note" /\ BodyAt(b, m - 1) /\ m \in Nat
    BY <1>0, <1>3 DEF NoteOf
  <2>2. ~BodyAt(b, e)
    <3>1. m \in b + 1 .. e
      BY <1>0, <2>1
    <3> QED
      BY <1>0, <1>1, <2>1, <3>1, BodyLines
  <2>3. ASSUME NEW n \in b + 1 .. e, lines[n] = "note", BodyAt(b, n - 1), BodyAt(n, e) PROVE FALSE
    <3>1. CASE n < m
      <4>1. n \in b + 1 .. m - 1 /\ m - 1 \in Nat
        BY <1>0, <2>1, <3>1
      <4> QED
        BY <1>0, <1>1, <2>1, <2>3, <4>1, BodyLines
    <3>2. CASE n > m
      <4>1. m \in b + 1 .. n - 1 /\ n - 1 \in Nat
        BY <1>0, <2>1, <3>2
      <4> QED
        BY <1>0, <1>1, <2>1, <2>3, <4>1, BodyLines
    <3>3. CASE n = m
      BY <1>0, <1>3, <2>1, <2>3, <3>3, GapStuck
    <3> QED
      BY <1>0, <2>1, <3>1, <3>2, <3>3
  <2> QED
    BY <1>3, <2>2, <2>3 DEF GoodAt, WarningAt
<1>4. CASE lines[b] = "header" /\ DecisionAt(b, index - 1)
  <2>1. PICK m \in b + 2 .. index - 1 : lines[m] = "false" /\ AllIn(Indented, b + 1, m - 1)
    BY <1>4 DEF DecisionAt
  <2>2. ASSUME NEW n \in b + 2 .. e, lines[n] = "false", AllIn(Indented, b + 1, n - 1),
               AllIn(Blank, n + 1, e)
        PROVE  FALSE
    <3>1. ~(n < m)
      BY <1>0, <1>1, <2>1, <2>2 DEF AllIn
    <3>2. ~(m < n)
      BY <1>0, <1>1, <2>1, <2>2 DEF AllIn
    <3>3. index \in n + 1 .. e
      BY <1>0, <2>1, <3>1, <3>2
    <3> QED
      BY <1>0, <2>2, <3>3 DEF AllIn
  <2> QED
    BY <1>4, <2>2 DEF GoodAt, DecisionAt
<1> QED
  BY <1>2, <1>3, <1>4 DEF Complete

(* So is a proposition that is not closed.                                 *)
LEMMA PropositionStuck ==
  ASSUME ScannerInv, NEW b \in DOMAIN lines, b < index, lines[b] = "header",
         AllIn(Indented, b + 1, index - 1), ~At(Indented), ~Closes,
         NEW e \in DOMAIN lines, index - 1 <= e
  PROVE  ~GoodAt(b, e)
<1>0. /\ b \in Nat /\ e \in Nat /\ index \in Nat /\ b + 1 <= index /\ e <= Len(lines)
      /\ DOMAIN lines = 1 .. Len(lines) /\ Len(lines) \in Nat
      /\ "false" \notin Indented /\ "header" \notin Indented
  BY IndexType DEF Indented
<1> SUFFICES ASSUME NEW n \in b + 2 .. e, lines[n] = "false", AllIn(Indented, b + 1, n - 1)
             PROVE  FALSE
  BY DEF GoodAt, DecisionAt
<1>1. n \notin b + 1 .. index - 1
  BY <1>0 DEF AllIn
<1>2. n >= index /\ ~AtEnd /\ index \in b + 1 .. n
  BY <1>0, <1>1, IndexType
<1>3. n = index
  <2>1. n > index => index \in b + 1 .. n - 1
    BY <1>0, <1>2
  <2> QED
    BY <1>0, <1>2, <2>1, IndexType DEF AllIn
<1>4. index - 1 \in b + 1 .. index - 1
  BY <1>0, <1>3
<1>5. lines[index - 1] \in Indented
  BY <1>4 DEF AllIn
<1> QED
  BY <1>0, <1>2, <1>3, <1>5, IndexType DEF Closes

(* Reading on within a block.                                              *)
LEMMA LatestKept ==
  ASSUME ScannerInv, UNCHANGED lines, NEW b, Latest(b),
         index' = index \/ (index' = index + 1 /\ ~AtEnd /\ ~StartLine(index))
  PROVE  Latest(b)'
<1>1. index \in Nat /\ b \in 1 .. index' - 1
  BY IndexType DEF Latest
<1>2. ASSUME NEW j \in b + 1 .. index' - 1 PROVE ~StartLine(j)
  <2>1. j \in b + 1 .. index - 1 \/ (j = index /\ index' = index + 1)
    BY <1>1
  <2> QED
    BY <2>1 DEF Latest
<1>3. \A i, e : (StartLine(i)' <=> StartLine(i)) /\ (Extent(i, e)' <=> Extent(i, e))
                /\ (GoodAt(i, e)' <=> GoodAt(i, e))
  BY DEF StartLine, Extent, GoodAt, DecisionAt, WarningAt, BodyAt, AllIn
<1>4. StartLine(b) /\ \A i \in 1 .. b - 1 : StartLine(i) =>
        \A e \in DOMAIN lines : Extent(i, e) => GoodAt(i, e)
  BY DEF Latest
<1> QED
  BY <1>1, <1>2, <1>3, <1>4 DEF Latest

(* A new block, after one that is complete or at the beginning.            *)
LEMMA LatestNew ==
  ASSUME ScannerInv, UNCHANGED lines, ~AtEnd, StartLine(index), index' = index + 1,
         index = 1 \/ \E b \in DOMAIN lines : Latest(b) /\ GoodAt(b, index - 1),
         NEW s, s = index
  PROVE  Latest(s)'
<1>1. index \in Nat /\ s \in 1 .. index' - 1 /\ s \in Nat /\ s + 1 .. index' - 1 = {}
  BY IndexType
<1>2. \A i, e : (StartLine(i)' <=> StartLine(i)) /\ (Extent(i, e)' <=> Extent(i, e))
                /\ (GoodAt(i, e)' <=> GoodAt(i, e))
  BY DEF StartLine, Extent, GoodAt, DecisionAt, WarningAt, BodyAt, AllIn
<1>3. ASSUME NEW i \in 1 .. s - 1, StartLine(i), NEW e \in DOMAIN lines, Extent(i, e)
      PROVE  GoodAt(i, e)
  <2>1. PICK b \in DOMAIN lines : Latest(b) /\ GoodAt(b, index - 1)
    BY <1>1, <1>3
  <2>2. CASE i < b
    BY <1>3, <2>1, <2>2, <1>1 DEF Latest
  <2>3. CASE i = b
    <3>1. Extent(b, index - 1)
      BY <1>1, <2>1, IndexType DEF Extent, Latest
    <3> QED
      BY <1>1, <1>3, <2>1, <2>3, <3>1, ExtentUnique
  <2>4. CASE i > b
    BY <1>1, <1>3, <2>1, <2>4 DEF Latest
  <2> QED
    BY <1>1, <2>1, <2>2, <2>3, <2>4, IndexType
<1> QED
  BY <1>1, <1>2, <1>3 DEF Latest

LEMMA LeastNatural ==
  ASSUME NEW T, T \in SUBSET Nat, T # {}
  PROVE  \E m \in T : \A k \in T : m <= k
<1>1. PICK m \in T : \A k \in T : ~(<<k, m>> \in OpToRel(<, Nat))
  BY NatLessThanWellFounded, WFMin
<1>2. \A k \in T : ~(k < m)
  BY <1>1 DEF OpToRel
<1> QED
  BY <1>2

LEMMA ExtentExists ==
  ASSUME ScannerInv, NEW b \in DOMAIN lines, Latest(b)
  PROVE  \E e \in DOMAIN lines : index - 1 <= e /\ Extent(b, e)
<1> DEFINE Ends == {k \in index .. Len(lines) + 1 : k = Len(lines) + 1 \/ StartLine(k)}
<1>1. /\ index \in 1 .. Len(lines) + 1 /\ Len(lines) \in Nat /\ DOMAIN lines = 1 .. Len(lines)
      /\ b \in 1 .. index - 1 /\ \A j \in b + 1 .. index - 1 : ~StartLine(j)
  BY IndexType DEF Latest
<1>2. Ends \in SUBSET Nat /\ Len(lines) + 1 \in Ends
  BY <1>1
<1>3. PICK k \in Ends : \A j \in Ends : k <= j
  BY <1>2, LeastNatural
<1>4. k - 1 \in DOMAIN lines /\ index - 1 <= k - 1 /\ k - 1 \in b .. Len(lines)
  BY <1>1, <1>3
<1>5. k - 1 = Len(lines) \/ StartLine((k - 1) + 1)
  BY <1>1, <1>3
<1>6. ASSUME NEW j \in b + 1 .. k - 1 PROVE ~StartLine(j)
  <2>1. j \in index .. Len(lines) + 1 => j \notin Ends
    BY <1>1, <1>3
  <2> QED
    BY <1>1, <1>3, <2>1
<1> QED
  BY <1>4, <1>5, <1>6 DEF Extent

LEMMA HeaderReadKept ==
  ASSUME ScannerInv, UNCHANGED lines,
         index' = index \/ (index' = index + 1 /\ ~AtEnd /\ lines[index] # "header")
  PROVE  HeaderRead' <=> HeaderRead
<1>1. index \in Nat
  BY IndexType
<1>2. \A i \in 1 .. index' - 1 : i \in 1 .. index - 1 \/ (i = index /\ index' = index + 1)
  BY <1>1
<1>3. \A i \in 1 .. index - 1 : i \in 1 .. index' - 1
  BY <1>1
<1> QED
  BY <1>2, <1>3 DEF HeaderRead

(* A step within a block.                                                  *)
LEMMA BlockGoesOn ==
  ASSUME ScannerInv, GrammarInv, UNCHANGED lines, NEW b \in DOMAIN lines, Latest(b), Read(b)',
         index' = index \/ (index' = index + 1 /\ ~AtEnd /\ ~StartLine(index)),
         place \notin Done, place' \notin Done,
         place = "proposition" => place' = "proposition" \/ decisions' > 0,
         UNCHANGED decisions \/ decisions' > 0
  PROVE  GrammarInv'
<1>1. index \in Nat /\ index > 1 /\ index' > 1 /\ index' \in Nat
  BY IndexType DEF Latest
<1>2. Latest(b)' /\ StartLine(1)'
  BY <1>1, LatestKept DEF GrammarInv, StartLine
<1>3. HeaderRead' <=> HeaderRead
  BY HeaderReadKept DEF StartLine
<1>4. HeaderRead' /\ place' \notin {"proposition"} \cup Done => decisions' > 0
  BY <1>3 DEF GrammarInv
<1>5. \E c \in (DOMAIN lines)' : Latest(c)' /\ Read(c)'
  BY <1>2
<1> QED
  BY <1>1, <1>2, <1>4, <1>5 DEF GrammarInv

LEMMA BlockBegins ==
  ASSUME ScannerInv, GrammarInv, UNCHANGED <<lines, decisions>>, ReadWarning \/ ReadHeader
  PROVE  GrammarInv'
<1>1. /\ place = "top" /\ ~AtEnd /\ index' = index + 1 /\ StartLine(index) /\ place' \notin Done
      /\ \/ lines[index] = "warning" /\ place' = "warning"
         \/ lines[index] = "header" /\ place' = "proposition"
      /\ index \in DOMAIN lines /\ index \in Nat
  BY IndexType DEF ReadWarning, ReadHeader, Advance, At, StartLine, Done
<1>2. index = 1 \/ \E b \in DOMAIN lines : Latest(b) /\ GoodAt(b, index - 1)
  BY <1>1, IndexType, CompleteIsGood DEF GrammarInv, Read, Done
<1>3. ASSUME NEW s, s = index PROVE Latest(s)' /\ Read(s)' /\ s \in DOMAIN lines
  <2>1. Latest(s)'
    BY <1>1, <1>2, <1>3, LatestNew
  <2>2. AllIn(Indented, s + 1, index - 1)'
    BY <1>1, <1>3 DEF AllIn
  <2> QED
    BY <1>1, <1>3, <2>1, <2>2 DEF Read
<1>4. StartLine(1)'
  BY <1>1, IndexType DEF GrammarInv, StartLine
<1>5. HeaderRead' /\ place' = "warning" => HeaderRead
  BY <1>1, HeaderReadKept
<1>6. HeaderRead' /\ place' \notin {"proposition"} \cup Done => decisions' > 0
  BY <1>1, <1>5 DEF GrammarInv, Done
<1>7. index' # 1 /\ \E c \in (DOMAIN lines)' : Latest(c)' /\ Read(c)'
  <2>1. PICK s : s = index
    OBVIOUS
  <2>2. Latest(s)' /\ Read(s)' /\ s \in DOMAIN lines
    BY <1>3, <2>1
  <2>3. (DOMAIN lines)' = DOMAIN lines /\ index' # 1
    BY <1>1, IndexType
  <2> QED
    BY <2>2, <2>3
<1> QED
  BY <1>1, <1>4, <1>6, <1>7 DEF GrammarInv

(* The scanner refuses nothing that the grammar has, and nothing else.     *)
LEMMA RefusedAtTop ==
  ASSUME ScannerInv, GrammarInv, UNCHANGED lines, RefuseLine
  PROVE  GrammarInv'
<1>1. /\ place = "top" /\ ~AtEnd /\ ~StartLine(index) /\ index' = index /\ place' = "rejected"
      /\ index \in DOMAIN lines
  BY IndexType DEF RefuseLine, Stay, At, StartLine
<1>2. ~Grammatical
  <2>1. CASE index = 1
    BY <1>1, <2>1 DEF Grammatical
  <2>2. CASE index # 1
    <3>1. PICK b \in DOMAIN lines : Latest(b) /\ Read(b)
      BY <1>1, <2>2, IndexType DEF GrammarInv, Done
    <3>2. PICK e \in DOMAIN lines : index - 1 <= e /\ Extent(b, e)
      BY <3>1, ExtentExists
    <3>3. e # index - 1
      BY <1>1, <3>2, IndexType DEF Extent, AtEnd
    <3>4. index <= e /\ b < index /\ StartLine(b)
      BY <1>1, <3>1, <3>2, <3>3, IndexType DEF Latest
    <3>5. Complete(b)
      BY <1>1, <3>1 DEF Read
    <3> QED
      BY <1>1, <3>2, <3>4, <3>5, CompleteStuck DEF Grammatical
  <2> QED
    BY <2>1, <2>2
<1>3. Grammatical' <=> Grammatical
  BY DEF Grammatical, StartLine, Extent, GoodAt, DecisionAt, WarningAt, BodyAt, AllIn
<1> QED
  BY <1>1, <1>2, <1>3 DEF GrammarInv, Done, StartLine

LEMMA RefusedProposition ==
  ASSUME ScannerInv, GrammarInv, UNCHANGED lines, RefuseProposition
  PROVE  GrammarInv'
<1>1. /\ place = "proposition" /\ index' = index /\ place' = "rejected" /\ ~At(Indented) /\ ~Closes
  BY DEF RefuseProposition, Stay
<1>2. PICK b \in DOMAIN lines : Latest(b) /\ Read(b)
  BY <1>1, IndexType DEF GrammarInv, Done
<1>3. PICK e \in DOMAIN lines : index - 1 <= e /\ Extent(b, e)
  BY <1>2, ExtentExists
<1>4. b < index /\ StartLine(b) /\ lines[b] = "header" /\ AllIn(Indented, b + 1, index - 1)
  BY <1>1, <1>2, IndexType DEF Latest, Read
<1>5. ~Grammatical
  BY <1>1, <1>3, <1>4, PropositionStuck DEF Grammatical
<1>6. Grammatical' <=> Grammatical
  BY DEF Grammatical, StartLine, Extent, GoodAt, DecisionAt, WarningAt, BodyAt, AllIn
<1> QED
  BY <1>1, <1>5, <1>6 DEF GrammarInv, Done, StartLine

LEMMA EndReached ==
  ASSUME ScannerInv, GrammarInv, UNCHANGED <<lines, decisions>>, EndOfOutput
  PROVE  GrammarInv'
<1>1. /\ place = "top" /\ AtEnd /\ index' = index /\ index = Len(lines) + 1 /\ Len(lines) \in Nat
      /\ DOMAIN lines = 1 .. index - 1 /\ decisions \in Nat
      /\ place' = IF decisions > 0 THEN "accepted" ELSE "rejected"
  BY IndexType DEF EndOfOutput, Stay, ScannerInv, ScannerTypeOK
<1>2. decisions > 0 <=> HeaderRead
  BY <1>1 DEF GrammarInv, ScannerInv, Done
<1>3. HeaderRead <=> \E i \in DOMAIN lines : lines[i] = "header"
  BY <1>1 DEF HeaderRead
<1>4. ASSUME index # 1, NEW i \in DOMAIN lines, StartLine(i), NEW e \in DOMAIN lines, Extent(i, e)
      PROVE  GoodAt(i, e)
  <2>1. PICK b \in DOMAIN lines : Latest(b) /\ Read(b)
    BY <1>1, <1>4 DEF GrammarInv, Done
  <2>2. CASE i < b
    BY <1>1, <1>4, <2>1, <2>2 DEF Latest
  <2>3. CASE i = b
    <3>1. Extent(b, index - 1)
      BY <1>1, <2>1 DEF Extent, Latest
    <3>2. e = index - 1
      BY <1>1, <1>4, <2>3, <3>1, ExtentUnique
    <3>3. Complete(b)
      BY <1>1, <2>1 DEF Read
    <3> QED
      BY <2>3, <3>2, <3>3, CompleteIsGood
  <2>4. CASE i > b
    BY <1>1, <1>4, <2>1, <2>4 DEF Latest
  <2> QED
    BY <1>1, <2>2, <2>3, <2>4
<1>5. index # 1 => 1 \in DOMAIN lines /\ StartLine(1)
  BY <1>1 DEF GrammarInv
<1>6. index = 1 => ~HeaderRead
  BY DEF HeaderRead
<1>7. Grammatical <=> HeaderRead
  BY <1>3, <1>4, <1>5, <1>6 DEF Grammatical
<1>8. Grammatical' <=> Grammatical
  BY DEF Grammatical, StartLine, Extent, GoodAt, DecisionAt, WarningAt, BodyAt, AllIn
<1>9. index = 1 => place' = "rejected"
  BY <1>1, <1>2, <1>6
<1> QED
  BY <1>1, <1>2, <1>5, <1>7, <1>8, <1>9 DEF GrammarInv, Done, StartLine

LEMMA WithinBlock ==
  ASSUME ScannerInv, GrammarInv, UNCHANGED lines,
         SkipIndented \/ EndOfBody \/ SkipBlank \/ ReadNote \/ EndOfGap, UNCHANGED decisions
  PROVE  GrammarInv'
<1>0. /\ place \in Gaps \cup Bodies /\ place \notin Done /\ index # 1 /\ index \in Nat
      /\ DOMAIN lines = 1 .. Len(lines) /\ Len(lines) \in Nat /\ index <= Len(lines) + 1
  BY IndexType DEF SkipIndented, EndOfBody, SkipBlank, ReadNote, EndOfGap, Gaps, Bodies, Done,
     GrammarInv
<1>1. PICK b \in DOMAIN lines : Latest(b) /\ Read(b)
  BY <1>0, IndexType DEF GrammarInv
<1>2. b \in 1 .. index - 1
  BY <1>1 DEF Latest
<1>3. CASE SkipIndented
  <2>1. /\ place' = place /\ index' = index + 1 /\ ~AtEnd /\ lines[index] \in Indented
        /\ place \in Bodies /\ ~StartLine(index)
    BY <1>3 DEF SkipIndented, Advance, At, StartLine, Indented
  <2>2. ASSUME NEW a, AllIn(Indented, a, index - 1) PROVE AllIn(Indented, a, index - 1)'
    BY <1>0, <2>1, <2>2 DEF AllIn
  <2>3. \A n : NoteOf(b, n) => NoteOf(b, n)'
    BY <1>0, <2>1 DEF NoteOf, BodyAt, AllIn
  <2>4. Read(b)'
    BY <1>1, <2>1, <2>2, <2>3 DEF Read, Bodies
  <2> QED
    BY <1>0, <1>1, <2>1, <2>4, BlockGoesOn DEF Done, Bodies
<1>4. CASE EndOfBody
  <2>1. /\ index' = index /\ ~At(Indented)
        /\ index < Len(lines) + 1 => lines[index] \notin Indented
        /\ \/ place = "warning" /\ place' = "warningGap"
           \/ place = "note" /\ place' = "noteGap"
    BY <1>4, IndexType DEF EndOfBody, Stay, GapAfter
  <2>2. ASSUME NEW a \in 1 .. index - 1, AllIn(Indented, a + 1, index - 1) PROVE GapFrom(a)'
    <3>1. PICK g : g = index - 1
      OBVIOUS
    <3>2. /\ g \in a .. index' - 1 /\ AllIn(Indented, a + 1, g)' /\ AllIn(Blank, g + 1, index - 1)'
          /\ g < Len(lines') => lines'[g + 1] \notin Indented
      BY <1>0, <2>1, <2>2, <3>1 DEF AllIn
    <3> QED
      BY <3>2 DEF GapFrom
  <2>3. \A n : NoteOf(b, n) => NoteOf(b, n)' /\ n \in 1 .. index - 1
    BY <1>0, <1>2, <2>1 DEF NoteOf, BodyAt, AllIn
  <2>4. Read(b)'
    BY <1>1, <1>2, <2>1, <2>2, <2>3 DEF Read
  <2> QED
    BY <1>0, <1>1, <2>1, <2>4, BlockGoesOn DEF Done
<1>5. CASE SkipBlank
  <2>1. /\ place' = place /\ index' = index + 1 /\ ~AtEnd /\ lines[index] \in Blank
        /\ place \in Gaps /\ ~StartLine(index)
    BY <1>5 DEF SkipBlank, Advance, At, StartLine, Blank
  <2>2. ASSUME NEW a \in 1 .. index - 1, GapFrom(a) PROVE GapFrom(a)'
    <3>1. PICK g \in a .. index - 1 :
            /\ AllIn(Indented, a + 1, g) /\ AllIn(Blank, g + 1, index - 1)
            /\ g < Len(lines) => lines[g + 1] \notin Indented
      BY <2>2 DEF GapFrom
    <3>2. g \in a .. index' - 1 /\ \A j \in g + 1 .. index' - 1 : j \in g + 1 .. index - 1 \/ j = index
      BY <1>0, <2>1
    <3>3. AllIn(Indented, a + 1, g)' /\ AllIn(Blank, g + 1, index - 1)'
      BY <2>1, <3>1, <3>2 DEF AllIn
    <3> QED
      BY <3>1, <3>2, <3>3 DEF GapFrom
  <2>3. \A n : NoteOf(b, n) => NoteOf(b, n)' /\ n \in 1 .. index - 1
    BY <1>0, <1>2, <2>1 DEF NoteOf, BodyAt, AllIn
  <2>4. DecisionAt(b, index - 1) => DecisionAt(b, index - 1)'
    BY <1>0, <1>2, <2>1 DEF DecisionAt, AllIn
  <2>5. Read(b)'
    BY <1>1, <1>2, <2>1, <2>2, <2>3, <2>4 DEF Read, Gaps
  <2> QED
    BY <1>0, <1>1, <2>1, <2>5, BlockGoesOn DEF Done, Gaps
<1>6. CASE ReadNote
  <2>1. /\ place = "warningGap" /\ place' = "note" /\ index' = index + 1 /\ ~AtEnd
        /\ lines[index] = "note" /\ ~StartLine(index) /\ index \in DOMAIN lines
    BY <1>6, IndexType DEF ReadNote, Advance, At, StartLine
  <2>2. BodyAt(b, index - 1)
    BY <1>1, <2>1 DEF Read, GapFrom, BodyAt
  <2>3. ASSUME NEW n, n = index PROVE NoteOf(b, n)' /\ AllIn(Indented, n + 1, index - 1)'
    BY <1>0, <1>2, <2>1, <2>2, <2>3 DEF NoteOf, BodyAt, AllIn
  <2>4. Read(b)'
    <3>1. PICK n : n = index
      OBVIOUS
    <3>2. lines'[b] = "warning" /\ place' = "note" /\ (DOMAIN lines)' = DOMAIN lines
      BY <1>1, <2>1 DEF Read
    <3> QED
      BY <2>1, <2>3, <3>1, <3>2 DEF Read
  <2> QED
    BY <1>0, <1>1, <2>1, <2>4, BlockGoesOn DEF Done
<1>7. CASE EndOfGap
  <2>1. /\ place' = "top" /\ index' = index /\ ~At(Blank) /\ place \in Gaps
        /\ place = "warningGap" => ~At({"note"})
    BY <1>7 DEF EndOfGap, Stay
  <2>2. Complete(b)
    BY <1>1, <2>1 DEF Read, Gaps, Complete
  <2>3. Read(b)'
    <3>1. Complete(b)'
      BY <2>1, <2>2 DEF Complete, At, AtEnd, GapFrom, NoteOf, BodyAt, DecisionAt, AllIn
    <3> QED
      BY <2>1, <3>1 DEF Read
  <2> QED
    BY <1>0, <1>1, <2>1, <2>3, BlockGoesOn DEF Done, Gaps
<1> QED
  BY <1>3, <1>4, <1>5, <1>6, <1>7

LEMMA DecisionRead ==
  ASSUME ScannerInv, GrammarInv, UNCHANGED lines, Decide
  PROVE  GrammarInv'
<1>1. /\ place = "proposition" /\ place' = "decisionGap" /\ index' = index + 1 /\ ~AtEnd
      /\ lines[index] = "false" /\ lines[index - 1] # "header" /\ decisions' = decisions + 1
      /\ decisions' > 0 /\ ~StartLine(index)
  BY IndexType DEF Decide, Closes, At, Advance, StartLine, ScannerInv, ScannerTypeOK
<1>2. PICK b \in DOMAIN lines : Latest(b) /\ Read(b)
  BY <1>1, IndexType DEF GrammarInv, Done
<1>3. lines[b] = "header" /\ AllIn(Indented, b + 1, index - 1) /\ b \in 1 .. index - 1
  BY <1>1, <1>2 DEF Read, Latest
<1>4. index \in Nat /\ index \in b + 2 .. index
  <2>1. b # index - 1
    BY <1>1, <1>3
  <2> QED
    BY <1>3, <2>1, IndexType
<1>5. DecisionAt(b, index - 1)'
  <2>1. PICK n : n = index
    OBVIOUS
  <2>2. /\ n \in b + 2 .. index' - 1 /\ lines'[n] = "false"
        /\ AllIn(Indented, b + 1, n - 1)' /\ AllIn(Blank, n + 1, index - 1)'
    <3>1. n \in b + 2 .. index' - 1 /\ lines'[n] = "false" /\ n + 1 .. index' - 1 = {}
      BY <1>1, <1>4, <2>1
    <3>2. AllIn(Indented, b + 1, n - 1)' /\ AllIn(Blank, n + 1, index - 1)'
      BY <1>3, <2>1, <3>1 DEF AllIn
    <3> QED
      BY <3>1, <3>2
  <2> QED
    BY <2>2 DEF DecisionAt
<1>6. Read(b)'
  BY <1>1, <1>3, <1>5 DEF Read
<1> QED
  BY <1>1, <1>2, <1>6, BlockGoesOn DEF Done

LEMMA GrammarStepInv == ScannerInv /\ GrammarInv /\ [ScannerNext]_scannerVars => GrammarInv'
<1> SUFFICES ASSUME ScannerInv, GrammarInv, [ScannerNext]_scannerVars PROVE GrammarInv'
  OBVIOUS
<1>1. CASE UNCHANGED scannerVars
  BY <1>1 DEF scannerVars, GrammarInv, Read, Latest, Complete, GapFrom, NoteOf, Grammatical, At, AtEnd,
     HeaderRead, StartLine, Extent, GoodAt, DecisionAt, WarningAt, BodyAt, AllIn
<1> QED
  BY <1>1, BlockBegins, RefusedAtTop, EndReached, WithinBlock, RefusedProposition, DecisionRead
     DEF ScannerNext, Scan

-----------------------------------------------------------------------------
(* The grammar by places is the grammar of the specification.              *)
LEMMA SliceBody ==
  ASSUME NEW s \in Seq(LineKinds), NEW a \in Nat, NEW e \in Nat, a <= e, e <= Len(s)
  PROVE  BodyThenGap(SubSeq(s, a + 1, e)) <=>
           \E k \in a .. e : /\ \A j \in a + 1 .. k : s[j] \in Indented
                             /\ \A j \in k + 1 .. e : s[j] \in Blank
<1> DEFINE t == SubSeq(s, a + 1, e)
<1>1. Len(s) \in Nat /\ Len(t) = e - a /\ \A i \in 1 .. e - a : t[i] = s[a + i]
  OBVIOUS
<1> HIDE DEF t
<1>2. ASSUME NEW k \in 0 .. e - a,
             \A i \in 1 .. k : t[i] \in Indented, \A i \in k + 1 .. e - a : t[i] \in Blank
      PROVE  /\ a + k \in a .. e
             /\ \A j \in a + 1 .. a + k : s[j] \in Indented
             /\ \A j \in (a + k) + 1 .. e : s[j] \in Blank
  <2>1. \A j \in a + 1 .. e : j - a \in 1 .. e - a /\ s[j] = t[j - a]
    BY <1>1
  <2>2. \A j \in a + 1 .. a + k : j - a \in 1 .. k /\ j \in a + 1 .. e
    OBVIOUS
  <2>3. \A j \in (a + k) + 1 .. e : j - a \in k + 1 .. e - a /\ j \in a + 1 .. e
    OBVIOUS
  <2>4. a + k \in a .. e
    OBVIOUS
  <2>5. \A j \in a + 1 .. a + k : s[j] \in Indented
    BY <1>2, <2>1, <2>2
  <2>6. \A j \in (a + k) + 1 .. e : s[j] \in Blank
    BY <1>2, <2>1, <2>3
  <2> QED
    BY <2>4, <2>5, <2>6
<1>3. ASSUME NEW k \in a .. e,
             \A j \in a + 1 .. k : s[j] \in Indented, \A j \in k + 1 .. e : s[j] \in Blank
      PROVE  /\ k - a \in 0 .. e - a
             /\ \A i \in 1 .. k - a : t[i] \in Indented
             /\ \A i \in (k - a) + 1 .. e - a : t[i] \in Blank
  <2>1. \A i \in 1 .. k - a : a + i \in a + 1 .. k /\ i \in 1 .. e - a
    OBVIOUS
  <2>2. \A i \in (k - a) + 1 .. e - a : a + i \in k + 1 .. e /\ i \in 1 .. e - a
    OBVIOUS
  <2> QED
    BY <1>1, <1>3, <2>1, <2>2
<1> QED
  BY <1>1, <1>2, <1>3 DEF BodyThenGap, t

LEMMA SliceLines ==
  ASSUME NEW s \in Seq(LineKinds), NEW a \in Nat, NEW e \in Nat, a <= e, e <= Len(s)
  PROVE  /\ SubSeq(s, a + 1, e) \in Seq(LineKinds) /\ Len(SubSeq(s, a + 1, e)) = e - a
         /\ \A i \in 1 .. e - a : SubSeq(s, a + 1, e)[i] = s[a + i]
  OBVIOUS

LEMMA SliceOfSlice ==
  ASSUME NEW s \in Seq(LineKinds), NEW a \in Nat, NEW e \in Nat, a <= e, e <= Len(s),
         NEW n \in 1 .. e - a
  PROVE  /\ SubSeq(SubSeq(s, a + 1, e), 1, n - 1) = SubSeq(s, a + 1, a + n - 1)
         /\ SubSeq(SubSeq(s, a + 1, e), n + 1, e - a) = SubSeq(s, (a + n) + 1, e)
  OBVIOUS

LEMMA BodyBySlice ==
  ASSUME ScannerInv, NEW a \in Nat, NEW e \in Nat, a <= e, e <= Len(lines)
  PROVE  BodyThenGap(SubSeq(lines, a + 1, e)) <=> BodyAt(a, e)
<1>1. lines \in Seq(LineKinds)
  BY DEF ScannerInv, ScannerTypeOK
<1> QED
  BY <1>1, SliceBody DEF BodyAt, AllIn

LEMMA WarningBySlice ==
  ASSUME ScannerInv, NEW i \in Nat, NEW e \in Nat, i <= e, e <= Len(lines)
  PROVE  WarningTail(SubSeq(lines, i + 1, e)) <=> WarningAt(i, e)
<1> DEFINE t == SubSeq(lines, i + 1, e)
<1>1. lines \in Seq(LineKinds) /\ Len(lines) \in Nat
  BY IndexType DEF ScannerInv, ScannerTypeOK
<1>2. Len(t) = e - i /\ \A n \in 1 .. e - i : t[n] = lines[i + n]
  BY <1>1, SliceLines
<1>3. BodyThenGap(t) <=> BodyAt(i, e)
  BY BodyBySlice
<1>4. ASSUME NEW n \in 1 .. e - i
      PROVE  /\ BodyThenGap(SubSeq(t, 1, n - 1)) <=> BodyAt(i, i + n - 1)
             /\ BodyThenGap(SubSeq(t, n + 1, e - i)) <=> BodyAt(i + n, e)
  <2>1. /\ SubSeq(t, 1, n - 1) = SubSeq(lines, i + 1, i + n - 1)
        /\ SubSeq(t, n + 1, e - i) = SubSeq(lines, (i + n) + 1, e)
    BY <1>1, SliceOfSlice
  <2>2. i + n - 1 \in Nat /\ i <= i + n - 1 /\ i + n - 1 <= Len(lines) /\ i + n \in Nat /\ i + n <= e
    BY <1>1
  <2>3. BodyThenGap(SubSeq(lines, i + 1, i + n - 1)) <=> BodyAt(i, i + n - 1)
    BY <2>2, BodyBySlice
  <2>4. BodyThenGap(SubSeq(lines, (i + n) + 1, e)) <=> BodyAt(i + n, e)
    BY <2>2, BodyBySlice
  <2> QED
    BY <2>1, <2>3, <2>4
<1> HIDE DEF t
<1>5. WarningTail(t) <=>
        \/ BodyAt(i, e)
        \/ \E n \in 1 .. e - i :
             lines[i + n] = "note" /\ BodyAt(i, i + n - 1) /\ BodyAt(i + n, e)
  BY <1>2, <1>3, <1>4 DEF WarningTail
<1>6. ASSUME NEW n \in 1 .. e - i,
             lines[i + n] = "note" /\ BodyAt(i, i + n - 1) /\ BodyAt(i + n, e)
      PROVE  WarningAt(i, e)
  <2>1. i + n \in i + 1 .. e
    OBVIOUS
  <2> QED
    BY <1>6, <2>1 DEF WarningAt
<1>7. ASSUME NEW m \in i + 1 .. e, lines[m] = "note" /\ BodyAt(i, m - 1) /\ BodyAt(m, e)
      PROVE  \E n \in 1 .. e - i :
               lines[i + n] = "note" /\ BodyAt(i, i + n - 1) /\ BodyAt(i + n, e)
  <2>1. m - i \in 1 .. e - i /\ i + (m - i) = m /\ i + (m - i) - 1 = m - 1
    OBVIOUS
  <2>2. PICK n \in 1 .. e - i : i + n = m /\ i + n - 1 = m - 1
    BY <2>1
  <2>3. lines[i + n] = "note" /\ BodyAt(i, i + n - 1) /\ BodyAt(i + n, e)
    BY <1>7, <2>2
  <2> QED
    BY <2>3
<1>8. WarningTail(t) <=> WarningAt(i, e)
  BY <1>5, <1>6, <1>7 DEF WarningAt
<1> QED
  BY <1>8 DEF t

LEMMA DecisionBySlice ==
  ASSUME ScannerInv, NEW i \in Nat, NEW e \in Nat, i <= e, e <= Len(lines)
  PROVE  DecisionTail(SubSeq(lines, i + 1, e)) <=> DecisionAt(i, e)
<1> DEFINE t == SubSeq(lines, i + 1, e)
<1>1. lines \in Seq(LineKinds) /\ Len(lines) \in Nat
  BY IndexType DEF ScannerInv, ScannerTypeOK
<1>2. Len(t) = e - i /\ \A n \in 1 .. e - i : t[n] = lines[i + n]
  BY <1>1, SliceLines
<1> HIDE DEF t
<1>3. ASSUME NEW n \in 2 .. e - i, t[n] = "false",
             \A j \in 1 .. n - 1 : t[j] \in Indented, \A j \in n + 1 .. e - i : t[j] \in Blank
      PROVE  DecisionAt(i, e)
  <2>1. \A j \in i + 1 .. e : j - i \in 1 .. e - i /\ lines[j] = t[j - i]
    BY <1>2
  <2>2. i + n \in i + 2 .. e /\ i + n \in i + 1 .. e /\ (i + n) - i = n
    OBVIOUS
  <2>3. \A j \in i + 1 .. (i + n) - 1 : j - i \in 1 .. n - 1 /\ j \in i + 1 .. e
    OBVIOUS
  <2>4. \A j \in (i + n) + 1 .. e : j - i \in n + 1 .. e - i /\ j \in i + 1 .. e
    OBVIOUS
  <2>5. lines[i + n] = "false" /\ AllIn(Indented, i + 1, (i + n) - 1)
    BY <1>3, <2>1, <2>2, <2>3 DEF AllIn
  <2>6. AllIn(Blank, (i + n) + 1, e)
    BY <1>3, <2>1, <2>4 DEF AllIn
  <2> QED
    BY <2>2, <2>5, <2>6 DEF DecisionAt
<1>4. ASSUME NEW m \in i + 2 .. e, lines[m] = "false",
             AllIn(Indented, i + 1, m - 1), AllIn(Blank, m + 1, e)
      PROVE  DecisionTail(t)
  <2>1. m - i \in 2 .. e - i /\ m - i \in 1 .. e - i /\ i + (m - i) = m
    OBVIOUS
  <2>2. \A j \in 1 .. (m - i) - 1 : i + j \in i + 1 .. m - 1 /\ j \in 1 .. e - i
    OBVIOUS
  <2>3. \A j \in (m - i) + 1 .. e - i : i + j \in m + 1 .. e /\ j \in 1 .. e - i
    OBVIOUS
  <2>4. t[m - i] = "false" /\ \A j \in 1 .. (m - i) - 1 : t[j] \in Indented
    BY <1>2, <1>4, <2>1, <2>2 DEF AllIn
  <2>5. \A j \in (m - i) + 1 .. e - i : t[j] \in Blank
    BY <1>2, <1>4, <2>3 DEF AllIn
  <2> QED
    BY <1>2, <2>1, <2>4, <2>5 DEF DecisionTail
<1>5. DecisionTail(t) <=> DecisionAt(i, e)
  BY <1>2, <1>3, <1>4 DEF DecisionTail, DecisionAt
<1> QED
  BY <1>5 DEF t

(* Every line that starts a block has an end.                              *)
LEMMA BlockEnds ==
  ASSUME ScannerInv, NEW i \in DOMAIN lines
  PROVE  \E e \in DOMAIN lines : Extent(i, e)
<1> DEFINE Ends == {k \in i + 1 .. Len(lines) + 1 : k = Len(lines) + 1 \/ StartLine(k)}
<1>1. Len(lines) \in Nat /\ DOMAIN lines = 1 .. Len(lines)
  BY IndexType
<1>2. Ends \in SUBSET Nat /\ Len(lines) + 1 \in Ends
  BY <1>1
<1>3. PICK k \in Ends : \A j \in Ends : k <= j
  BY <1>2, LeastNatural
<1>4. k - 1 \in DOMAIN lines /\ k - 1 \in i .. Len(lines)
  BY <1>1, <1>3
<1>5. k - 1 = Len(lines) \/ StartLine((k - 1) + 1)
  BY <1>1, <1>3
<1>6. ASSUME NEW j \in i + 1 .. k - 1 PROVE ~StartLine(j)
  <2>1. j \notin Ends /\ j \in i + 1 .. Len(lines) + 1
    BY <1>1, <1>3
  <2> QED
    BY <2>1
<1> QED
  BY <1>4, <1>5, <1>6 DEF Extent

LEMMA GrammarByPlaces == ASSUME ScannerInv PROVE IsRefutation(lines) <=> Grammatical
<1> DEFINE Starts == {i \in 1 .. Len(lines) : lines[i] \in {"warning", "header"}}
           Ends(i, e) == /\ e + 1 \in Starts \cup {Len(lines) + 1}
                         /\ \A j \in i + 1 .. e : j \notin Starts
           EndOf(i) == CHOOSE e \in i .. Len(lines) : Ends(i, e)
           After(i) == SubSeq(lines, i + 1, EndOf(i))
<1>1. Len(lines) \in Nat /\ DOMAIN lines = 1 .. Len(lines)
  BY IndexType
<1>2. \A i \in DOMAIN lines : i \in Starts <=> StartLine(i)
  BY <1>1 DEF StartLine
<1>3. ASSUME NEW i \in DOMAIN lines, NEW e \in i .. Len(lines)
      PROVE  Ends(i, e) <=> Extent(i, e)
  <2>1. e \in Nat /\ e <= Len(lines) /\ i \in Nat /\ 1 <= i /\ i <= e
    BY <1>1
  <2>2. e + 1 \in Starts \cup {Len(lines) + 1} <=> e = Len(lines) \/ StartLine(e + 1)
    <3>1. CASE e = Len(lines)
      BY <3>1
    <3>2. CASE e # Len(lines)
      <4>1. PICK l \in Nat : l = Len(lines)
        BY <1>1
      <4>2. e + 1 \in 1 .. l /\ e + 1 # l + 1
        BY <2>1, <3>2, <4>1
      <4> QED
        BY <1>1, <1>2, <3>2, <4>1, <4>2
    <3> QED
      BY <3>1, <3>2
  <2>3. \A j \in i + 1 .. e : j \in DOMAIN lines
    BY <1>1, <2>1
  <2>4. (\A j \in i + 1 .. e : j \notin Starts) <=> \A j \in i + 1 .. e : ~StartLine(j)
    BY <1>2, <2>3
  <2> QED
    BY <2>2, <2>4 DEF Extent
<1> HIDE DEF Starts, Ends
<1>4. ASSUME NEW i \in DOMAIN lines PROVE EndOf(i) \in i .. Len(lines) /\ Extent(i, EndOf(i))
  <2>1. PICK e \in DOMAIN lines : Extent(i, e)
    BY BlockEnds
  <2>2. e \in i .. Len(lines) /\ Ends(i, e)
    BY <1>3, <2>1 DEF Extent
  <2>3. EndOf(i) \in i .. Len(lines) /\ Ends(i, EndOf(i))
    BY <2>2
  <2> QED
    BY <1>3, <2>3
<1> HIDE DEF EndOf
<1>5. ASSUME NEW i \in DOMAIN lines
      PROVE  (IF lines[i] = "header" THEN DecisionTail(After(i)) ELSE WarningTail(After(i)))
               <=> GoodAt(i, EndOf(i))
  <2>1. EndOf(i) \in Nat /\ i \in Nat /\ i <= EndOf(i) /\ EndOf(i) <= Len(lines)
    BY <1>1, <1>4
  <2> QED
    BY <2>1, WarningBySlice, DecisionBySlice DEF GoodAt
<1>6. ASSUME NEW i \in DOMAIN lines
      PROVE  (\A e \in DOMAIN lines : Extent(i, e) => GoodAt(i, e)) <=> GoodAt(i, EndOf(i))
  <2>1. EndOf(i) \in DOMAIN lines /\ Extent(i, EndOf(i)) /\ i \in Nat
    BY <1>1, <1>4
  <2>2. \A e \in DOMAIN lines : Extent(i, e) => e = EndOf(i)
    BY <2>1, ExtentUnique
  <2> QED
    BY <2>1, <2>2
<1>7. IsRefutation(lines) <=>
        /\ 1 \in Starts
        /\ \E i \in Starts : lines[i] = "header"
        /\ \A i \in Starts : IF lines[i] = "header" THEN DecisionTail(After(i))
                                                    ELSE WarningTail(After(i))
  BY DEF IsRefutation, Starts, EndOf, Ends
<1>8. \A i : i \in Starts => i \in DOMAIN lines
  BY <1>1 DEF Starts
<1>9. \A i \in DOMAIN lines : lines[i] = "header" => StartLine(i)
  BY DEF StartLine
<1> HIDE DEF After
<1> QED
  BY <1>2, <1>5, <1>6, <1>7, <1>8, <1>9 DEF Grammatical

LEMMA GrammarInvariance == ScannerSpec => [](ScannerInv /\ GrammarInv)
<1>1. ScannerInit => GrammarInv
  BY DEF ScannerInit, ScanFromTop, GrammarInv, HeaderRead, Done
<1> QED
  BY <1>1, ScannerInvariance, GrammarStepInv, PTL DEF ScannerSpec

(* For output of any length: the loops of _native_false_diagnostics accept *)
(* exactly the outputs of the grammar that is stated without an order of   *)
(* reading, so none of them eats a line that belongs to another.           *)
THEOREM ScannerAcceptsTheGrammar == ScannerSpec => []AcceptsTheGrammar
<1>1. ScannerInv /\ GrammarInv => AcceptsTheGrammar
  BY GrammarByPlaces DEF GrammarInv, AcceptsTheGrammar
<1> QED
  BY <1>1, GrammarInvariance, PTL

-----------------------------------------------------------------------------
(* Reports as text.                                                        *)

\* What holds at 0 and goes on from each number holds of all.
LEMMA Inductive ==
  ASSUME NEW S, 0 \in S, \A k \in Nat : k \in S => k + 1 \in S
  PROVE  Nat \subseteq S
<1> SUFFICES ASSUME NEW x \in Nat \ S PROVE FALSE
  OBVIOUS
<1>1. PICK m \in Nat \ S : \A k \in Nat \ S : m <= k
  BY LeastNatural
<1>2. m # 0 /\ m - 1 \in Nat
  BY <1>1
<1>3. m - 1 \in S
  BY <1>1, <1>2
<1> QED
  BY <1>1, <1>2, <1>3

IsFlat(g, seqs) ==
  g = [i \in 1 .. Len(seqs) |-> IF i = 1 THEN seqs[i] ELSE g[i - 1] \o seqs[i]]

\* The concatenation of any number of sequences exists.
LEMMA FlatExists ==
  ASSUME NEW seqs, Len(seqs) \in Nat
  PROVE  \E g : IsFlat(g, seqs)
<1> DEFINE n == Len(seqs)
           Step(g, i) == IF i = 1 THEN seqs[i] ELSE g[i - 1] \o seqs[i]
           E(k) == \E g : g = [i \in 1 .. k |-> Step(g, i)]
           S == {k \in Nat : E(k)}
<1>1. 0 \in S
  <2> DEFINE g == [i \in 1 .. 0 |-> seqs[i]]
  <2>1. g = [i \in 1 .. 0 |-> Step(g, i)]
    OBVIOUS
  <2> HIDE DEF g
  <2> QED
    BY <2>1
<1>2. ASSUME NEW k \in Nat, k \in S PROVE k + 1 \in S
  <2>1. PICK f : f = [i \in 1 .. k |-> Step(f, i)]
    BY <1>2
  <2> DEFINE g == [i \in 1 .. k + 1 |-> IF i = k + 1 THEN Step(f, k + 1) ELSE f[i]]
  <2>2. ASSUME NEW i \in 1 .. k + 1 PROVE g[i] = Step(g, i)
    <3>1. i # 1 => g[i - 1] = f[i - 1]
      OBVIOUS
    <3>2. Step(g, i) = Step(f, i)
      BY <3>1
    <3>3. i # k + 1 => f[i] = Step(f, i)
      <4> HIDE DEF Step
      <4> QED
        BY <2>1
    <3> HIDE DEF Step
    <3> QED
      BY <3>2, <3>3
  <2>3. g = [i \in 1 .. k + 1 |-> Step(g, i)]
    BY <2>2
  <2> HIDE DEF g, Step
  <2>4. E(k + 1)
    BY <2>3
  <2> HIDE DEF E
  <2> QED
    BY <2>4
<1>3. Nat \subseteq S
  <2> HIDE DEF S
  <2> QED
    BY <1>1, <1>2, Inductive
<1>4. E(n)
  BY <1>3
<1> QED
  BY <1>4 DEF IsFlat

\* A concatenation goes on one sequence at a time: what holds of the empty
\* one, and of one part more, holds of the whole.
LEMMA FlattenInduction ==
  ASSUME NEW seqs, Len(seqs) \in Nat, NEW F, Len(seqs) = 0 => seqs = <<>>,
         NEW n, n = Len(seqs), <<>> \in F[0],
         \A i \in 1 .. n : seqs[i] \in Seq(LineKinds),
         \A i \in 1 .. n : \A s \in Seq(LineKinds) : s \in F[i - 1] => s \o seqs[i] \in F[i]
  PROVE  FlattenSeq(seqs) \in Seq(LineKinds) /\ FlattenSeq(seqs) \in F[n]
<1> DEFINE g == CHOOSE h : IsFlat(h, seqs)
<1>1. IsFlat(g, seqs)
  BY FlatExists
<1>2. n # 0 => FlattenSeq(seqs) = g[n]
  BY DEF FlattenSeq, IsFlat
<1>3. n = 0 => FlattenSeq(seqs) = <<>>
  BY DEF FlattenSeq
<1> HIDE DEF g
<1> DEFINE S == {k \in Nat : 1 <= k /\ k <= n => g[k] \in Seq(LineKinds) /\ g[k] \in F[k]}
<1>4. 0 \in S
  OBVIOUS
<1>5. ASSUME NEW k \in Nat, k \in S PROVE k + 1 \in S
  <2> SUFFICES ASSUME k + 1 <= n PROVE g[k + 1] \in Seq(LineKinds) /\ g[k + 1] \in F[k + 1]
    OBVIOUS
  <2> DEFINE s == IF k = 0 THEN <<>> ELSE g[k]
  <2>1. k + 1 \in 1 .. n /\ (k + 1) - 1 = k
    OBVIOUS
  <2>2. s \in Seq(LineKinds) /\ s \in F[k]
    BY <1>5, <2>1
  <2>3. seqs[k + 1] \in Seq(LineKinds)
    BY <2>1
  <2>4. g[k + 1] = IF k + 1 = 1 THEN seqs[k + 1] ELSE g[k] \o seqs[k + 1]
    BY <1>1, <2>1 DEF IsFlat
  <2>5. g[k + 1] = s \o seqs[k + 1]
    <3>1. CASE k = 0
      <4>1. s = <<>> /\ g[k + 1] = seqs[k + 1]
        BY <2>4, <3>1
      <4>2. \A t \in Seq(LineKinds) : <<>> \o t = t
        OBVIOUS
      <4> HIDE DEF s
      <4> QED
        BY <2>3, <4>1, <4>2
    <3>2. CASE k # 0
      <4>1. s = g[k] /\ k + 1 # 1
        BY <3>2
      <4> HIDE DEF s
      <4> QED
        BY <2>4, <4>1
    <3> QED
      BY <3>1, <3>2
  <2> HIDE DEF s
  <2> QED
    BY <2>1, <2>2, <2>3, <2>5
<1>6. Nat \subseteq S
  <2> HIDE DEF S
  <2> QED
    BY <1>4, <1>5, Inductive
<1>7. n \in S /\ n \in Nat
  BY <1>6
<1>8. CASE n = 0
  <2>1. <<>> \in Seq(LineKinds)
    OBVIOUS
  <2> QED
    BY <1>3, <1>8, <2>1
<1>9. CASE n # 0
  <2>1. 1 <= n /\ n <= n
    BY <1>7, <1>9
  <2>2. g[n] \in Seq(LineKinds) /\ g[n] \in F[n]
    BY <1>7, <2>1
  <2> QED
    BY <1>2, <1>9, <2>2
<1> QED
  BY <1>8, <1>9

Occurs(v, s) == \E p \in DOMAIN s : s[p] = v

\* Two sequences in a row hold the elements of both.
LEMMA ConcatElements ==
  ASSUME NEW s \in Seq(LineKinds), NEW t \in Seq(LineKinds)
  PROVE  s \o t \in Seq(LineKinds) /\ \A v : Occurs(v, s \o t) <=> Occurs(v, s) \/ Occurs(v, t)
<1>1. /\ Len(s) \in Nat /\ Len(t) \in Nat
      /\ DOMAIN s = 1 .. Len(s) /\ DOMAIN t = 1 .. Len(t)
      /\ DOMAIN (s \o t) = 1 .. Len(s) + Len(t)
      /\ \A p \in 1 .. Len(s) : (s \o t)[p] = s[p]
      /\ \A p \in 1 .. Len(t) : (s \o t)[Len(s) + p] = t[p]
  OBVIOUS
<1>2. ASSUME NEW v, Occurs(v, s \o t) PROVE Occurs(v, s) \/ Occurs(v, t)
  <2>1. PICK p \in 1 .. Len(s) + Len(t) : (s \o t)[p] = v
    BY <1>1, <1>2 DEF Occurs
  <2>2. p \in 1 .. Len(s) \/ (p - Len(s) \in 1 .. Len(t) /\ Len(s) + (p - Len(s)) = p)
    BY <1>1
  <2> QED
    BY <1>1, <2>1, <2>2 DEF Occurs
<1>3. ASSUME NEW v, Occurs(v, s) PROVE Occurs(v, s \o t)
  BY <1>1, <1>3 DEF Occurs
<1>4. ASSUME NEW v, Occurs(v, t) PROVE Occurs(v, s \o t)
  <2>1. PICK p \in 1 .. Len(t) : t[p] = v
    BY <1>1, <1>4 DEF Occurs
  <2>2. Len(s) + p \in 1 .. Len(s) + Len(t)
    BY <1>1
  <2> QED
    BY <1>1, <2>1, <2>2 DEF Occurs
<1> QED
  BY <1>2, <1>3, <1>4

\* A concatenation holds the elements of its parts.
LEMMA FlattenElements ==
  ASSUME NEW seqs, Len(seqs) \in Nat, Len(seqs) = 0 => seqs = <<>>,
         \A i \in 1 .. Len(seqs) : seqs[i] \in Seq(LineKinds)
  PROVE  /\ FlattenSeq(seqs) \in Seq(LineKinds)
         /\ \A v : Occurs(v, FlattenSeq(seqs)) <=> \E i \in 1 .. Len(seqs) : Occurs(v, seqs[i])
<1> DEFINE n == Len(seqs)
           Right(s, k) == \A v : Occurs(v, s) <=> \E i \in 1 .. k : Occurs(v, seqs[i])
           F == [k \in Nat |-> {s \in Seq(LineKinds) : Right(s, k)}]
<1>1. <<>> \in F[0]
  BY DEF Occurs
<1>2. ASSUME NEW i \in 1 .. n, NEW s \in Seq(LineKinds), s \in F[i - 1]
      PROVE  s \o seqs[i] \in F[i]
  <2>1. i - 1 \in Nat /\ i \in Nat /\ seqs[i] \in Seq(LineKinds) /\ s \o seqs[i] \in Seq(LineKinds)
    OBVIOUS
  <2>2. \A v : Occurs(v, s \o seqs[i]) <=> Occurs(v, s) \/ Occurs(v, seqs[i])
    BY <2>1, ConcatElements
  <2>3. Right(s, i - 1)
    BY <1>2, <2>1
  <2>4. \A v : (\E j \in 1 .. i : Occurs(v, seqs[j]))
                  <=> (\E j \in 1 .. i - 1 : Occurs(v, seqs[j])) \/ Occurs(v, seqs[i])
    <3>1. \A j : j \in 1 .. i <=> j \in 1 .. i - 1 \/ j = i
      OBVIOUS
    <3> QED
      BY <3>1
  <2>5. Right(s \o seqs[i], i)
    BY <2>2, <2>3, <2>4
  <2> HIDE DEF Right
  <2> QED
    BY <2>1, <2>5
<1> HIDE DEF F
<1>3. FlattenSeq(seqs) \in Seq(LineKinds) /\ FlattenSeq(seqs) \in F[n]
  BY <1>1, <1>2, FlattenInduction
<1>4. Right(FlattenSeq(seqs), n)
  BY <1>3 DEF F
<1> QED
  BY <1>3, <1>4

\* Where the first and the last line with text are.
Framed(s, a, b) ==
  /\ a \in DOMAIN s /\ b \in DOMAIN s /\ a <= b
  /\ s[a] \notin Blank /\ s[b] \notin Blank
  /\ \A j \in 1 .. a - 1 : s[j] \in Blank
  /\ \A j \in b + 1 .. Len(s) : s[j] \in Blank

\* Stripping cuts there.
LEMMA StripIs ==
  ASSUME NEW s \in Seq(LineKinds), NEW a, NEW b, Framed(s, a, b)
  PROVE  Strip(s) = SubSeq(s, a, b)
<1> DEFINE Text == {i \in DOMAIN s : s[i] \notin Blank}
<1>1. Len(s) \in Nat /\ DOMAIN s = 1 .. Len(s)
  OBVIOUS
<1>2. a \in Text /\ b \in Text /\ \A j \in Text : a <= j /\ b >= j
  BY <1>1 DEF Framed
<1>3. \A i, j \in Text : i \in Nat /\ j \in Nat
  BY <1>1
<1> HIDE DEF Text
<1>4. (CHOOSE i \in Text : \A j \in Text : i <= j) = a
  BY <1>2, <1>3
<1>5. (CHOOSE i \in Text : \A j \in Text : i >= j) = b
  BY <1>2, <1>3
<1>6. Text # {}
  BY <1>2
<1> QED
  BY <1>4, <1>5, <1>6 DEF Strip, Text

\* A text that is not blank has such lines.
LEMMA FrameExists ==
  ASSUME NEW s \in Seq(LineKinds), NEW k \in DOMAIN s, s[k] \notin Blank
  PROVE  \E a, b : Framed(s, a, b)
<1> DEFINE Text == {i \in DOMAIN s : s[i] \notin Blank}
           Mirror == {Len(s) - i : i \in Text}
<1>1. Len(s) \in Nat /\ DOMAIN s = 1 .. Len(s)
  OBVIOUS
<1>2. k \in Text /\ Text \in SUBSET Nat
  BY <1>1
<1>3. PICK a \in Text : \A j \in Text : a <= j
  BY <1>2, LeastNatural
<1>4. Mirror \in SUBSET Nat /\ Len(s) - k \in Mirror
  BY <1>1, <1>2
<1>5. PICK m \in Mirror : \A j \in Mirror : m <= j
  BY <1>4, LeastNatural
<1>6. PICK b \in Text : m = Len(s) - b
  BY <1>5
<1>7. \A j \in Text : j <= b
  <2> SUFFICES ASSUME NEW j \in Text PROVE j <= b
    OBVIOUS
  <2>1. Len(s) - j \in Mirror
    OBVIOUS
  <2>2. Len(s) - b <= Len(s) - j
    BY <1>5, <1>6, <2>1
  <2> QED
    BY <1>1, <2>2
<1>8. Framed(s, a, b)
  BY <1>1, <1>3, <1>7 DEF Framed
<1> QED
  BY <1>8

\* Stripping takes no line with text away, and adds none.
LEMMA StripElements ==
  ASSUME NEW s \in Seq(LineKinds)
  PROVE  /\ Strip(s) \in Seq(LineKinds)
         /\ \A v : v \notin Blank => (Occurs(v, Strip(s)) <=> Occurs(v, s))
<1>1. Len(s) \in Nat /\ DOMAIN s = 1 .. Len(s)
  OBVIOUS
<1>2. CASE \E k \in DOMAIN s : s[k] \notin Blank
  <2>1. PICK a, b : Framed(s, a, b)
    BY <1>2, FrameExists
  <2> DEFINE t == SubSeq(s, a, b)
  <2>2. Strip(s) = t
    BY <2>1, StripIs
  <2>3. a \in 1 .. Len(s) /\ b \in 1 .. Len(s) /\ a <= b
    BY <1>1, <2>1 DEF Framed
  <2>4. /\ t \in Seq(LineKinds) /\ DOMAIN t = 1 .. b - a + 1
        /\ \A p \in 1 .. b - a + 1 : t[p] = s[a + p - 1]
    BY <1>1, <2>3
  <2> HIDE DEF t
  <2>5. ASSUME NEW v, Occurs(v, t) PROVE Occurs(v, s)
    <3>1. PICK p \in 1 .. b - a + 1 : t[p] = v
      BY <2>4, <2>5 DEF Occurs
    <3>2. a + p - 1 \in DOMAIN s
      BY <1>1, <2>3
    <3> QED
      BY <2>4, <3>1, <3>2 DEF Occurs
  <2>6. ASSUME NEW v, v \notin Blank, Occurs(v, s) PROVE Occurs(v, t)
    <3>1. PICK p \in 1 .. Len(s) : s[p] = v
      BY <1>1, <2>6 DEF Occurs
    <3>2. a <= p /\ p <= b
      BY <1>1, <2>1, <2>3, <2>6, <3>1 DEF Framed
    <3>3. p - a + 1 \in 1 .. b - a + 1 /\ a + (p - a + 1) - 1 = p
      BY <2>3, <3>2
    <3> QED
      BY <2>4, <3>1, <3>3 DEF Occurs
  <2> QED
    BY <2>2, <2>4, <2>5, <2>6
<1>3. CASE \A k \in DOMAIN s : s[k] \in Blank
  <2>1. Strip(s) = <<>>
    BY <1>3 DEF Strip
  <2>2. <<>> \in Seq(LineKinds) /\ \A v : ~ Occurs(v, <<>>)
    BY DEF Occurs
  <2>3. \A v : v \notin Blank => ~ Occurs(v, s)
    BY <1>3 DEF Occurs
  <2> QED
    BY <2>1, <2>2, <2>3
<1> QED
  BY <1>2, <1>3

-----------------------------------------------------------------------------
(* What the text of a report holds.                                        *)
AnyText(t, d) == IF t = "cli" THEN CliText(d) ELSE LspText(d)

\* The lines of a diagnostic.
LEMMA TextElements ==
  ASSUME NEW t, NEW d \in DiagnosticKinds
  PROVE  /\ AnyText(t, d) \in Seq(LineKinds)
         /\ Occurs("header", AnyText(t, d)) <=> d = "decision"
         /\ d \in Undecided => Occurs("other", AnyText(t, d))
<1> USE DEF Undecided
<1> DEFINE e == AnyText(t, d)
<1>1. CASE d = "decision"
  <2>1. e = <<"header", "indent", "false">>
    BY <1>1 DEF AnyText, CliText, LspText
  <2>2. e \in Seq(LineKinds) /\ 1 \in DOMAIN e /\ e[1] = "header"
    BY <2>1 DEF LineKinds
  <2> HIDE DEF e
  <2>3. d \notin Undecided /\ Occurs("header", e)
    BY <1>1, <2>2 DEF Occurs
  <2> QED
    BY <1>1, <2>2, <2>3 DEF e
<1>2. CASE d \in Undecided
  <2>1. e = <<"other">>
    BY <1>2 DEF AnyText, CliText, LspText
  <2>2. e \in Seq(LineKinds) /\ DOMAIN e = {1} /\ e[1] = "other"
    BY <2>1 DEF LineKinds
  <2> HIDE DEF e
  <2>3. Occurs("other", e) /\ ~ Occurs("header", e)
    BY <2>2 DEF Occurs
  <2> QED
    BY <1>2, <2>2, <2>3 DEF e
<1>3. CASE d = "linter"
  <2>1. e = <<"warning", "blank", "note", "blank">> \/ e = <<"other", "blank", "note">>
    BY <1>3 DEF AnyText, CliText, LspText
  <2>2. e \in Seq(LineKinds) /\ \A p \in DOMAIN e : e[p] # "header"
    <3>1. CASE e = <<"warning", "blank", "note", "blank">>
      BY <3>1 DEF LineKinds
    <3>2. CASE e = <<"other", "blank", "note">>
      BY <3>2 DEF LineKinds
    <3> HIDE DEF e
    <3> QED
      BY <2>1, <3>1, <3>2
  <2> HIDE DEF e
  <2>3. ~ Occurs("header", e)
    BY <2>2 DEF Occurs
  <2> QED
    BY <1>3, <2>2, <2>3 DEF e
<1>4. CASE d = "hint"
  <2>1. e = <<"warning", "indent">> \/ e = <<"other", "indent">>
    BY <1>4 DEF AnyText, CliText, LspText
  <2>2. e \in Seq(LineKinds) /\ \A p \in DOMAIN e : e[p] # "header"
    <3>1. CASE e = <<"warning", "indent">>
      BY <3>1 DEF LineKinds
    <3>2. CASE e = <<"other", "indent">>
      BY <3>2 DEF LineKinds
    <3> HIDE DEF e
    <3> QED
      BY <2>1, <3>1, <3>2
  <2> HIDE DEF e
  <2>3. ~ Occurs("header", e)
    BY <2>2 DEF Occurs
  <2> QED
    BY <1>4, <2>2, <2>3 DEF e
<1> QED
  BY <1>1, <1>2, <1>3, <1>4 DEF DiagnosticKinds

\* The text of the diagnostics of some kinds, one after the other.
OnlyText(t, rep, kinds) ==
  [i \in DOMAIN rep |-> IF rep[i] \in kinds THEN AnyText(t, rep[i]) ELSE <<>>]

\* The lines of several.
LEMMA PartsElements ==
  ASSUME NEW t, NEW rep \in Seq(DiagnosticKinds), NEW kinds
  PROVE  /\ FlattenSeq(OnlyText(t, rep, kinds)) \in Seq(LineKinds)
         /\ Occurs("header", FlattenSeq(OnlyText(t, rep, kinds))) =>
              \E i \in DOMAIN rep : rep[i] = "decision"
         /\ \A i \in DOMAIN rep : rep[i] \in Undecided \cap kinds =>
              Occurs("other", FlattenSeq(OnlyText(t, rep, kinds)))
         /\ \A i \in DOMAIN rep : rep[i] = "decision" /\ "decision" \in kinds =>
              Occurs("header", FlattenSeq(OnlyText(t, rep, kinds)))
<1> DEFINE parts == OnlyText(t, rep, kinds)
           n == Len(rep)
<1>1. n \in Nat /\ DOMAIN rep = 1 .. n /\ \A i \in 1 .. n : rep[i] \in DiagnosticKinds
  OBVIOUS
<1>2. /\ DOMAIN parts = 1 .. n
      /\ \A i \in 1 .. n : parts[i] = IF rep[i] \in kinds THEN AnyText(t, rep[i]) ELSE <<>>
  BY <1>1 DEF OnlyText
<1>3. parts = [i \in 1 .. n |-> parts[i]]
  BY <1>1 DEF OnlyText
<1> HIDE DEF parts
<1>4. ASSUME NEW i \in 1 .. n
      PROVE  /\ parts[i] \in Seq(LineKinds)
             /\ Occurs("header", parts[i]) => rep[i] = "decision"
             /\ rep[i] \in Undecided \cap kinds => Occurs("other", parts[i])
             /\ rep[i] = "decision" /\ "decision" \in kinds => Occurs("header", parts[i])
  <2>1. CASE rep[i] \in kinds
    <3>1. parts[i] = AnyText(t, rep[i])
      BY <1>2, <2>1
    <3> QED
      BY <1>1, <2>1, <3>1, TextElements
  <2>2. CASE rep[i] \notin kinds
    <3>1. parts[i] = <<>>
      BY <1>2, <2>2
    <3>2. <<>> \in Seq(LineKinds) /\ ~ Occurs("header", <<>>)
      BY DEF Occurs
    <3> QED
      BY <2>2, <3>1, <3>2
  <2> QED
    BY <2>1, <2>2
<1>5. Len(parts) = n /\ (n = 0 => parts = <<>>)
  BY <1>1, <1>3
<1>6. /\ FlattenSeq(parts) \in Seq(LineKinds)
      /\ \A v : Occurs(v, FlattenSeq(parts)) <=> \E i \in 1 .. n : Occurs(v, parts[i])
  <2>1. \A i \in 1 .. Len(parts) : parts[i] \in Seq(LineKinds)
    BY <1>4, <1>5
  <2> QED
    BY <1>1, <1>5, <2>1, FlattenElements
<1>7. FlattenSeq(parts) \in Seq(LineKinds)
  BY <1>6
<1>8. Occurs("header", FlattenSeq(parts)) => \E i \in DOMAIN rep : rep[i] = "decision"
  BY <1>1, <1>4, <1>6
<1>9. \A i \in DOMAIN rep : rep[i] \in Undecided \cap kinds => Occurs("other", FlattenSeq(parts))
  BY <1>1, <1>4, <1>6
<1>10. \A i \in DOMAIN rep :
          rep[i] = "decision" /\ "decision" \in kinds => Occurs("header", FlattenSeq(parts))
  BY <1>1, <1>4, <1>6
<1> QED
  BY <1>7, <1>8, <1>9, <1>10 DEF parts

\* An output has a header if and only if it is about a decision, and one
\* without unrecognised lines is about no error.
LEMMA OutputElements ==
  ASSUME NEW t, NEW rep \in Seq(DiagnosticKinds)
  PROVE  /\ Output(t, rep) \in Seq(LineKinds)
         /\ Occurs("header", Output(t, rep)) <=> \E i \in DOMAIN rep : rep[i] = "decision"
         /\ ~ Occurs("other", Output(t, rep)) => \A i \in DOMAIN rep : rep[i] \notin Undecided
<1> DEFINE s == Lines(t, rep)
           G(r) == Occurs("header", r) => \E i \in DOMAIN rep : rep[i] = "decision"
           K(r) == (\E i \in DOMAIN rep : rep[i] = "decision") => Occurs("header", r)
           H(r) == (\E i \in DOMAIN rep : rep[i] \in Undecided) => Occurs("other", r)
<1>1. s \in Seq(LineKinds) /\ G(s) /\ H(s) /\ K(s)
  <2>1. CASE t = "cli"
    <3> DEFINE parts == OnlyText(t, rep, DiagnosticKinds)
    <3>1. parts = [i \in DOMAIN rep |-> CliText(rep[i])]
      <4>1. \A i \in DOMAIN rep : rep[i] \in DiagnosticKinds
        OBVIOUS
      <4> QED
        BY <2>1, <4>1 DEF OnlyText, AnyText
    <3>2. s = FlattenSeq(parts)
      BY <2>1, <3>1, Zenon DEF Lines
    <3>3. Undecided \subseteq DiagnosticKinds /\ "decision" \in DiagnosticKinds
      BY DEF DiagnosticKinds, Undecided
    <3> HIDE DEF s
    <3> QED
      BY <3>2, <3>3, PartsElements
  <2>2. CASE t # "cli"
    <3> DEFINE a == FlattenSeq(OnlyText(t, rep, Warnings))
               b == FlattenSeq(OnlyText(t, rep, Errors))
    <3>1. \A kinds : OnlyText(t, rep, kinds) = [i \in DOMAIN rep |-> IF rep[i] \in kinds THEN LspText(rep[i]) ELSE <<>>]
      BY <2>2 DEF OnlyText, AnyText
    <3>2. s = a \o b
      BY <2>2, <3>1, Zenon DEF Lines
    <3>3. Undecided \subseteq Errors /\ "decision" \in Errors
      BY DEF Errors, Undecided
    <3>4. a \in Seq(LineKinds) /\ G(a) /\ b \in Seq(LineKinds) /\ G(b) /\ H(b) /\ K(b)
      BY <3>3, PartsElements
    <3> HIDE DEF s, a, b
    <3>5. s \in Seq(LineKinds) /\ \A v : Occurs(v, s) <=> Occurs(v, a) \/ Occurs(v, b)
      BY <3>2, <3>4, ConcatElements
    <3> QED
      BY <3>4, <3>5
  <2> QED
    BY <2>1, <2>2
<1>2. "header" \notin Blank /\ "other" \notin Blank
  BY DEF Blank
<1> HIDE DEF s
<1>3. Output(t, rep) = Strip(s)
  BY DEF Output, s
<1>4. /\ Strip(s) \in Seq(LineKinds)
      /\ Occurs("header", Strip(s)) <=> Occurs("header", s)
      /\ Occurs("other", Strip(s)) <=> Occurs("other", s)
  BY <1>1, <1>2, StripElements
<1> QED
  BY <1>1, <1>3, <1>4

-----------------------------------------------------------------------------
(* What the CLI prints of decisions and warnings is grammatical.           *)
BlockStart == {"warning", "header"}

EndsBlock(s, j) == j = Len(s) \/ s[j + 1] \in BlockStart

DecisionForm(s, i) ==
  i + 2 <= Len(s) /\ s[i + 1] = "indent" /\ s[i + 2] = "false" /\ EndsBlock(s, i + 2)
HintForm(s, i) == i + 1 <= Len(s) /\ s[i + 1] = "indent" /\ EndsBlock(s, i + 1)
NoteForm(s, i) ==
  /\ i + 2 <= Len(s) /\ s[i + 1] = "blank" /\ s[i + 2] = "note"
  /\ EndsBlock(s, i + 2) \/ (i + 3 <= Len(s) /\ s[i + 3] = "blank" /\ EndsBlock(s, i + 3))

\* Each line that starts a block is followed by what Lean prints after it,
\* and no two lines in a row are blank.
InForm(s, i) ==
  /\ s[i] = "header" => DecisionForm(s, i)
  /\ s[i] = "warning" => HintForm(s, i) \/ NoteForm(s, i)
  /\ s[i] # "spaces"
  /\ s[i] = "blank" => i > 1 /\ s[i - 1] # "blank"
Blocks(s) == /\ Len(s) > 0 => s[1] \in BlockStart
             /\ \A i \in 1 .. Len(s) : InForm(s, i)

\* A block by itself.
LEMMA TextIsBlock ==
  ASSUME NEW d \in DiagnosticKinds, d \notin Undecided
  PROVE  /\ CliText(d) \in Seq(LineKinds) /\ Len(CliText(d)) > 0
         /\ Blocks(CliText(d))
<1> DEFINE e == CliText(d)
<1>1. CASE d = "decision"
  <2>1. e = <<"header", "indent", "false">>
    BY <1>1 DEF CliText
  <2>2. e \in Seq(LineKinds) /\ Len(e) = 3 /\ e[1] = "header" /\ e[2] = "indent" /\ e[3] = "false"
    BY <2>1 DEF LineKinds
  <2> HIDE DEF e
  <2>3. \A i \in 1 .. 3 : i = 1 \/ i = 2 \/ i = 3
    OBVIOUS
  <2>4. Blocks(e)
    BY <2>2, <2>3 DEF Blocks, InForm, BlockStart, DecisionForm, EndsBlock
  <2> QED
    BY <2>2, <2>4 DEF e
<1>2. CASE d = "linter"
  <2>1. e = <<"warning", "blank", "note", "blank">>
    BY <1>2 DEF CliText
  <2>2. /\ e \in Seq(LineKinds) /\ Len(e) = 4
        /\ e[1] = "warning" /\ e[2] = "blank" /\ e[3] = "note" /\ e[4] = "blank"
    BY <2>1 DEF LineKinds
  <2> HIDE DEF e
  <2>3. \A i \in 1 .. 4 : i = 1 \/ i = 2 \/ i = 3 \/ i = 4
    OBVIOUS
  <2>4. Blocks(e)
    BY <2>2, <2>3 DEF Blocks, InForm, BlockStart, NoteForm, EndsBlock
  <2> QED
    BY <2>2, <2>4 DEF e
<1>3. CASE d = "hint"
  <2>1. e = <<"warning", "indent">>
    BY <1>3 DEF CliText
  <2>2. e \in Seq(LineKinds) /\ Len(e) = 2 /\ e[1] = "warning" /\ e[2] = "indent"
    BY <2>1 DEF LineKinds
  <2> HIDE DEF e
  <2>3. \A i \in 1 .. 2 : i = 1 \/ i = 2
    OBVIOUS
  <2>4. Blocks(e)
    BY <2>2, <2>3 DEF Blocks, InForm, BlockStart, HintForm, EndsBlock
  <2> QED
    BY <2>2, <2>4 DEF e
<1> QED
  BY <1>1, <1>2, <1>3 DEF DiagnosticKinds, Undecided

\* Blocks after blocks are blocks.
LEMMA BlocksConcat ==
  ASSUME NEW s \in Seq(LineKinds), NEW t \in Seq(LineKinds), Blocks(s), Blocks(t), Len(t) > 0
  PROVE  s \o t \in Seq(LineKinds) /\ Blocks(s \o t)
<1> DEFINE r == s \o t
<1>0. PICK m \in Nat, n \in Nat : m = Len(s) /\ n = Len(t)
  OBVIOUS
<1>1. /\ r \in Seq(LineKinds) /\ m \in Nat /\ n \in Nat /\ n > 0 /\ Len(r) = m + n
      /\ \A p \in 1 .. m : r[p] = s[p]
      /\ \A p \in 1 .. n : r[m + p] = t[p]
      /\ m = Len(s) /\ n = Len(t)
  BY <1>0
<1> HIDE DEF r
<1>2. r[m + 1] = t[1] /\ t[1] \in BlockStart /\ m + 1 <= m + n
  BY <1>1 DEF Blocks
<1>3. ASSUME NEW j \in 1 .. m, EndsBlock(s, j) PROVE EndsBlock(r, j)
  <2>1. CASE j = m
    BY <1>2, <2>1 DEF EndsBlock
  <2>2. CASE j # m
    <3>1. j + 1 \in 1 .. m
      BY <1>1, <2>2
    <3> QED
      BY <1>1, <1>3, <2>2, <3>1 DEF EndsBlock
  <2> QED
    BY <2>1, <2>2
<1>4. ASSUME NEW j \in 1 .. n, EndsBlock(t, j) PROVE EndsBlock(r, m + j)
  <2>1. CASE j = n
    BY <1>1, <2>1 DEF EndsBlock
  <2>2. CASE j # n
    <3>1. j + 1 \in 1 .. n /\ (m + j) + 1 = m + (j + 1)
      BY <1>1, <2>2
    <3> QED
      BY <1>1, <1>4, <2>2, <3>1 DEF EndsBlock
  <2> QED
    BY <2>1, <2>2
<1>5. ASSUME NEW i \in 1 .. m PROVE InForm(r, i)
  <2>1. InForm(s, i) /\ r[i] = s[i] /\ (i > 1 => r[i - 1] = s[i - 1])
    BY <1>1 DEF Blocks
  <2>2. \A k \in 1 .. 3 : i + k <= m => i + k \in 1 .. m /\ r[i + k] = s[i + k] /\ i + k <= m + n
    BY <1>1
  <2>3. DecisionForm(s, i) => DecisionForm(r, i)
    BY <1>1, <1>3, <2>2 DEF DecisionForm
  <2>4. HintForm(s, i) => HintForm(r, i)
    BY <1>1, <1>3, <2>2 DEF HintForm
  <2>5. NoteForm(s, i) => NoteForm(r, i)
    BY <1>1, <1>3, <2>2 DEF NoteForm
  <2> QED
    BY <2>1, <2>3, <2>4, <2>5 DEF InForm
<1>6. ASSUME NEW i \in 1 .. n PROVE InForm(r, m + i)
  <2>1. InForm(t, i) /\ r[m + i] = t[i]
    BY <1>1 DEF Blocks
  <2>2. i > 1 => m + i > 1 /\ r[(m + i) - 1] = t[i - 1]
    <3>1. i > 1 => i - 1 \in 1 .. n /\ (m + i) - 1 = m + (i - 1) /\ m + i > 1
      OBVIOUS
    <3> QED
      BY <1>1, <3>1
  <2>3. \A k \in 1 .. 3 : i + k <= n =>
          /\ i + k \in 1 .. n /\ (m + i) + k = m + (i + k) /\ r[(m + i) + k] = t[i + k]
          /\ (m + i) + k <= m + n
    BY <1>1
  <2>4. DecisionForm(t, i) => DecisionForm(r, m + i)
    <3> SUFFICES ASSUME DecisionForm(t, i) PROVE DecisionForm(r, m + i)
      OBVIOUS
    <3>1. i + 1 <= n /\ i + 2 <= n
      BY <1>1 DEF DecisionForm
    <3>2. EndsBlock(r, (m + i) + 2)
      BY <1>4, <2>3, <3>1 DEF DecisionForm
    <3> QED
      BY <1>1, <2>3, <3>1, <3>2 DEF DecisionForm
  <2>5. HintForm(t, i) => HintForm(r, m + i)
    BY <1>1, <1>4, <2>3 DEF HintForm
  <2>6. NoteForm(t, i) => NoteForm(r, m + i)
    <3> SUFFICES ASSUME NoteForm(t, i) PROVE NoteForm(r, m + i)
      OBVIOUS
    <3>1. i + 1 <= n /\ i + 2 <= n
      BY <1>1 DEF NoteForm
    <3>2. EndsBlock(t, i + 2) => EndsBlock(r, (m + i) + 2)
      BY <1>4, <2>3, <3>1
    <3>3. i + 3 <= n /\ EndsBlock(t, i + 3) => EndsBlock(r, (m + i) + 3)
      BY <1>4, <2>3
    <3> QED
      BY <1>1, <2>3, <3>1, <3>2, <3>3 DEF NoteForm
  <2> QED
    BY <2>1, <2>2, <2>4, <2>5, <2>6 DEF InForm
<1>7. \A i \in 1 .. Len(r) : InForm(r, i)
  <2> SUFFICES ASSUME NEW i \in 1 .. m + n PROVE InForm(r, i)
    BY <1>1
  <2>1. i \in 1 .. m \/ (i - m \in 1 .. n /\ m + (i - m) = i)
    BY <1>1
  <2> QED
    BY <1>5, <1>6, <2>1
<1>8. r[1] \in BlockStart
  <2>1. CASE m = 0
    BY <1>2, <2>1
  <2>2. CASE m # 0
    <3>1. 1 \in 1 .. m /\ m > 0
      BY <1>1, <2>2
    <3> QED
      BY <1>1, <3>1 DEF Blocks
  <2> QED
    BY <2>1, <2>2
<1>9. Blocks(r)
  BY <1>7, <1>8 DEF Blocks
<1> QED
  BY <1>1, <1>9 DEF r

\* A report of decisions and warnings is printed as blocks.
LEMMA ReportIsBlocks ==
  ASSUME NEW rep \in Seq(DiagnosticKinds), \A i \in DOMAIN rep : rep[i] \notin Undecided
  PROVE  Lines("cli", rep) \in Seq(LineKinds) /\ Blocks(Lines("cli", rep))
<1> DEFINE parts == [i \in DOMAIN rep |-> CliText(rep[i])]
           n == Len(rep)
           F == [k \in Nat |-> {s \in Seq(LineKinds) : Blocks(s)}]
<1>1. n \in Nat /\ DOMAIN rep = 1 .. n /\ \A i \in 1 .. n : rep[i] \in DiagnosticKinds /\ rep[i] \notin Undecided
  OBVIOUS
<1>2. DOMAIN parts = 1 .. n /\ \A i \in 1 .. n : parts[i] = CliText(rep[i])
  BY <1>1
<1>3. parts = [i \in 1 .. n |-> parts[i]]
  BY <1>1
<1>4. Lines("cli", rep) = FlattenSeq(parts)
  BY Zenon DEF Lines
<1> HIDE DEF parts
<1>5. \A i \in 1 .. n : parts[i] \in Seq(LineKinds) /\ Len(parts[i]) > 0 /\ Blocks(parts[i])
  BY <1>1, <1>2, TextIsBlock
<1>6. Len(parts) = n /\ (n = 0 => parts = <<>>)
  BY <1>1, <1>3
<1>7. <<>> \in F[0]
  BY DEF Blocks
<1>8. ASSUME NEW i \in 1 .. n, NEW s \in Seq(LineKinds), s \in F[i - 1]
      PROVE  s \o parts[i] \in F[i]
  <2>1. i - 1 \in Nat /\ i \in Nat
    BY <1>1
  <2>2. Blocks(s)
    BY <1>8, <2>1
  <2>3. s \o parts[i] \in Seq(LineKinds) /\ Blocks(s \o parts[i])
    BY <1>5, <2>2, BlocksConcat
  <2> QED
    BY <2>1, <2>3
<1>9. \A s : s \in F[n] => Blocks(s)
  BY <1>1
<1> HIDE DEF F
<1>10. \A i \in 1 .. n : parts[i] \in Seq(LineKinds)
  BY <1>5
<1>11. FlattenSeq(parts) \in Seq(LineKinds) /\ FlattenSeq(parts) \in F[n]
  BY <1>1, <1>6, <1>7, <1>8, <1>10, FlattenInduction
<1> QED
  BY <1>4, <1>9, <1>11

\* Stripping blocks takes at most the blank line behind a last note.
LEMMA StrippedBlocks ==
  ASSUME NEW s \in Seq(LineKinds), Blocks(s), Len(s) > 0
  PROVE  Strip(s) \in Seq(LineKinds) /\ Blocks(Strip(s)) /\ Len(Strip(s)) > 0
<1>0. PICK n \in Nat : n = Len(s)
  OBVIOUS
<1>1. n \in Nat /\ n > 0 /\ DOMAIN s = 1 .. n /\ s[1] \in BlockStart /\ n = Len(s)
  BY <1>0 DEF Blocks
<1>6. n > 0
  BY <1>1
<1>2. \A i \in 1 .. n : InForm(s, i)
  BY <1>1 DEF Blocks
<1>3. s[1] \notin Blank /\ \A i \in 1 .. n : s[i] \in Blank <=> s[i] = "blank"
  BY <1>1, <1>2 DEF BlockStart, Blank, InForm
<1>4. CASE s[n] # "blank"
  <2>1. Framed(s, 1, n)
    BY <1>1, <1>3, <1>4 DEF Framed
  <2>2. Strip(s) = SubSeq(s, 1, n)
    BY <2>1, StripIs
  <2>3. SubSeq(s, 1, n) = s
    BY <1>0
  <2> QED
    BY <2>2, <2>3
<1>5. CASE s[n] = "blank"
  <2> DEFINE r == SubSeq(s, 1, n - 1)
  <2>1. n > 1 /\ s[n - 1] # "blank" /\ n - 1 \in 1 .. n
    BY <1>1, <1>2, <1>5 DEF InForm
  <2>2. Framed(s, 1, n - 1)
    BY <1>1, <1>3, <1>5, <2>1 DEF Framed
  <2>3. Strip(s) = r
    BY <2>2, StripIs
  <2>4. r \in Seq(LineKinds) /\ Len(r) = n - 1 /\ \A p \in 1 .. n - 1 : r[p] = s[p]
    BY <1>1, <2>1
  <2> HIDE DEF r
  <2>5. \A j \in 1 .. n - 1 : EndsBlock(s, j) => EndsBlock(r, j)
    <3> SUFFICES ASSUME NEW j \in 1 .. n - 1, EndsBlock(s, j) PROVE EndsBlock(r, j)
      OBVIOUS
    <3>1. CASE j = n - 1
      BY <2>4, <3>1 DEF EndsBlock
    <3>2. CASE j # n - 1
      <4>1. j + 1 \in 1 .. n - 1 /\ j # n
        BY <1>6, <3>2
      <4>2. s[j + 1] \in BlockStart
        BY <1>0, <4>1 DEF EndsBlock
      <4> QED
        BY <2>4, <4>1, <4>2 DEF EndsBlock
    <3> QED
      BY <3>1, <3>2
  <2>6. ASSUME NEW i \in 1 .. n - 1 PROVE InForm(r, i)
    <3>1. InForm(s, i) /\ r[i] = s[i] /\ (i > 1 => r[i - 1] = s[i - 1])
      BY <1>1, <1>2, <2>4
    <3>2. \A k \in 1 .. 3 : i + k <= n - 1 => i + k \in 1 .. n - 1 /\ r[i + k] = s[i + k]
      BY <1>1, <2>4
    <3>3. \A k \in 1 .. 3 : i + k <= n => i + k <= n - 1 \/ i + k = n
      BY <1>6
    <3>4. DecisionForm(s, i) => DecisionForm(r, i)
      <4> SUFFICES ASSUME DecisionForm(s, i) PROVE DecisionForm(r, i)
        OBVIOUS
      <4>1. i + 2 # n /\ i + 2 <= n
        BY <1>0, <1>5 DEF DecisionForm
      <4>2. i + 2 <= n - 1 /\ i + 1 <= n - 1
        BY <1>6, <4>1
      <4> QED
        BY <2>4, <2>5, <3>2, <4>2 DEF DecisionForm
    <3>5. HintForm(s, i) => HintForm(r, i)
      <4> SUFFICES ASSUME HintForm(s, i) PROVE HintForm(r, i)
        OBVIOUS
      <4>1. i + 1 # n /\ i + 1 <= n
        BY <1>0, <1>5 DEF HintForm
      <4>2. i + 1 <= n - 1
        BY <1>6, <4>1
      <4> QED
        BY <2>4, <2>5, <3>2, <4>2 DEF HintForm
    <3>6. NoteForm(s, i) => NoteForm(r, i)
      <4> SUFFICES ASSUME NoteForm(s, i) PROVE NoteForm(r, i)
        OBVIOUS
      <4>1. i + 2 # n /\ i + 2 <= n
        BY <1>0, <1>5 DEF NoteForm
      <4>2. i + 2 <= n - 1 /\ i + 1 <= n - 1
        BY <1>6, <4>1
      <4>3. r[i + 1] = "blank" /\ r[i + 2] = "note"
        BY <3>2, <4>2 DEF NoteForm
      <4>4. CASE EndsBlock(s, i + 2)
        BY <2>4, <2>5, <3>2, <4>2, <4>3, <4>4 DEF NoteForm
      <4>5. CASE i + 3 <= n /\ s[i + 3] = "blank" /\ EndsBlock(s, i + 3)
        <5>1. CASE i + 3 = n
          <6>1. i + 2 = n - 1
            BY <1>6, <5>1
          <6>2. EndsBlock(r, i + 2)
            BY <2>4, <6>1 DEF EndsBlock
          <6> QED
            BY <2>4, <4>2, <4>3, <6>2 DEF NoteForm
        <5>2. CASE i + 3 # n
          <6>1. i + 3 <= n - 1
            BY <1>6, <4>5, <5>2
          <6>2. r[i + 3] = "blank" /\ EndsBlock(r, i + 3)
            BY <2>5, <3>2, <4>5, <6>1
          <6> QED
            BY <2>4, <4>2, <4>3, <6>1, <6>2 DEF NoteForm
        <5> QED
          BY <5>1, <5>2
      <4> QED
        BY <1>0, <4>4, <4>5 DEF NoteForm
    <3> QED
      BY <3>1, <3>4, <3>5, <3>6 DEF InForm
  <2>7. r[1] \in BlockStart /\ Len(r) > 0
    BY <1>1, <2>1, <2>4
  <2>8. Blocks(r)
    BY <2>4, <2>6, <2>7 DEF Blocks
  <2> QED
    BY <2>3, <2>4, <2>7, <2>8
<1> QED
  BY <1>4, <1>5

\* Blocks have the forms that the grammar asks for.
LEMMA BlocksAreGood ==
  ASSUME ScannerInv, Blocks(lines), NEW i \in DOMAIN lines, StartLine(i),
         NEW e \in DOMAIN lines, Extent(i, e)
  PROVE  GoodAt(i, e)
<1>0. PICK n \in Nat : n = Len(lines)
  BY IndexType
<1>1. /\ DOMAIN lines = 1 .. n /\ i \in 1 .. n /\ e \in i .. n /\ i \in Nat /\ e \in Nat
      /\ e = n \/ StartLine(e + 1)
      /\ \A j \in i + 1 .. e : ~ StartLine(j)
  BY <1>0, IndexType DEF Extent
<1>2. InForm(lines, i)
  BY <1>0, <1>1 DEF Blocks
<1>3. ASSUME NEW m \in Nat, i <= m, m <= n, EndsBlock(lines, m), e > m PROVE FALSE
  <2>1. m # n /\ m + 1 \in i + 1 .. e
    BY <1>1, <1>3
  <2>2. StartLine(m + 1)
    BY <1>0, <1>3, <2>1 DEF EndsBlock, StartLine, BlockStart
  <2> QED
    BY <1>1, <2>1, <2>2
<1>4. ASSUME NEW m \in Nat, i <= m, m < n, ~ StartLine(m + 1) PROVE e # m
  BY <1>1, <1>4
<1>5. CASE lines[i] = "header"
  <2>1. i + 2 <= n /\ lines[i + 1] = "indent" /\ lines[i + 2] = "false" /\ EndsBlock(lines, i + 2)
    BY <1>0, <1>2, <1>5 DEF InForm, DecisionForm
  <2>2. i + 2 \in Nat /\ i + 1 \in Nat /\ i <= i + 2 /\ i < n /\ i + 1 < n
    BY <1>1, <2>1
  <2>3. ~ (e > i + 2)
    BY <1>1, <1>3, <2>1, <2>2
  <2>4. e # i /\ e # i + 1
    <3>1. ~ StartLine(i + 1) /\ ~ StartLine((i + 1) + 1)
      <4>1. (i + 1) + 1 = i + 2
        BY <1>1
      <4> QED
        BY <2>1, <4>1 DEF StartLine
    <3> QED
      BY <1>1, <1>4, <2>2, <3>1
  <2>5. e = i + 2
    BY <1>1, <2>3, <2>4
  <2>6. AllIn(Indented, i + 1, (i + 2) - 1) /\ AllIn(Blank, (i + 2) + 1, e)
    <3>1. \A j \in i + 1 .. (i + 2) - 1 : j = i + 1
      BY <1>1
    <3>2. \A j \in (i + 2) + 1 .. e : FALSE
      BY <1>1, <2>5
    <3> QED
      BY <2>1, <3>1, <3>2 DEF AllIn, Indented
  <2>7. i + 2 \in i + 2 .. e
    BY <1>1, <2>5
  <2>8. DecisionAt(i, e)
    BY <2>1, <2>6, <2>7 DEF DecisionAt
  <2> QED
    BY <1>5, <2>8 DEF GoodAt
<1>6. CASE lines[i] = "warning" /\ HintForm(lines, i)
  <2>1. i + 1 <= n /\ lines[i + 1] = "indent" /\ EndsBlock(lines, i + 1)
    BY <1>0, <1>6 DEF HintForm
  <2>2. i + 1 \in Nat /\ i <= i + 1 /\ i < n
    BY <1>1, <2>1
  <2>3. ~ (e > i + 1)
    BY <1>1, <1>3, <2>1, <2>2
  <2>4. e # i
    BY <1>1, <1>4, <2>1, <2>2 DEF StartLine
  <2>5. e = i + 1
    BY <1>1, <2>3, <2>4
  <2>6. AllIn(Indented, i + 1, e) /\ AllIn(Blank, e + 1, e) /\ e \in i .. e
    <3>1. \A j \in i + 1 .. e : j = i + 1
      BY <1>1, <2>5
    <3>2. \A j \in e + 1 .. e : FALSE
      BY <1>1
    <3>3. e \in i .. e
      BY <1>1
    <3> QED
      BY <2>1, <3>1, <3>2, <3>3 DEF AllIn, Indented
  <2>7. BodyAt(i, e)
    BY <2>6 DEF BodyAt
  <2> QED
    BY <1>6, <2>7 DEF GoodAt, WarningAt
<1>7. CASE lines[i] = "warning" /\ NoteForm(lines, i)
  <2>1. i + 2 <= n /\ lines[i + 1] = "blank" /\ lines[i + 2] = "note"
    BY <1>0, <1>7 DEF NoteForm
  <2>2. i + 2 \in Nat /\ i + 1 \in Nat /\ i + 3 \in Nat /\ i <= i + 2 /\ i <= i + 3 /\ i < n /\ i + 1 < n
    BY <1>1, <2>1
  <2>3. e # i /\ e # i + 1
    <3>1. ~ StartLine(i + 1) /\ ~ StartLine((i + 1) + 1)
      <4>1. (i + 1) + 1 = i + 2
        BY <1>1
      <4> QED
        BY <2>1, <4>1 DEF StartLine
    <3> QED
      BY <1>1, <1>4, <2>2, <3>1
  <2>4. e = i + 2 \/ (e = i + 3 /\ lines[i + 3] = "blank")
    <3>1. CASE EndsBlock(lines, i + 2)
      BY <1>1, <1>3, <2>1, <2>2, <2>3, <3>1
    <3>2. CASE i + 3 <= n /\ lines[i + 3] = "blank" /\ EndsBlock(lines, i + 3)
      <4>1. ~ (e > i + 3)
        BY <1>1, <1>3, <2>2, <3>2
      <4> QED
        BY <1>1, <2>3, <3>2, <4>1
    <3> QED
      BY <1>0, <1>7, <3>1, <3>2 DEF NoteForm
  <2>5. BodyAt(i, (i + 2) - 1)
    <3>1. \A j \in i + 1 .. i : FALSE
      BY <1>1
    <3>2. \A j \in i + 1 .. (i + 2) - 1 : j = i + 1
      BY <1>1
    <3>3. i \in i .. (i + 2) - 1
      BY <1>1
    <3>4. AllIn(Indented, i + 1, i) /\ AllIn(Blank, i + 1, (i + 2) - 1)
      BY <2>1, <3>1, <3>2 DEF AllIn, Blank
    <3> QED
      BY <3>3, <3>4 DEF BodyAt
  <2>6. BodyAt(i + 2, e)
    <3>1. \A j \in (i + 2) + 1 .. i + 2 : FALSE
      BY <1>1
    <3>2. \A j \in (i + 2) + 1 .. e : lines[j] = "blank"
      <4>1. \A j \in (i + 2) + 1 .. e : e = i + 3 /\ j = i + 3
        BY <1>1, <2>4
      <4> QED
        BY <2>4, <4>1
    <3>3. i + 2 \in i + 2 .. e
      BY <1>1, <2>4
    <3>4. AllIn(Indented, (i + 2) + 1, i + 2) /\ AllIn(Blank, (i + 2) + 1, e)
      BY <3>1, <3>2 DEF AllIn, Blank
    <3> QED
      BY <3>3, <3>4 DEF BodyAt
  <2>7. i + 2 \in i + 1 .. e
    BY <1>1, <2>4
  <2>8. WarningAt(i, e)
    BY <2>1, <2>5, <2>6, <2>7 DEF WarningAt
  <2> QED
    BY <1>7, <2>8 DEF GoodAt
<1> QED
  BY <1>2, <1>5, <1>6, <1>7 DEF InForm, StartLine

\* Blocks with a decision among them are a refutation.
LEMMA BlocksAreGrammatical ==
  ASSUME ScannerInv, Blocks(lines), Occurs("header", lines)
  PROVE  Grammatical
<1>1. Len(lines) \in Nat /\ DOMAIN lines = 1 .. Len(lines)
  BY IndexType
<1>2. \E i \in DOMAIN lines : lines[i] = "header"
  BY DEF Occurs
<1>3. 1 \in DOMAIN lines /\ Len(lines) > 0
  BY <1>1, <1>2
<1>4. StartLine(1)
  BY <1>3 DEF Blocks, StartLine, BlockStart
<1> QED
  BY <1>2, <1>3, <1>4, BlocksAreGood DEF Grammatical

-----------------------------------------------------------------------------
\* What is read, and of which report it is the text.
ReportInv ==
  /\ ScannerInv /\ GrammarInv
  /\ transport # "text" => report \in Seq(DiagnosticKinds) /\ lines = Output(transport, report)

LEMMA ReportInvInit == ReportInit => ReportInv
<1> SUFFICES ASSUME ReportInit PROVE ReportInv
  OBVIOUS
<1>1. transport # "text" => report \in Seq(DiagnosticKinds) /\ lines = Output(transport, report)
  BY ReportsAssumption DEF ReportInit
<1>2. lines \in Seq(LineKinds)
  BY <1>1, OutputElements, InputsAssumption DEF ReportInit
<1>3. ScannerInv /\ GrammarInv
  BY <1>2, ScanFromTopInv DEF ReportInit, ScanFromTop, GrammarInv, HeaderRead, Done
<1> QED
  BY <1>1, <1>3 DEF ReportInv

LEMMA ReportInvNext == ReportInv /\ [ReportNext]_reportVars => ReportInv'
<1> SUFFICES ASSUME ReportInv, [ReportNext]_reportVars PROVE ReportInv'
  OBVIOUS
<1>1. [ScannerNext]_scannerVars /\ UNCHANGED <<lines, transport, report>>
  BY DEF ReportNext, reportVars, scannerVars, ScannerNext
<1>2. ScannerInv' /\ GrammarInv'
  BY <1>1, ScannerStepInv, GrammarStepInv DEF ReportInv
<1> QED
  BY <1>1, <1>2 DEF ReportInv

LEMMA ReportInvariance == ReportSpec => []ReportInv
  BY ReportInvInit, ReportInvNext, PTL DEF ReportSpec

\* For reports of any length and text of any length, the scanner accepts what the
\* grammar does.
THEOREM ReportsFollowTheGrammar == ReportSpec => []AcceptsTheGrammar
<1>1. ReportInv => AcceptsTheGrammar
  BY GrammarByPlaces DEF ReportInv, GrammarInv, AcceptsTheGrammar
<1> QED
  BY <1>1, ReportInvariance, PTL

\* For reports of any length: what checker_status reads as a rejection is about
\* native_decide decisions and no other error, and the CLI's text of such a
\* report is always read as one.
THEOREM ReportsAreClassified == ReportSpec => []ReportsClassified
<1>1. ReportInv => ReportsClassified
  <2> SUFFICES ASSUME ReportInv PROVE ReportsClassified
    OBVIOUS
  <2>1. ASSUME place = "accepted", transport # "text" PROVE AllErrorsDecide
    <3>1. AcceptedMeansDecided
      BY AcceptedIsDecided DEF ReportInv
    <3>2. Occurs("header", lines) /\ ~ Occurs("other", lines)
      BY <2>1, <3>1 DEF AcceptedMeansDecided, Occurs
    <3> QED
      BY <2>1, <3>2, OutputElements DEF ReportInv, AllErrorsDecide
  <2>2. ASSUME place \in Done, transport = "cli", AllErrorsDecide PROVE place = "accepted"
    <3>1. report \in Seq(DiagnosticKinds) /\ lines = Output("cli", report)
      BY <2>2 DEF ReportInv
    <3>2. Occurs("header", lines)
      BY <2>2, <3>1, OutputElements DEF AllErrorsDecide
    <3> DEFINE s == Lines("cli", report)
    <3>3. s \in Seq(LineKinds) /\ Blocks(s)
      BY <2>2, <3>1, ReportIsBlocks DEF AllErrorsDecide
    <3>4. lines = Strip(s)
      BY <3>1 DEF Output
    <3>5. Len(s) > 0
      <4> HIDE DEF s
      <4>1. Len(s) \in Nat /\ DOMAIN s = 1 .. Len(s)
        BY <3>3
      <4>2. "header" \notin Blank
        BY DEF Blank
      <4>3. Occurs("header", s)
        BY <3>2, <3>3, <3>4, <4>2, StripElements
      <4> QED
        BY <4>1, <4>3 DEF Occurs
    <3> HIDE DEF s
    <3>6. Blocks(lines)
      BY <3>3, <3>4, <3>5, StrippedBlocks
    <3>7. Grammatical
      BY <3>2, <3>6, BlocksAreGrammatical DEF ReportInv
    <3> QED
      BY <2>2, <3>7 DEF ReportInv, GrammarInv
  <2> QED
    BY <2>1, <2>2 DEF ReportsClassified
<1> QED
  BY <1>1, ReportInvariance, PTL
=============================================================================
