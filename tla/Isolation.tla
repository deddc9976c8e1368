------------------------------ MODULE Isolation ------------------------------
(***************************************************************************)
(* One call of the lean-isolated wrapper (isolation.py) by a runner whose  *)
(* lean_executable it is: `--version` for the gate or a source file for    *)
(* _run_lean_file.  Three processes meet: the runner, which waits with a   *)
(* timeout and kills the wrapper when it is over; the wrapper, which waits *)
(* for Lean under two timeouts of its own; and Lean inside bubblewrap.     *)
(*                                                                         *)
(* Time passes only while the wrapper waits for a process, and not beyond  *)
(* the deadline of anyone who waits: its own work is taken to be instant.  *)
(***************************************************************************)
EXTENDS Naturals

CONSTANTS
  ProbeTimeout,    \* 30 s, for the version check before a file
  WallTimeout,     \* 150 s, for the run itself
  Patiences        \* the timeouts of runners: timeout_seconds

ASSUME IsolationAssumption ==
  /\ ProbeTimeout \in Nat \ {0} /\ WallTimeout \in Nat \ {0}
  /\ Patiences \subseteq Nat \ {0}

VARIABLES
  mode,       \* "version" or "file"
  install,    \* the toolchain at LKV_SANDBOX_TOOLCHAIN
  claim,      \* what is the case about the file's theorem
  patience,   \* the runner's timeout for this call
  now,        \* time since the call
  pc,         \* where the wrapper is
  started,    \* when the process that it waits for was started
  lean,       \* "none", "running", "ended" by itself, "killed"
  end,        \* how Lean ended
  scratch,    \* TRUE while the temporary directory exists
  status,     \* class of the wrapper's exit status
  printed     \* what of Lean's diagnostics the runner has received

given == <<mode, install, claim, patience>>
isolationVars == <<given, now, pc, started, lean, end, scratch, status, printed>>

(* The runner's view of a Lean process: with a toolchain it may trust, and *)
(* with one of any other version.                                          *)
Pinned == INSTANCE CheckerRunner WITH
  Requests <- {0}, Sequential <- TRUE, Toolchains <- {"compatible"}, Faults <- {},
  Configs <- {}, toolchain <- "compatible", preflightChecked <- TRUE,
  preflightError <- "none", preflightTimedOut <- FALSE, gate <- <<>>,
  config <- "", phase <- <<>>, result <- <<>>, fallbackCount <- 0
Other == INSTANCE CheckerRunner WITH
  Requests <- {0}, Sequential <- TRUE, Toolchains <- {"incompatible"}, Faults <- {},
  Configs <- {}, toolchain <- "incompatible", preflightChecked <- TRUE,
  preflightError <- "none", preflightTimedOut <- FALSE, gate <- <<>>,
  config <- "", phase <- <<>>, result <- <<>>, fallbackCount <- 0

(* An end of Lean: its exit class, the refutation that its diagnostics are *)
(* or are not, whether they exceed the limit of 262144 bytes, and whether  *)
(* a signal ended it, which may be at any point of its output.             *)
LeanEnds ==
  [returncode : {"zero", "one", "wrapper_timeout", "other"},
   output : {"refutation", "other"}, long : BOOLEAN, signalled : BOOLEAN]
NoEnd == [returncode |-> "other", output |-> "other", long |-> FALSE, signalled |-> FALSE]

PossibleEnds ==
  LET Matches(e, exits) == [returncode |-> e.returncode, output |-> e.output] \in exits
      OnFile == IF install = "pinned" THEN Pinned!LeanExits(claim) ELSE Other!LeanExits(claim)
  IN  {e \in LeanEnds :
         \/ mode = "file" /\ pc = "running" /\ Matches(e, OnFile)
         \/ (mode = "version" \/ pc = "probing") /\ e.output = "other"
         \/ e.signalled /\ e.returncode = "other"}

IsolationInit ==
  /\ mode \in {"version", "file"}
  /\ install \in {"pinned", "other"}
  /\ claim \in {"true", "false", "broken"}
  /\ patience \in Patiences
  /\ now = 0 /\ pc = "start" /\ started = 0
  /\ lean = "none" /\ end = NoEnd
  /\ scratch = FALSE /\ status = "other" /\ printed = "other"

Quit(code, text) ==
  /\ pc' = "exited" /\ status' = code /\ printed' = text
  /\ scratch' = FALSE               \* TemporaryDirectory's __exit__

Launch(where) ==
  /\ pc' = where /\ started' = now /\ lean' = "running" /\ end' = NoEnd
  /\ scratch' = TRUE
  /\ UNCHANGED <<status, printed>>

-----------------------------------------------------------------------------
(* No configuration, no bubblewrap, a source over 2 MB, a workspace or a   *)
(* process that cannot be made: exit 125 before Lean runs.                 *)
FailToStart ==
  /\ pc = "start"
  /\ Quit("other", "other")
  /\ UNCHANGED <<given, now, started, lean, end>>

Start ==
  /\ pc = "start"
  /\ Launch(IF mode = "file" THEN "probing" ELSE "running")
  /\ UNCHANGED <<given, now>>

(* Slip: the version check waits as long as the run.                       *)
ProbeWaitsLong == WallTimeout
ProbeWait == ProbeTimeout

Deadline == started + IF pc = "probing" THEN ProbeWait ELSE WallTimeout
Waiting == pc \in {"probing", "running"} /\ lean = "running"

(* Lean in its sandbox ends: the version check says the pinned version     *)
(* only if it is; bubblewrap or prlimit may fail in its place.             *)
LeanExits ==
  /\ lean = "running"
  /\ lean' = "ended"
  /\ end' \in PossibleEnds
  /\ UNCHANGED <<given, now, pc, started, scratch, status, printed>>

(* Slip: the exit status of the version command is enough.                 *)
VersionByStatus == end.returncode = "zero"
VersionConfirmed == end.returncode = "zero" /\ ~end.signalled /\ install = "pinned"

PassProbe ==
  /\ pc = "probing" /\ lean = "ended"
  /\ IF VersionConfirmed
     THEN Launch("running") \/ (Quit("other", "other") /\ UNCHANGED <<started, lean, end>>)
     ELSE Quit("other", "other") /\ UNCHANGED <<started, lean, end>>
  /\ UNCHANGED <<given, now>>

(* subprocess.run kills the version check; TimeoutExpired becomes 125.     *)
ProbeTimesOut ==
  /\ pc = "probing" /\ Waiting /\ now = Deadline
  /\ lean' = "killed"
  /\ Quit("other", "other")
  /\ UNCHANGED <<given, now, started, end>>

(* Slip: the wrapper reports the timeout and leaves Lean to itself.        *)
LeftRunning == UNCHANGED lean
KillGroup == lean' = "killed"

RunTimesOut ==
  /\ pc = "running" /\ Waiting /\ now = Deadline
  /\ KillGroup
  /\ Quit("wrapper_timeout", "other")
  /\ UNCHANGED <<given, now, started, end>>

(* Slip: output beyond the limit is cut off and the status kept.  The part *)
(* that is left may be a complete refutation though the whole is not.      *)
CutOff(e) == {<<e.returncode, o>> : o \in {"refutation", "other"}}

(* What the end of Lean becomes: output beyond the limit is not shown at   *)
(* all, and a negative return code is not passed on.  Printing may fail on *)
(* a character the runner's pipe cannot encode.                            *)
Reported(e) ==
  IF e.long THEN {<<"other", "other">>}
  ELSE {<<"other", "other">>,
        <<IF e.signalled THEN "other" ELSE e.returncode, e.output>>}

Report ==
  /\ pc = "running" /\ lean = "ended"
  /\ \E r \in Reported(end) :
       IF mode = "version" /\ install # "pinned"
       THEN Quit("other", r[2]) ELSE Quit(r[1], r[2])
  /\ UNCHANGED <<given, now, started, lean, end>>

-----------------------------------------------------------------------------
(* The runner's subprocess.run kills the wrapper, which cleans up nothing. *)
RunnerTimesOut ==
  /\ Waiting
  /\ now = patience
  /\ pc' = "killed"
  /\ UNCHANGED <<given, now, started, lean, end, scratch, status, printed>>

(* bwrap --die-with-parent.                                                *)
DieWithParent ==
  /\ pc = "killed" /\ lean = "running"
  /\ lean' = "killed"
  /\ UNCHANGED <<given, now, pc, started, end, scratch, status, printed>>

Tick ==
  /\ Waiting
  /\ now < Deadline /\ now < patience
  /\ now' = now + 1
  /\ UNCHANGED <<given, pc, started, lean, end, scratch, status, printed>>

Wrapper == Start \/ FailToStart \/ PassProbe \/ ProbeTimesOut \/ RunTimesOut \/ Report
IsolationNext == Wrapper \/ LeanExits \/ RunnerTimesOut \/ DieWithParent \/ Tick

IsolationSpec == IsolationInit /\ [][IsolationNext]_isolationVars

(* Time goes on, the processes that are not waiting run, and the kernel    *)
(* delivers the signal of a parent's death.                                *)
FairIsolationSpec ==
  /\ IsolationSpec
  /\ WF_isolationVars(Tick) /\ WF_isolationVars(Wrapper)
  /\ WF_isolationVars(RunnerTimesOut) /\ WF_isolationVars(DieWithParent)

-----------------------------------------------------------------------------
Over == pc \in {"exited", "killed"}

(* What _run_lean_file makes of the call.                                  *)
Result ==
  IF pc = "killed" THEN [Pinned!NoRun EXCEPT !.timedOut = TRUE, !.output = printed]
  ELSE Pinned!ExitResult([returncode |-> status, output |-> printed])

(* The text of a failed run decides nothing.                               *)
Seen == IF Pinned!Failed(Result) THEN [Result EXCEPT !.output = "other"] ELSE Result

(* Whatever is installed, however Lean, the wrapper and the runner's       *)
(* timers interleave, the runner sees no more than a trusted Lean could    *)
(* show it about the claim (CheckerRunner's environment), and the gate is  *)
(* opened only by the pinned version.  (README: "a mismatched Lean version *)
(* is fatal".)                                                             *)
IsolatedLeanTrusted ==
  /\ (Over /\ mode = "file") => Seen \in Pinned!LeanFileResults(claim)
  /\ (pc = "exited" /\ mode = "version" /\ status = "zero") => install = "pinned"

(* A wrapper that exits leaves no Lean and no scratch directory, and a     *)
(* runner whose timeout exceeds the two timeouts of the wrapper (210 s in  *)
(* the README against 30 s and 150 s) lets it exit.                        *)
NothingLeftBehind ==
  /\ pc = "exited" => lean # "running" /\ ~scratch
  /\ patience > ProbeTimeout + WallTimeout => pc # "killed"

(* Every call is over in the end and its Lean gone, also when Lean never   *)
(* ends by itself and when the runner kills the wrapper.                   *)
EveryRunEnds == <>(Over /\ lean # "running")
=============================================================================
