---------------------------- MODULE CheckerRunner ----------------------------
(***************************************************************************)
(* LeanCheckerRunner.run_source and verify_artifact_dict from the request  *)
(* to its result, and checker_status, which turns a result into a verdict: *)
(* sanitizer, version gate, the persistent worker's answer, CLI            *)
(* confirmation of its successes and CLI fallback from its failures.       *)
(*                                                                         *)
(* Lean is the environment.  A toolchain that the gate would accept is     *)
(* trusted to exit 0 only on a theorem that holds and to print a complete  *)
(* native_decide refutation only of one that does not.  Any other outcome  *)
(* of its process is possible for any source, also output that does not    *)
(* decode as text: it raises through the runner.  The worker pool behind   *)
(* _run_persistent_backend appears here by the results it may return.      *)
(***************************************************************************)
EXTENDS Preflight, Naturals, FiniteSets

CONSTANT Configs   \* the configurations explored: execution mode and fallback

ConfigKinds ==
  [mode     : {"oneshot_cli", "persistent_server", "auto"},
   fallback : BOOLEAN]         \* persistent_fallback_to_oneshot

ASSUME ConfigAssumption == Configs \subseteq ConfigKinds

VARIABLES
  config,
  claim,          \* what is the case about each request's theorem
  phase,          \* how far each request has come
  result,         \* its CheckerRunResult, once it has one
  fallbackCount   \* _fallback_to_oneshot_count

requestVars == <<config, claim, phase, result, fallbackCount>>
runnerVars  == <<preflightVars, requestVars>>

(* A request whose phase is a backend_mode is about to run the CLI for it. *)
CliModes == {"oneshot_cli", "persistent_confirmed_cli", "oneshot_cli_fallback"}
Phases   == {"start", "gate", "persistent", "done", "raised"} \cup CliModes

(* Exit codes fall into the classes the code tells apart; of the output it *)
(* matters only whether it is a complete native_decide refutation.         *)
ReturnCodes == {"none", "zero", "one", "wrapper_timeout", "other"}
Outputs     == {"refutation", "other"}

Results ==
  [success : BOOLEAN, returncode : ReturnCodes, output : Outputs,
   timedOut : BOOLEAN, backendError : BOOLEAN,
   mode : CliModes \cup {"persistent_server"}, fallbackUsed : BOOLEAN]

(* A result of a request for which nothing ran, before any flag is raised. *)
NoRun == [success |-> FALSE, returncode |-> "none", output |-> "other",
          timedOut |-> FALSE, backendError |-> FALSE, mode |-> "oneshot_cli",
          fallbackUsed |-> FALSE]

Claims == {"true", "false", "broken"}

(* The result of a request that has none, yet or because an exception took *)
(* its place, is a placeholder.                                            *)
RunnerTypeOK ==
  /\ PreflightTypeOK
  /\ config \in ConfigKinds
  /\ claim \in [Requests -> Claims]
  /\ phase \in [Requests -> Phases]
  /\ result \in [Requests -> Results]
  /\ fallbackCount \in Nat

RunnerInit ==
  /\ PreflightInit
  /\ config \in Configs
  /\ claim \in [Requests -> Claims]
  /\ phase = [r \in Requests |-> "start"]
  /\ result = [r \in Requests |-> NoRun]
  /\ fallbackCount = 0

Finish(r, res) ==
  /\ phase' = [phase EXCEPT ![r] = "done"]
  /\ result' = [result EXCEPT ![r] = res]

Goto(r, p) ==
  /\ phase' = [phase EXCEPT ![r] = p]
  /\ UNCHANGED result

(* An exception leaves the runner in place of a result.                    *)
Raise(r) ==
  /\ phase' = [phase EXCEPT ![r] = "raised"]
  /\ result' = [result EXCEPT ![r].fallbackUsed = phase[r] = "oneshot_cli_fallback"]

InFlight(r) == phase[r] \notin {"start", "done", "raised"}

-----------------------------------------------------------------------------
(* The caller asked to bypass the sanitizer, or the sanitizer refused the  *)
(* source: neither is an error of the backend.                             *)
RejectSource(r) ==
  /\ phase[r] = "start"
  /\ Finish(r, NoRun)
  /\ UNCHANGED <<preflightVars, config, claim, fallbackCount>>

SanitizeSource(r) ==
  /\ phase[r] = "start"
  /\ Sequential => \A q \in Requests : ~InFlight(q)
  /\ Goto(r, "gate")
  /\ UNCHANGED <<preflightVars, config, claim, fallbackCount>>

Refusal == [NoRun EXCEPT !.backendError = TRUE, !.timedOut = preflightTimedOut']

(* A step of _ensure_lean_compatible, and where its verdict sends us.      *)
PassGate(r) ==
  /\ phase[r] = "gate"
  /\ EnsureLeanCompatible(r)
  /\ \/ gate'[r] = "probing" /\ UNCHANGED <<phase, result>>
     \/ gate'[r] = "raised" /\ Raise(r)
     \/ gate'[r] = "refused" /\ Finish(r, Refusal)
     \/ gate'[r] = "admitted" /\ config.mode = "oneshot_cli" /\ Goto(r, "oneshot_cli")
     \/ gate'[r] = "admitted" /\ config.mode # "oneshot_cli" /\ Goto(r, "persistent")
  /\ UNCHANGED <<config, claim, fallbackCount>>

-----------------------------------------------------------------------------
Trusted == toolchain # "incompatible"

RefutationsPossible(c) ==
  IF Trusted /\ c # "false" THEN {"other"} ELSE Outputs

(* How a Lean process on a file that claims c may exit.                    *)
LeanExits(c) ==
  [returncode : (ReturnCodes \ {"none"}) \ {z \in {"zero"} : Trusted /\ c # "true"},
   output     : RefutationsPossible(c)]

ExitResult(x) ==
  [NoRun EXCEPT !.success = x.returncode = "zero",
                !.returncode = x.returncode,
                !.output = x.output,
                !.timedOut = x.returncode = "wrapper_timeout",
                !.backendError = x.returncode \notin {"zero", "one"}]

(* _run_lean_file: an exit, a timeout with whatever was printed by then,   *)
(* or a workspace or executable that failed.                               *)
LeanFileResults(c) ==
  {[NoRun EXCEPT !.backendError = TRUE]} \cup
  IF toolchain = "missing" THEN {}
  ELSE {ExitResult(x) : x \in LeanExits(c)} \cup
       {[NoRun EXCEPT !.timedOut = TRUE, !.output = o] : o \in RefutationsPossible(c)}

(* _run_persistent_backend: a failure, a timeout, or the diagnostics of a  *)
(* quiet interval.  An empty batch may come before elaboration has ended,  *)
(* so success is possible whatever the claim.                              *)
PersistentResults(c) ==
  LET Lsp == [NoRun EXCEPT !.mode = "persistent_server"]
  IN  {[Lsp EXCEPT !.backendError = TRUE]} \cup
      IF toolchain = "missing" THEN {}
      ELSE {[Lsp EXCEPT !.timedOut = TRUE],
            [Lsp EXCEPT !.success = TRUE, !.returncode = "zero"]} \cup
           {[Lsp EXCEPT !.returncode = "one", !.output = o] : o \in RefutationsPossible(c)}

Failed(res) == res.backendError \/ res.timedOut

(* Slips: the worker's success is final; fallback ignores its option; a    *)
(* failed worker is asked again without end.                               *)
WorkerTrusted(res) ==
  IF Failed(res) /\ config.fallback THEN "oneshot_cli_fallback" ELSE "done"
FallbackForced(res) ==
  IF res.success THEN "persistent_confirmed_cli"
  ELSE IF Failed(res) THEN "oneshot_cli_fallback" ELSE "done"
AskedAgain(res) ==
  IF res.success THEN "persistent_confirmed_cli"
  ELSE IF Failed(res) THEN "persistent" ELSE "done"

(* Where the worker's result sends the request.                            *)
AfterPersistent(res) ==
  IF res.success THEN "persistent_confirmed_cli"
  ELSE IF Failed(res) /\ config.fallback THEN "oneshot_cli_fallback" ELSE "done"

RunPersistent(r) ==
  /\ phase[r] = "persistent"
  /\ \E res \in PersistentResults(claim[r]) :
       /\ IF AfterPersistent(res) = "done"
          THEN Finish(r, res) ELSE Goto(r, AfterPersistent(res))
       /\ fallbackCount' = IF AfterPersistent(res) = "oneshot_cli_fallback"
                           THEN fallbackCount + 1 ELSE fallbackCount
  /\ UNCHANGED <<preflightVars, config, claim>>

BackendMode(r) == phase[r]

RunLeanFile(r) ==
  /\ phase[r] \in CliModes
  /\ \E res \in LeanFileResults(claim[r]) :
       Finish(r, [res EXCEPT !.mode = BackendMode(r),
                             !.fallbackUsed = phase[r] = "oneshot_cli_fallback"])
  /\ UNCHANGED <<preflightVars, config, claim, fallbackCount>>

(* Lean's output does not decode: text=True makes subprocess.run raise what*)
(* no handler of _run_lean_file names, before there is a result.           *)
RunLeanFileRaises(r) ==
  /\ phase[r] \in CliModes
  /\ toolchain # "missing"
  /\ Raise(r)
  /\ UNCHANGED <<preflightVars, config, claim, fallbackCount>>

-----------------------------------------------------------------------------
Proceed(r) ==
  PassGate(r) \/ RunPersistent(r) \/ RunLeanFile(r) \/ RunLeanFileRaises(r)

RunnerNext ==
  \E r \in Requests : RejectSource(r) \/ SanitizeSource(r) \/ Proceed(r)

RunnerSpec == RunnerInit /\ [][RunnerNext]_runnerVars

(* Everything a request waits for ends by itself: the probe, the worker    *)
(* and the CLI run under timeouts of their own.                            *)
FairRunnerSpec == RunnerSpec /\ \A r \in Requests : WF_runnerVars(Proceed(r))

-----------------------------------------------------------------------------
(* Slip: exit code 1 alone is a negative decision.                         *)
RejectionByExitCode(res) ==
  IF Failed(res) \/ res.returncode \notin {"zero", "one"} THEN "operational_error"
  ELSE IF res.success THEN "checked_success" ELSE "mathematical_rejection"

(* specification.checker_status.                                           *)
CheckerStatus(res) ==
  IF Failed(res) \/ res.returncode \notin {"zero", "one"} THEN "operational_error"
  ELSE IF res.success /\ res.returncode = "zero" THEN "checked_success"
  ELSE IF res.returncode = "one" /\ res.output = "refutation"
       THEN "mathematical_rejection" ELSE "operational_error"

Verdict == [r \in Requests |->
              IF phase[r] = "done" THEN CheckerStatus(result[r]) ELSE "pending"]

Promise == INSTANCE TrustedVerdict WITH verdict <- Verdict

(* The verifier keeps its promise: each request is answered at most once,  *)
(* with a success only for a theorem that holds and a rejection only for   *)
(* one that does not, whichever of the worker, the confirming CLI run and  *)
(* the fallback run decides, and a failure of any of them decides nothing. *)
VerdictsTrustworthy == Promise!VerdictSafety

(* A success was always established by a completed CLI run, never by the   *)
(* worker alone, whatever the toolchain (README: persistent mode "confirms *)
(* successful LSP diagnostics with a completed CLI check").                *)
SuccessConfirmedByCli ==
  \A r \in Requests :
    (phase[r] = "done" /\ result[r].success) =>
      /\ result[r].mode # "persistent_server"
      /\ result[r].returncode = "zero"
      /\ gate[r] = "admitted"

FellBack == {r \in Requests : \/ phase[r] = "oneshot_cli_fallback"
                              \/ phase[r] \in {"done", "raised"} /\ result[r].fallbackUsed}

(* Telemetry counts each fallback once, also under concurrency and when it *)
(* raises, and none happens when the configuration forbids it.             *)
FallbackAccounted ==
  /\ fallbackCount = Cardinality(FellBack)
  /\ FellBack # {} => config.fallback

(* Whatever fails, a request that passed the sanitizer is answered, if     *)
(* only by the exception: none waits for ever.                             *)
EveryRequestAnswered ==
  \A r \in Requests : phase[r] = "gate" ~> phase[r] \in {"done", "raised"}
=============================================================================
