------------------------------ MODULE Preflight ------------------------------
(***************************************************************************)
(* The lazily computed, cached version gate of LeanCheckerRunner:          *)
(* _ensure_lean_compatible and its three attributes.  Every request of a   *)
(* runner passes the gate before any Lean source runs.                     *)
(*                                                                         *)
(* Requests of one runner may be made by several threads (the worker pool  *)
(* behind the gate has a semaphore and locks for them), but the gate has   *)
(* no lock.  A step is what a thread does between two points where the     *)
(* interpreter may switch threads: the attribute accesses before the       *)
(* version subprocess are one step, those after it another.                *)
(***************************************************************************)
CONSTANTS
  Requests,     \* the requests made of one runner, each made once
  Sequential,   \* TRUE: a request starts only when no other is in flight
  Toolchains,   \* the toolchains the configured executable may name
  Faults        \* what may go wrong in a probe of a working toolchain

ToolchainKinds == {"compatible", "incompatible", "missing"}
FaultKinds     == {"timeout", "oserror", "exit", "undecodable"}

ASSUME PreflightAssumption ==
  /\ Sequential \in BOOLEAN
  /\ Toolchains \subseteq ToolchainKinds
  /\ Faults \subseteq FaultKinds

VARIABLES
  toolchain,          \* what the configured executable really is
  preflightChecked,   \* _preflight_checked
  preflightError,     \* _preflight_error, "none" for None
  preflightTimedOut,  \* _preflight_timed_out
  gate                \* how far each request has come through the gate

preflightVars == <<toolchain, preflightChecked, preflightError,
                   preflightTimedOut, gate>>

GateStates == {"new", "probing", "admitted", "refused", "raised"}
Errors     == {"none", "not_found", "version"} \cup (FaultKinds \ {"undecodable"})

PreflightTypeOK ==
  /\ toolchain \in ToolchainKinds
  /\ preflightChecked \in BOOLEAN
  /\ preflightError \in Errors
  /\ preflightTimedOut \in BOOLEAN
  /\ gate \in [Requests -> GateStates]

PreflightInit ==
  /\ toolchain \in Toolchains
  /\ preflightChecked = FALSE
  /\ preflightError = "none"
  /\ preflightTimedOut = FALSE
  /\ gate = [r \in Requests |-> "new"]

(***************************************************************************)
(* How `lean --version` may end.  A missing executable fails to start; the *)
(* faults are transient and hit a present one whatever its version.  One   *)
(* of them, output that does not decode as text, makes subprocess.run      *)
(* raise what none of the handlers names (UnicodeDecodeError).             *)
(***************************************************************************)
ProbeOutcomes ==
  CASE toolchain = "compatible"   -> {"ok"} \cup Faults
    [] toolchain = "incompatible" -> {"version"} \cup Faults
    [] toolchain = "missing"      -> {"not_found"} \cup (Faults \cap {"oserror"})

Probing == {r \in Requests : gate[r] = "probing"}

Idle == Probing = {}

(* The gate was already checked: the cached error decides.                 *)
UseCachedVerdict(r) ==
  /\ gate[r] = "new"
  /\ preflightChecked
  /\ Sequential => Idle
  /\ gate' = [gate EXCEPT ![r] = IF preflightError = "none"
                                 THEN "admitted" ELSE "refused"]
  /\ UNCHANGED <<toolchain, preflightChecked, preflightError, preflightTimedOut>>

(* Slip: the flag is set only when the subprocess has ended.               *)
MarkedLate == preflightChecked' = FALSE
MarkedFirst == preflightChecked' = TRUE

(* Slip: the verdict of an earlier probe is left standing.                 *)
VerdictKept == UNCHANGED <<preflightError, preflightTimedOut>>
VerdictReset == preflightError' = "none" /\ preflightTimedOut' = FALSE

(* The gate is marked as checked and its verdict reset before the version  *)
(* subprocess is started.                                                  *)
StartProbe(r) ==
  /\ gate[r] = "new"
  /\ ~preflightChecked
  /\ Sequential => Idle
  /\ MarkedFirst
  /\ VerdictReset
  /\ gate' = [gate EXCEPT ![r] = "probing"]
  /\ UNCHANGED toolchain

(* Slip: a version mismatch is refused but not stored.                     *)
MismatchForgotten(outcome) ==
  IF outcome \in {"ok", "version", "undecodable"} THEN preflightError ELSE outcome

(* What the end of a probe leaves in _preflight_error: success leaves it   *)
(* alone, and so does the exception that no handler names.                 *)
StoredError(outcome) ==
  IF outcome \in {"ok", "undecodable"} THEN preflightError ELSE outcome

(* Slip: a timeout is cached like any other failure.                       *)
CheckedStays(outcome) == preflightChecked
CheckedAfter(outcome) == IF outcome = "timeout" THEN FALSE ELSE preflightChecked

(* What the end of a probe means for the request that made it.             *)
GateAfter(outcome) ==
  CASE outcome = "ok"          -> "admitted"
    [] outcome = "undecodable" -> "raised"
    [] OTHER                   -> "refused"

(* The subprocess ended: a timeout clears the checked flag again, any      *)
(* other failure that is handled is kept.  The exception that is not       *)
(* leaves the flag set, and the error None.                                *)
ProbeReturns(r) ==
  /\ gate[r] = "probing"
  /\ \E outcome \in ProbeOutcomes :
       /\ preflightChecked' = CheckedAfter(outcome)
       /\ preflightTimedOut' = (preflightTimedOut \/ outcome = "timeout")
       /\ preflightError' = StoredError(outcome)
       /\ gate' = [gate EXCEPT ![r] = GateAfter(outcome)]
  /\ UNCHANGED toolchain

EnsureLeanCompatible(r) ==
  \/ UseCachedVerdict(r)
  \/ StartProbe(r)
  \/ ProbeReturns(r)

PreflightNext == \E r \in Requests : EnsureLeanCompatible(r)

PreflightSpec == PreflightInit /\ [][PreflightNext]_preflightVars

-----------------------------------------------------------------------------
(* However many threads call the gate, at most one version subprocess is   *)
(* in flight: the flag is set before the subprocess starts and cleared     *)
(* only when it has ended.                                                 *)
SingleProbe ==
  \A q, r \in Probing : q = r

(* A probe that timed out is never served from the cache, whoever comes    *)
(* next probes again; and _preflight_timed_out, which every refusal        *)
(* reports to its caller, says exactly whether the standing verdict is a   *)
(* timeout.                                                                *)
TimeoutNotCached ==
  /\ preflightError = "timeout" => ~preflightChecked
  /\ preflightTimedOut <=> preflightError = "timeout"

(* A working toolchain is not locked out: once no probe is in flight, a    *)
(* cached verdict about a compatible toolchain is acceptance.  (Comment at *)
(* the timeout branch: load-related failures must not poison the runner.)  *)
NotPoisoned ==
  (toolchain = "compatible" /\ preflightChecked /\ Idle)
    => preflightError = "none"

(* No request gets past the gate on a toolchain the gate exists to refuse. *)
(* (README: "The runner rejects versions below 4.22.0".)                   *)
AdmittedOnlyCompatible ==
  \A r \in Requests : gate[r] = "admitted" => toolchain = "compatible"

(* With one request at a time, the gate lets through what it exists to     *)
(* refuse only once some probe has raised instead of ending: whatever else *)
(* has failed, in whatever order, is refused or probed again.              *)
TightUntilException ==
  (\E r \in Requests : gate[r] = "raised") \/ AdmittedOnlyCompatible
=============================================================================
