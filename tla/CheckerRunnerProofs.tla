------------------------- MODULE CheckerRunnerProofs -------------------------
(***************************************************************************)
(* Proofs about the version gate, for any number of callers, and about the *)
(* request pipeline in front of which it stands, for any number of         *)
(* requests, any configuration and any mix of probe faults.                *)
(***************************************************************************)
EXTENDS CheckerRunner, FiniteSetTheorems, TLAPS

-----------------------------------------------------------------------------
(* The gate.                                                               *)

(* The inductive invariant.  A probe in flight pins the attributes to the  *)
(* values StartProbe gave them, so at its end they tell only its own story.*)
ProbePinsVerdict ==
  \A r \in Probing : /\ preflightChecked
                     /\ preflightError = "none"

(* Only a probe that raised can leave acceptance cached unearned.          *)
SomeRaised == \E r \in Requests : gate[r] = "raised"

CachedAcceptanceEarned ==
  (preflightChecked /\ Idle /\ preflightError = "none")
    => toolchain = "compatible" \/ SomeRaised

RaisedByFault == SomeRaised => "undecodable" \in Faults

PreflightInv ==
  /\ PreflightTypeOK
  /\ SingleProbe
  /\ ProbePinsVerdict
  /\ TimeoutNotCached
  /\ CachedAcceptanceEarned
  /\ RaisedByFault

(* Outcomes are errors, success or an exception, and what an outcome says  *)
(* of the toolchain.                                                       *)
LEMMA OutcomesTruthful ==
  ASSUME PreflightTypeOK, NEW outcome \in ProbeOutcomes
  PROVE  /\ outcome \in (Errors \ {"none"}) \cup {"ok", "undecodable"}
         /\ outcome = "ok" => toolchain = "compatible"
         /\ outcome = "undecodable" => "undecodable" \in Faults
         /\ (toolchain = "compatible" /\ Faults \subseteq {"timeout", "undecodable"})
              => outcome \in {"ok", "timeout", "undecodable"}
  BY PreflightAssumption
     DEF ProbeOutcomes, PreflightTypeOK, ToolchainKinds, FaultKinds, Errors

LEMMA PreflightInitInv == PreflightInit => PreflightInv
  BY PreflightAssumption
     DEF PreflightInit, PreflightInv, PreflightTypeOK, SingleProbe, Idle, Probing,
         ProbePinsVerdict, TimeoutNotCached, CachedAcceptanceEarned, Errors,
         GateStates, RaisedByFault, SomeRaised

LEMMA PreflightStepInv ==
  PreflightInv /\ [PreflightNext]_preflightVars => PreflightInv'
<1> SUFFICES ASSUME PreflightInv, [PreflightNext]_preflightVars
             PROVE  PreflightInv'
  OBVIOUS
<1> USE DEF PreflightInv, PreflightTypeOK, SingleProbe, Probing, Idle,
            ProbePinsVerdict, TimeoutNotCached, CachedAcceptanceEarned,
            RaisedByFault, SomeRaised
<1>1. ASSUME NEW r \in Requests, UseCachedVerdict(r)
      PROVE  PreflightInv'
  <2>1. Probing' = Probing
    BY <1>1 DEF UseCachedVerdict, GateStates
  <2>2. PreflightTypeOK'
    BY <1>1 DEF UseCachedVerdict, GateStates
  <2> QED
    BY <1>1, <2>1, <2>2 DEF UseCachedVerdict
<1>2. ASSUME NEW r \in Requests, StartProbe(r)
      PROVE  PreflightInv'
  <2>1. Probing = {} /\ Probing' = {r}
    BY <1>2 DEF StartProbe
  <2>2. PreflightTypeOK'
    BY <1>2 DEF StartProbe, MarkedFirst, VerdictReset, GateStates, Errors
  <2> QED
    BY <1>2, <2>1, <2>2 DEF StartProbe, MarkedFirst, VerdictReset
<1>3. ASSUME NEW r \in Requests, ProbeReturns(r)
      PROVE  PreflightInv'
  <2>1. PICK outcome \in ProbeOutcomes :
          /\ preflightChecked' = CheckedAfter(outcome)
          /\ preflightTimedOut' = (preflightTimedOut \/ outcome = "timeout")
          /\ preflightError' = StoredError(outcome)
          /\ gate' = [gate EXCEPT ![r] = GateAfter(outcome)]
    BY <1>3 DEF ProbeReturns
  <2>2. gate[r] = "probing" /\ toolchain' = toolchain
    BY <1>3 DEF ProbeReturns
  <2>3. preflightChecked /\ preflightError = "none" /\ ~preflightTimedOut
    BY <2>2
  <2>4. /\ GateAfter(outcome) \in {"admitted", "refused", "raised"}
        /\ Probing' = {}
    BY <2>1, <2>2 DEF GateAfter
  <2>6. /\ outcome = "ok" => toolchain = "compatible"
        /\ outcome \in (Errors \ {"none"}) \cup {"ok", "undecodable"}
        /\ outcome = "undecodable" => "undecodable" \in Faults
    BY OutcomesTruthful
  <2>5. PreflightTypeOK'
    BY <2>1, <2>2, <2>3, <2>4, <2>6 DEF CheckedAfter, StoredError, GateStates, Errors
  <2>7. TimeoutNotCached'
    <3>1. outcome = "timeout" => ~preflightChecked' /\ preflightTimedOut'
      BY Zenon, <2>1 DEF CheckedAfter
    <3>2. preflightTimedOut' => outcome = "timeout"
      BY Zenon, <2>1, <2>3
    <3>3. preflightError' = "timeout" <=> outcome = "timeout"
      BY <2>1, <2>3, <2>6 DEF StoredError
    <3> QED
      BY <3>1, <3>2, <3>3
  <2>8. CachedAcceptanceEarned'
    <3>1. preflightError' = "none" => outcome \in {"ok", "undecodable"}
      BY <2>1, <2>6 DEF StoredError
    <3>2. outcome = "undecodable" => gate'[r] = "raised"
      BY <2>1, <2>2 DEF GateAfter
    <3> QED
      BY <2>2, <2>6, <3>1, <3>2
  <2>9. RaisedByFault'
    <3>1. gate'[r] = "raised" => outcome = "undecodable"
      BY <2>1, <2>2 DEF GateAfter
    <3> QED
      BY <2>1, <2>6, <3>1
  <2> QED
    BY <2>4, <2>5, <2>7, <2>8, <2>9
<1>4. CASE UNCHANGED preflightVars
  BY <1>4 DEF preflightVars
<1> QED
  BY <1>1, <1>2, <1>3, <1>4 DEF PreflightNext, EnsureLeanCompatible

LEMMA PreflightInvariance == PreflightSpec => []PreflightInv
<1> QED
  BY PreflightInitInv, PreflightStepInv, PTL DEF PreflightSpec

(* The gate's attributes keep their types: __init__ and                    *)
(* _ensure_lean_compatible store nothing else in them.                     *)
THEOREM PreflightTypeCorrect == PreflightSpec => []PreflightTypeOK
  BY PreflightInvariance, PTL DEF PreflightInv

(* At most one `lean --version` of a runner is in flight, for any number   *)
(* of concurrent callers of _ensure_lean_compatible.                       *)
THEOREM OneProbeAtATime == PreflightSpec => []SingleProbe
  BY PreflightInvariance, PTL DEF PreflightInv

(* No caller is ever answered from a probe that timed out, and the timeout *)
(* flag always agrees with the standing verdict, also under concurrency.   *)
THEOREM TimeoutsAreRetried == PreflightSpec => []TimeoutNotCached
  BY PreflightInvariance, PTL DEF PreflightInv

-----------------------------------------------------------------------------
NeverCached == Faults \subseteq {"timeout", "undecodable"}

(* When the transient faults are timeouts and output that does not decode, *)
(* a working toolchain is never locked out by what _ensure_lean_compatible *)
(* caches.                                                                 *)
THEOREM WorkingToolchainNotPoisoned ==
  NeverCached => (PreflightSpec => []NotPoisoned)
<1> SUFFICES ASSUME NeverCached PROVE PreflightSpec => []NotPoisoned
  OBVIOUS
<1>1. PreflightInit => NotPoisoned
  BY DEF PreflightInit, NotPoisoned
<1>2. PreflightInv /\ NotPoisoned /\ [PreflightNext]_preflightVars => NotPoisoned'
  <2> SUFFICES ASSUME PreflightInv, NotPoisoned, [PreflightNext]_preflightVars
               PROVE  NotPoisoned'
    OBVIOUS
  <2> USE DEF NotPoisoned, Idle, Probing, PreflightInv, PreflightTypeOK
  <2>1. ASSUME NEW r \in Requests, UseCachedVerdict(r) PROVE NotPoisoned'
    BY <2>1 DEF UseCachedVerdict
  <2>2. ASSUME NEW r \in Requests, StartProbe(r) PROVE NotPoisoned'
    BY <2>2 DEF StartProbe, VerdictReset
  <2>3. ASSUME NEW r \in Requests, ProbeReturns(r) PROVE NotPoisoned'
    BY <2>3, OutcomesTruthful
       DEF ProbeReturns, CheckedAfter, StoredError, ProbePinsVerdict, NeverCached
  <2>4. CASE UNCHANGED preflightVars
    BY <2>4 DEF preflightVars
  <2> QED
    BY <2>1, <2>2, <2>3, <2>4 DEF PreflightNext, EnsureLeanCompatible
<1> QED
  BY <1>1, <1>2, PreflightInvariance, PTL DEF PreflightSpec

-----------------------------------------------------------------------------
LEMMA AdmissionStep ==
  ASSUME Sequential, PreflightInv, TightUntilException,
         [PreflightNext]_preflightVars
  PROVE  TightUntilException'
<1> USE DEF TightUntilException, AdmittedOnlyCompatible, PreflightInv, PreflightTypeOK
<1>1. ASSUME NEW r \in Requests, UseCachedVerdict(r) PROVE TightUntilException'
  BY <1>1 DEF UseCachedVerdict, CachedAcceptanceEarned, SomeRaised
<1>2. ASSUME NEW r \in Requests, StartProbe(r) PROVE TightUntilException'
  BY <1>2 DEF StartProbe
<1>3. ASSUME NEW r \in Requests, ProbeReturns(r) PROVE TightUntilException'
  BY <1>3, OutcomesTruthful DEF ProbeReturns, GateAfter
<1>4. CASE UNCHANGED preflightVars
  BY <1>4 DEF preflightVars
<1> QED
  BY <1>1, <1>2, <1>3, <1>4 DEF PreflightNext, EnsureLeanCompatible

(* With one caller at a time, no request runs Lean source on a toolchain   *)
(* older than the configured minimum (README: "The runner rejects versions *)
(* below 4.22.0"), until an exception that _ensure_lean_compatible does    *)
(* not handle has left its flag set.  (With concurrent callers, or after   *)
(* such an exception, it is false.)                                        *)
THEOREM SequentialGateIsTight ==
  Sequential => (PreflightSpec => []TightUntilException)
<1> SUFFICES ASSUME Sequential PROVE PreflightSpec => []TightUntilException
  OBVIOUS
<1>1. PreflightInit => TightUntilException
  BY DEF PreflightInit, TightUntilException, AdmittedOnlyCompatible
<1>2. PreflightInv /\ TightUntilException /\ [PreflightNext]_preflightVars
        => TightUntilException'
  BY AdmissionStep
<1> QED
  BY <1>1, <1>2, PreflightInvariance, PTL DEF PreflightSpec

Decodable == "undecodable" \notin Faults

(* Where the version output always decodes, the sequential gate lets       *)
(* nothing past that it exists to refuse.                                  *)
THEOREM DecodableGateIsTight ==
  Sequential /\ Decodable => (PreflightSpec => []AdmittedOnlyCompatible)
<1> SUFFICES ASSUME Sequential, Decodable PROVE PreflightSpec => []AdmittedOnlyCompatible
  OBVIOUS
<1>1. PreflightInv /\ TightUntilException => AdmittedOnlyCompatible
  BY DEF PreflightInv, RaisedByFault, SomeRaised, TightUntilException, Decodable
<1> QED
  BY <1>1, PreflightInvariance, SequentialGateIsTight, PTL

-----------------------------------------------------------------------------
(* The pipeline.                                                           *)

(* A request that has not reached the gate has not moved it, and one past  *)
(* the gate was admitted.                                                  *)
Running(r) == phase[r] \in CliModes \cup {"persistent"}

PastGateAdmitted ==
  \A r \in Requests : Running(r) => gate[r] = "admitted"

CountInv == IsFiniteSet(FellBack) /\ FallbackAccounted

RunnerInv ==
  /\ PreflightInv
  /\ RunnerTypeOK
  /\ PastGateAdmitted
  /\ SuccessConfirmedByCli

-----------------------------------------------------------------------------
(* Every step of the pipeline is a step of the gate or leaves it alone.    *)
LEMMA RunnerStepsGate ==
  [RunnerNext]_runnerVars => [PreflightNext]_preflightVars
  BY DEF RunnerNext, runnerVars, RejectSource, SanitizeSource, Proceed,
         PassGate, RunPersistent, RunLeanFile, RunLeanFileRaises, PreflightNext

LEMMA NoRunType == NoRun \in Results
  BY DEF NoRun, Results, CliModes, ReturnCodes, Outputs

LEMMA LeanFileResultTypes ==
  ASSUME NEW c \in Claims, NEW res \in LeanFileResults(c)
  PROVE  res \in Results /\ (res.success => res.returncode = "zero")
<1> USE DEF NoRun, Results, CliModes, ReturnCodes, Outputs
<1>1. RefutationsPossible(c) \subseteq Outputs
  BY DEF RefutationsPossible
<1>2. CASE res = [NoRun EXCEPT !.backendError = TRUE]
  BY <1>2
<1>3. ASSUME NEW x \in LeanExits(c), res = ExitResult(x)
      PROVE  res \in Results /\ (res.success => res.returncode = "zero")
  <2>1. x.returncode \in ReturnCodes /\ x.output \in Outputs
    BY <1>1 DEF LeanExits
  <2> QED
    BY <1>3, <2>1 DEF ExitResult
<1>4. ASSUME NEW o \in RefutationsPossible(c),
             res = [NoRun EXCEPT !.timedOut = TRUE, !.output = o]
      PROVE  res \in Results /\ (res.success => res.returncode = "zero")
  BY <1>1, <1>4
<1> QED
  BY <1>2, <1>3, <1>4 DEF LeanFileResults

LEMMA PersistentResultTypes ==
  ASSUME NEW c \in Claims, NEW res \in PersistentResults(c)
  PROVE  res \in Results /\ ~res.fallbackUsed
<1>1. RefutationsPossible(c) \subseteq Outputs
  BY DEF RefutationsPossible, Outputs
<1> QED
  BY <1>1 DEF PersistentResults, NoRun, Results, CliModes, ReturnCodes, Outputs

LEMMA RunnerInitInv == RunnerInit => RunnerInv /\ CountInv
<1> SUFFICES ASSUME RunnerInit PROVE RunnerInv /\ CountInv
  OBVIOUS
<1>1. PreflightInv
  BY PreflightInitInv DEF RunnerInit
<1>2. RunnerTypeOK
  BY <1>1, ConfigAssumption
     DEF RunnerInit, RunnerTypeOK, PreflightInv, Phases, NoRun, Results, CliModes,
         ReturnCodes, Outputs
<1>3. PastGateAdmitted /\ SuccessConfirmedByCli
  BY DEF RunnerInit, PastGateAdmitted, Running, CliModes, SuccessConfirmedByCli
<1>4. FellBack = {}
  BY DEF RunnerInit, FellBack
<1>5. CountInv
  BY <1>4, FS_EmptySet DEF CountInv, FallbackAccounted, RunnerInit
<1> QED
  BY <1>1, <1>2, <1>3, <1>5 DEF RunnerInv

-----------------------------------------------------------------------------
LEMMA RunnerStepInv ==
  RunnerInv /\ [RunnerNext]_runnerVars => RunnerInv'
<1> SUFFICES ASSUME RunnerInv, [RunnerNext]_runnerVars PROVE RunnerInv'
  OBVIOUS
<1> USE DEF RunnerInv
<1>1. PreflightInv' /\ PreflightTypeOK'
  BY RunnerStepsGate, PreflightStepInv DEF PreflightInv
<1> DEFINE RestInv == RunnerTypeOK' /\ PastGateAdmitted' /\ SuccessConfirmedByCli'
<1> USE DEF RunnerTypeOK, PastGateAdmitted, Running, SuccessConfirmedByCli
<1>0. ASSUME NEW r \in Requests, Raise(r)
      PROVE  /\ phase' \in [Requests -> Phases] /\ result' \in [Requests -> Results]
             /\ phase' = [phase EXCEPT ![r] = "raised"]
             /\ \A q \in Requests \ {r} : result'[q] = result[q]
  <2>1. PICK b \in BOOLEAN : result' = [result EXCEPT ![r].fallbackUsed = b]
    BY <1>0 DEF Raise
  <2>2. [result[r] EXCEPT !.fallbackUsed = b] \in Results
    BY DEF Results
  <2>3. result' = [result EXCEPT ![r] = [result[r] EXCEPT !.fallbackUsed = b]]
    BY <2>1
  <2>4. result' \in [Requests -> Results] /\ \A q \in Requests \ {r} : result'[q] = result[q]
    BY <2>2, <2>3
  <2> QED
    BY <1>0, <2>4 DEF Raise, Phases
<1>2. ASSUME NEW r \in Requests, RejectSource(r) PROVE RestInv
  BY <1>1, <1>2, NoRunType DEF RejectSource, Finish, preflightVars, Phases, CliModes, NoRun
<1>3. ASSUME NEW r \in Requests, SanitizeSource(r) PROVE RestInv
  BY <1>1, <1>3 DEF SanitizeSource, Goto, preflightVars, Phases, CliModes
<1>4. ASSUME NEW r \in Requests, PassGate(r) PROVE RestInv
  <2>1. /\ phase[r] = "gate"
        /\ EnsureLeanCompatible(r)
        /\ UNCHANGED <<config, claim, fallbackCount>>
    BY <1>4 DEF PassGate
  <2>2. \A q \in Requests \ {r} : gate'[q] = gate[q]
    BY <2>1 DEF EnsureLeanCompatible, UseCachedVerdict, StartProbe, ProbeReturns,
                PreflightTypeOK
  <2>3. CASE gate'[r] = "probing" /\ UNCHANGED <<phase, result>>
    BY <1>1, <2>1, <2>2, <2>3 DEF CliModes
  <2>4. CASE gate'[r] = "refused" /\ Finish(r, Refusal)
    <3>1. Refusal \in Results /\ ~Refusal.success
      BY <1>1 DEF Refusal, NoRun, Results, PreflightTypeOK, CliModes, ReturnCodes, Outputs
    <3> QED
      BY <1>1, <2>1, <2>2, <2>4, <3>1 DEF Finish, Phases, CliModes
  <2>5. CASE \E p \in {"oneshot_cli", "persistent"} : gate'[r] = "admitted" /\ Goto(r, p)
    BY <1>1, <2>1, <2>2, <2>5 DEF Goto, Phases, CliModes
  <2>6. CASE Raise(r)
    BY <1>0, <1>1, <2>1, <2>2, <2>6 DEF CliModes
  <2> QED
    BY <1>4, <2>3, <2>4, <2>5, <2>6 DEF PassGate
<1>5. ASSUME NEW r \in Requests, RunPersistent(r) PROVE RestInv
  <2>1. PICK res \in PersistentResults(claim[r]) :
          /\ IF AfterPersistent(res) = "done"
             THEN Finish(r, res) ELSE Goto(r, AfterPersistent(res))
          /\ fallbackCount' = IF AfterPersistent(res) = "oneshot_cli_fallback"
                              THEN fallbackCount + 1 ELSE fallbackCount
    BY <1>5 DEF RunPersistent
  <2>2. phase[r] = "persistent" /\ UNCHANGED <<preflightVars, config, claim>>
    BY <1>5 DEF RunPersistent
  <2>3. res \in Results
    BY PersistentResultTypes
  <2>4. AfterPersistent(res) \in CliModes \cup {"done"}
        /\ (AfterPersistent(res) = "done" => ~res.success)
    BY DEF AfterPersistent, CliModes
  <2>5. CASE AfterPersistent(res) = "done"
    BY <1>1, <2>1, <2>2, <2>3, <2>4, <2>5 DEF Finish, preflightVars, Phases, CliModes
  <2>6. CASE AfterPersistent(res) # "done"
    BY <1>1, <2>1, <2>2, <2>4, <2>6 DEF Goto, preflightVars, Phases, CliModes
  <2> QED
    BY <2>5, <2>6
<1>6. ASSUME NEW r \in Requests, RunLeanFile(r) PROVE RestInv
  <2>1. PICK res \in LeanFileResults(claim[r]) :
          Finish(r, [res EXCEPT !.mode = BackendMode(r),
                                !.fallbackUsed = phase[r] = "oneshot_cli_fallback"])
    BY <1>6 DEF RunLeanFile
  <2> DEFINE final == [res EXCEPT !.mode = BackendMode(r),
                                  !.fallbackUsed = phase[r] = "oneshot_cli_fallback"]
  <2>2. phase[r] \in CliModes /\ UNCHANGED <<preflightVars, config, claim, fallbackCount>>
    BY <1>6 DEF RunLeanFile
  <2>3. res \in Results /\ (res.success => res.returncode = "zero")
    BY LeanFileResultTypes
  <2>4. final \in Results /\ final.success = res.success
        /\ final.returncode = res.returncode /\ final.mode \in CliModes
    BY <2>2, <2>3 DEF Results, BackendMode
  <2> QED
    BY <1>1, <2>1, <2>2, <2>3, <2>4 DEF Finish, preflightVars, Phases, CliModes
<1>7. CASE UNCHANGED runnerVars
  BY <1>1, <1>7 DEF runnerVars, requestVars, preflightVars
<1>8. ASSUME NEW r \in Requests, RunLeanFileRaises(r) PROVE RestInv
  BY <1>0, <1>1, <1>8 DEF RunLeanFileRaises, preflightVars, CliModes
<1> QED
  BY <1>1, <1>2, <1>3, <1>4, <1>5, <1>6, <1>7, <1>8 DEF RunnerNext, Proceed

LEMMA RunnerInvariance == RunnerSpec => []RunnerInv
  BY RunnerInitInv, RunnerStepInv, PTL DEF RunnerSpec

(* A runner's requests, results and counters keep their types.             *)
THEOREM RunnerTypeCorrect == RunnerSpec => []RunnerTypeOK
  BY RunnerInvariance, PTL DEF RunnerInv

(* Whatever the toolchain, the configuration and the interleaving, no      *)
(* result of _run_checked_source is a success unless a CLI run of an       *)
(* admitted request exited 0.                                              *)
THEOREM WorkerSuccessNeverFinal == RunnerSpec => []SuccessConfirmedByCli
  BY RunnerInvariance, PTL DEF RunnerInv

-----------------------------------------------------------------------------
(* The pipeline keeps the promise when the gate is tight: requests come    *)
(* one at a time and no probe raises, or the executable is never an        *)
(* incompatible Lean.                                                      *)
GateTight == (Sequential /\ Decodable) \/ "incompatible" \notin Toolchains

TrustInv ==
  /\ RunnerInv
  /\ toolchain \in Toolchains
  /\ Sequential => TightUntilException

LEMMA TrustInvariance == RunnerSpec => []TrustInv
<1>1. RunnerInit => TrustInv
  BY RunnerInitInv
     DEF RunnerInit, PreflightInit, TrustInv, TightUntilException, AdmittedOnlyCompatible
<1>2. TrustInv /\ [RunnerNext]_runnerVars => TrustInv'
  <2> SUFFICES ASSUME TrustInv, [RunnerNext]_runnerVars PROVE TrustInv'
    OBVIOUS
  <2>1. RunnerInv' /\ [PreflightNext]_preflightVars
    BY RunnerStepInv, RunnerStepsGate DEF TrustInv
  <2>2. toolchain' = toolchain
    BY <2>1 DEF PreflightNext, EnsureLeanCompatible, UseCachedVerdict, StartProbe,
                ProbeReturns, preflightVars
  <2>3. Sequential => TightUntilException'
    BY <2>1, AdmissionStep DEF TrustInv, RunnerInv
  <2> QED
    BY <2>1, <2>2, <2>3 DEF TrustInv
<1> QED
  BY <1>1, <1>2, PTL DEF RunnerSpec

(* What a trusted process's result may be read as.                         *)
LEMMA ResultsPermitted ==
  ASSUME Trusted, NEW c \in Claims
  PROVE  /\ \A res \in LeanFileResults(c), m \in CliModes, f \in BOOLEAN :
              CheckerStatus([res EXCEPT !.mode = m, !.fallbackUsed = f])
                \in Promise!Permitted(c)
         /\ \A res \in PersistentResults(c) :
              ~res.success => CheckerStatus(res) \in Promise!Permitted(c)
<1> USE DEF Promise!Permitted, Trusted, RefutationsPossible, Claims
<1>1. ASSUME NEW res \in LeanFileResults(c), NEW m \in CliModes, NEW f \in BOOLEAN
      PROVE  CheckerStatus([res EXCEPT !.mode = m, !.fallbackUsed = f])
                \in Promise!Permitted(c)
  <2> DEFINE final == [res EXCEPT !.mode = m, !.fallbackUsed = f]
  <2>1. res \in Results
    BY LeanFileResultTypes
  <2>2. /\ final.returncode = res.returncode /\ final.output = res.output
        /\ Failed(final) = Failed(res) /\ final.success = res.success
    BY <2>1 DEF Results, Failed
  <2>3. CASE res = [NoRun EXCEPT !.backendError = TRUE]
    <3>1. Failed(res)
      BY <2>3 DEF NoRun, Failed
    <3> QED
      BY <2>2, <3>1 DEF CheckerStatus
  <2>4. ASSUME NEW x \in LeanExits(c), res = ExitResult(x)
        PROVE  CheckerStatus(final) \in Promise!Permitted(c)
    <3>1. /\ res.returncode = x.returncode /\ res.output = x.output
      BY <2>4 DEF ExitResult, NoRun
    <3>2. /\ x.returncode = "zero" => c = "true"
          /\ x.output = "refutation" => c = "false"
      BY DEF LeanExits
    <3> QED
      BY <2>2, <3>1, <3>2 DEF CheckerStatus
  <2>5. ASSUME NEW o \in RefutationsPossible(c),
               res = [NoRun EXCEPT !.timedOut = TRUE, !.output = o]
        PROVE  CheckerStatus(final) \in Promise!Permitted(c)
    <3>1. Failed(res)
      BY <2>5 DEF NoRun, Failed
    <3> QED
      BY <2>2, <3>1 DEF CheckerStatus
  <2> QED
    BY <2>3, <2>4, <2>5 DEF LeanFileResults
<1>2. ASSUME NEW res \in PersistentResults(c), ~res.success
      PROVE  CheckerStatus(res) \in Promise!Permitted(c)
  <2>1. res.output = "refutation" => c = "false"
    BY <1>2 DEF PersistentResults, NoRun
  <2> QED
    BY <1>2, <2>1 DEF CheckerStatus
<1> QED
  BY <1>1, <1>2

LEMMA RunnerStepsVerdict ==
  ASSUME GateTight, TrustInv, [RunnerNext]_runnerVars
  PROVE  [Promise!VerdictNext]_(Promise!verdictVars)
<1> USE DEF TrustInv, RunnerInv, RunnerTypeOK
<1> DEFINE Answers(r, v) == /\ Verdict[r] = "pending"
                            /\ Verdict' = [Verdict EXCEPT ![r] = v]
                            /\ v \in Promise!Permitted(claim[r])
                            /\ claim' = claim
           Silent == Verdict' = Verdict /\ claim' = claim
<1>1. ASSUME NEW r \in Requests, NEW v, Answers(r, v)
      PROVE  [Promise!VerdictNext]_(Promise!verdictVars)
  BY <1>1 DEF Promise!VerdictNext, Promise!Answer
<1>2. ASSUME Silent PROVE [Promise!VerdictNext]_(Promise!verdictVars)
  BY <1>2 DEF Promise!verdictVars
<1>3. ASSUME NEW r \in Requests, NEW res, Finish(r, res), phase[r] # "done",
             claim' = claim, CheckerStatus(res) \in Promise!Permitted(claim[r])
      PROVE  Answers(r, CheckerStatus(res))
  <2>1. \A q \in Requests : /\ phase'[q] = IF q = r THEN "done" ELSE phase[q]
                            /\ result'[q] = IF q = r THEN res ELSE result[q]
    BY <1>3 DEF Finish
  <2>2. \A q \in Requests : Verdict'[q] = IF q = r THEN CheckerStatus(res) ELSE Verdict[q]
    BY <1>3, <2>1 DEF Verdict, CheckerStatus, Failed
  <2> QED
    BY <1>3, <2>2 DEF Verdict
<1>4. ASSUME NEW r \in Requests, NEW p, Goto(r, p), p # "done", phase[r] # "done",
             claim' = claim
      PROVE  Silent
  <2>1. \A q \in Requests : phase'[q] = IF q = r THEN p ELSE phase[q]
    BY <1>4 DEF Goto
  <2>2. \A q \in Requests : Verdict'[q] = Verdict[q]
    BY <1>4, <2>1 DEF Verdict, Goto, CheckerStatus, Failed
  <2> QED
    BY <1>4, <2>2 DEF Verdict
<1>12. ASSUME NEW r \in Requests, Raise(r), phase[r] # "done", claim' = claim
       PROVE  Silent
  <2>1. \A q \in Requests : /\ phase'[q] = IF q = r THEN "raised" ELSE phase[q]
                            /\ q # r => result'[q] = result[q]
    BY <1>12 DEF Raise
  <2>2. \A q \in Requests : Verdict'[q] = Verdict[q]
    BY <1>12, <2>1 DEF Verdict, CheckerStatus, Failed
  <2> QED
    BY <1>12, <2>2 DEF Verdict
<1>5. \A r \in Requests : Running(r) => Trusted
  BY DEF PastGateAdmitted, AdmittedOnlyCompatible, TightUntilException, GateTight,
         Trusted, Decodable, PreflightInv, RaisedByFault, SomeRaised
<1>6. ASSUME NEW r \in Requests, RejectSource(r)
      PROVE  [Promise!VerdictNext]_(Promise!verdictVars)
  <2>1. CheckerStatus(NoRun) \in Promise!Permitted(claim[r])
    BY DEF CheckerStatus, NoRun, Failed, Promise!Permitted
  <2> QED
    BY <1>1, <1>3, <1>6, <2>1 DEF RejectSource
<1>7. ASSUME NEW r \in Requests, SanitizeSource(r)
      PROVE  [Promise!VerdictNext]_(Promise!verdictVars)
  BY <1>2, <1>4, <1>7 DEF SanitizeSource
<1>8. ASSUME NEW r \in Requests, PassGate(r)
      PROVE  [Promise!VerdictNext]_(Promise!verdictVars)
  <2>1. phase[r] = "gate" /\ claim' = claim
    BY <1>8 DEF PassGate
  <2>2. CheckerStatus(Refusal) \in Promise!Permitted(claim[r])
    BY DEF CheckerStatus, Refusal, NoRun, Failed, Promise!Permitted
  <2>3. CASE UNCHANGED <<phase, result>>
    BY <1>2, <2>1, <2>3 DEF Verdict, CheckerStatus, Failed
  <2>4. CASE Finish(r, Refusal)
    BY <1>1, <1>3, <2>1, <2>2, <2>4
  <2>5. CASE Goto(r, "oneshot_cli") \/ Goto(r, "persistent")
    BY <1>2, <1>4, <2>1, <2>5
  <2>6. CASE Raise(r)
    BY <1>2, <1>12, <2>1, <2>6
  <2> QED
    BY <1>8, <2>3, <2>4, <2>5, <2>6 DEF PassGate
<1>9. ASSUME NEW r \in Requests, RunPersistent(r)
      PROVE  [Promise!VerdictNext]_(Promise!verdictVars)
  <2>1. PICK res \in PersistentResults(claim[r]) :
          IF AfterPersistent(res) = "done"
            THEN Finish(r, res) ELSE Goto(r, AfterPersistent(res))
    BY <1>9 DEF RunPersistent
  <2>2. phase[r] = "persistent" /\ claim' = claim /\ claim[r] \in Claims
    BY <1>9 DEF RunPersistent
  <2>3. CASE AfterPersistent(res) = "done"
    <3>1. CheckerStatus(res) \in Promise!Permitted(claim[r])
      BY <1>5, <2>2, <2>3, ResultsPermitted DEF Running, AfterPersistent
    <3> QED
      BY <1>1, <1>3, <2>1, <2>2, <2>3, <3>1
  <2>4. CASE AfterPersistent(res) # "done"
    BY <1>2, <1>4, <2>1, <2>2, <2>4
  <2> QED
    BY <2>3, <2>4
<1>10. ASSUME NEW r \in Requests, RunLeanFile(r)
       PROVE  [Promise!VerdictNext]_(Promise!verdictVars)
  <2>1. PICK res \in LeanFileResults(claim[r]) :
          Finish(r, [res EXCEPT !.mode = BackendMode(r),
                                !.fallbackUsed = phase[r] = "oneshot_cli_fallback"])
    BY <1>10 DEF RunLeanFile
  <2>2. phase[r] \in CliModes /\ claim' = claim /\ claim[r] \in Claims
    BY <1>10 DEF RunLeanFile
  <2>3. CheckerStatus([res EXCEPT !.mode = BackendMode(r),
                                  !.fallbackUsed = phase[r] = "oneshot_cli_fallback"])
          \in Promise!Permitted(claim[r])
    BY <1>5, <2>2, ResultsPermitted DEF Running, BackendMode
  <2> QED
    BY <1>1, <1>3, <2>1, <2>2, <2>3 DEF CliModes
<1>11. CASE UNCHANGED runnerVars
  BY <1>2, <1>11 DEF runnerVars, requestVars, Verdict, CheckerStatus, Failed
<1>13. ASSUME NEW r \in Requests, RunLeanFileRaises(r)
       PROVE  [Promise!VerdictNext]_(Promise!verdictVars)
  BY <1>2, <1>12, <1>13 DEF RunLeanFileRaises, CliModes
<1> QED
  BY <1>6, <1>7, <1>8, <1>9, <1>10, <1>11, <1>13 DEF RunnerNext, Proceed

(* With a tight gate the pipeline of run_source and checker_status         *)
(* implements the abstract promise: no verdict is wrong, no request is     *)
(* answered twice, and failures decide nothing.                            *)
THEOREM PipelineKeepsPromise == GateTight => (RunnerSpec => VerdictsTrustworthy)
<1> SUFFICES ASSUME GateTight PROVE RunnerSpec => VerdictsTrustworthy
  OBVIOUS
<1>1. RunnerInit => Promise!VerdictInit
  BY DEF RunnerInit, Promise!VerdictInit, Verdict, Claims, Promise!Claims
<1>2. TrustInv /\ [RunnerNext]_runnerVars => [Promise!VerdictNext]_(Promise!verdictVars)
  BY RunnerStepsVerdict
<1> QED
  BY <1>1, <1>2, TrustInvariance, PTL
     DEF RunnerSpec, VerdictsTrustworthy, Promise!VerdictSafety

-----------------------------------------------------------------------------
LEMMA CountStepInv ==
  RunnerInv /\ CountInv /\ [RunnerNext]_runnerVars => CountInv'
<1> SUFFICES ASSUME RunnerInv, CountInv, [RunnerNext]_runnerVars PROVE CountInv'
  OBVIOUS
<1> USE DEF RunnerInv, RunnerTypeOK
<1>1. ASSUME FellBack' = FellBack, UNCHANGED <<config, fallbackCount>> PROVE CountInv'
  BY <1>1 DEF CountInv, FallbackAccounted
<1>2. ASSUME NEW r \in Requests, NEW res, Finish(r, res),
             res.fallbackUsed <=> phase[r] = "oneshot_cli_fallback",
             phase[r] \notin {"done", "raised"},
             UNCHANGED <<config, fallbackCount>>
      PROVE  CountInv'
  <2>1. FellBack' = FellBack
    BY <1>2 DEF Finish, FellBack
  <2> QED
    BY <1>1, <1>2, <2>1
<1>3. ASSUME NEW r \in Requests,
             NEW p \in Phases \ {"oneshot_cli_fallback", "done", "raised"},
             phase[r] \notin {"oneshot_cli_fallback", "done", "raised"}, Goto(r, p),
             UNCHANGED <<config, fallbackCount>>
      PROVE  CountInv'
  <2>1. FellBack' = FellBack
    BY <1>3 DEF Goto, FellBack
  <2> QED
    BY <1>1, <1>3, <2>1
<1>11. ASSUME NEW r \in Requests, Raise(r), phase[r] \notin {"done", "raised"},
              UNCHANGED <<config, fallbackCount>>
       PROVE  CountInv'
  <2>1. \A q \in Requests :
          /\ phase'[q] = IF q = r THEN "raised" ELSE phase[q]
          /\ q # r => result'[q] = result[q]
    BY <1>11 DEF Raise
  <2>2. result'[r].fallbackUsed <=> phase[r] = "oneshot_cli_fallback"
    BY <1>11 DEF Raise, Results
  <2>3. FellBack' = FellBack
    BY <1>11, <2>1, <2>2 DEF FellBack
  <2> QED
    BY <1>1, <1>11, <2>3
<1>4. ~NoRun.fallbackUsed /\ ~Refusal.fallbackUsed
  BY DEF NoRun, Refusal
<1>5. ASSUME NEW r \in Requests, RejectSource(r) PROVE CountInv'
  BY <1>2, <1>4, <1>5 DEF RejectSource
<1>6. ASSUME NEW r \in Requests, SanitizeSource(r) PROVE CountInv'
  BY <1>3, <1>6 DEF SanitizeSource, Phases, CliModes
<1>7. ASSUME NEW r \in Requests, PassGate(r) PROVE CountInv'
  <2>1. phase[r] = "gate" /\ UNCHANGED <<config, fallbackCount>>
    BY <1>7 DEF PassGate
  <2>2. CASE UNCHANGED <<phase, result>>
    BY <1>1, <2>1, <2>2 DEF FellBack
  <2>3. CASE Finish(r, Refusal)
    BY <1>2, <1>4, <2>1, <2>3
  <2>4. CASE Goto(r, "oneshot_cli") \/ Goto(r, "persistent")
    BY <1>3, <2>1, <2>4 DEF Phases, CliModes
  <2>5. CASE Raise(r)
    BY <1>11, <2>1, <2>5
  <2> QED
    BY <1>7, <2>2, <2>3, <2>4, <2>5 DEF PassGate
<1>8. ASSUME NEW r \in Requests, RunPersistent(r) PROVE CountInv'
  <2>1. PICK res \in PersistentResults(claim[r]) :
          /\ IF AfterPersistent(res) = "done"
             THEN Finish(r, res) ELSE Goto(r, AfterPersistent(res))
          /\ fallbackCount' = IF AfterPersistent(res) = "oneshot_cli_fallback"
                              THEN fallbackCount + 1 ELSE fallbackCount
    BY <1>8 DEF RunPersistent
  <2>2. phase[r] = "persistent" /\ config' = config
    BY <1>8 DEF RunPersistent
  <2>3. CASE AfterPersistent(res) = "done"
    BY <1>2, <2>1, <2>2, <2>3, PersistentResultTypes
  <2>4. CASE AfterPersistent(res) = "persistent_confirmed_cli"
    BY <1>3, <2>1, <2>2, <2>4 DEF Phases, CliModes
  <2>5. CASE AfterPersistent(res) = "oneshot_cli_fallback"
    <3>1. FellBack' = FellBack \cup {r} /\ r \notin FellBack
      BY <2>1, <2>2, <2>5 DEF Goto, FellBack
    <3>2. IsFiniteSet(FellBack') /\ Cardinality(FellBack') = Cardinality(FellBack) + 1
      BY <3>1, FS_AddElement DEF CountInv
    <3>3. config.fallback
      BY <2>5 DEF AfterPersistent
    <3> QED
      BY <2>1, <2>2, <2>5, <3>2, <3>3 DEF CountInv, FallbackAccounted
  <2> QED
    BY <2>3, <2>4, <2>5 DEF AfterPersistent
<1>9. ASSUME NEW r \in Requests, RunLeanFile(r) PROVE CountInv'
  <2>1. PICK res \in LeanFileResults(claim[r]) :
          Finish(r, [res EXCEPT !.mode = BackendMode(r),
                                !.fallbackUsed = phase[r] = "oneshot_cli_fallback"])
    BY <1>9 DEF RunLeanFile
  <2>2. phase[r] \in CliModes /\ UNCHANGED <<config, fallbackCount>>
    BY <1>9 DEF RunLeanFile
  <2>3. [res EXCEPT !.mode = BackendMode(r),
                    !.fallbackUsed = phase[r] = "oneshot_cli_fallback"].fallbackUsed
          <=> phase[r] = "oneshot_cli_fallback"
    <3>1. res \in Results
      BY <2>2, LeanFileResultTypes
    <3> QED
      BY <3>1 DEF Results
  <2> QED
    BY <1>2, <2>1, <2>2, <2>3 DEF CliModes
<1>10. CASE UNCHANGED runnerVars
  BY <1>1, <1>10 DEF runnerVars, requestVars, FellBack
<1>12. ASSUME NEW r \in Requests, RunLeanFileRaises(r) PROVE CountInv'
  BY <1>11, <1>12 DEF RunLeanFileRaises, CliModes
<1> QED
  BY <1>5, <1>6, <1>7, <1>8, <1>9, <1>10, <1>12 DEF RunnerNext, Proceed

(* _fallback_to_oneshot_count is the number of requests that fell back to  *)
(* the CLI, for any number of concurrent requests.                         *)
THEOREM FallbacksCountedOnce == RunnerSpec => []FallbackAccounted
<1>1. CountInv => FallbackAccounted
  BY DEF CountInv
<1> QED
  BY <1>1, RunnerInitInv, CountStepInv, RunnerInvariance, PTL DEF RunnerSpec
=============================================================================
