--------------------------- MODULE MCCheckerRunner ---------------------------
(* Small instances of the request pipeline.                                *)
EXTENDS CheckerRunner, TLC

CONSTANTS r1, r2, r3

ThreeRequests   == {r1, r2, r3}
ThreeSymmetry   == Permutations(ThreeRequests)
MCConfigs       == ConfigKinds
MCPersistent    == [mode : {"persistent_server"}, fallback : BOOLEAN]
MCToolchains    == ToolchainKinds
MCDecodable     == FaultKinds \ {"undecodable"}
MCTransient     == {"timeout", "undecodable"}
MCUsable        == {"compatible", "missing"}

(* One request after another, in one run: through the pipeline, with the   *)
(* faults of a probe that the gate handles, or through the gate alone,     *)
(* with every fault.                                                       *)
Gate == INSTANCE Preflight WITH Sequential <- TRUE, Toolchains <- ToolchainKinds, Faults <- FaultKinds

AtGateAlone(r) == phase[r] = "gate alone"

GateAloneInit ==
  /\ Gate!PreflightInit
  /\ config \in {c \in Configs : c.mode = "auto" /\ c.fallback}
  /\ claim = [r \in Requests |-> "broken"]
  /\ phase = [r \in Requests |-> "gate alone"]
  /\ result = [r \in Requests |-> NoRun]
  /\ fallbackCount = 0

OneByOneInit == RunnerInit \/ GateAloneInit
OneByOneNext ==
  \/ RunnerNext
  \/ \E r \in Requests : AtGateAlone(r) /\ Gate!EnsureLeanCompatible(r) /\ UNCHANGED requestVars
OneByOneSpec == OneByOneInit /\ [][OneByOneNext]_runnerVars
=============================================================================
