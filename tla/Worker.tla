------------------------------- MODULE Worker -------------------------------
(***************************************************************************)
(* What the pool relies on of one worker.  A request ends with an answer   *)
(* (diagnostics, or that time is up), which leaves a Lean process behind,  *)
(* or with an error, which leaves none.  Between requests the process      *)
(* changes only by dying or by close(), and no request is cut short by     *)
(* either.  PersistentPool uses its workers by these actions (Ask,         *)
(* Answered, Erred, Crash, CloseWorker); LspBackend implements them.       *)
(***************************************************************************)
VARIABLES
  serving,  \* a request is inside the worker
  process,  \* "none", "alive" or "dead"
  outcome   \* of the last request: "none", "answer" or "error"

workerVars == <<serving, process, outcome>>

WorkerInit == serving = FALSE /\ process = "none" /\ outcome = "none"

Begin ==
  /\ ~serving
  /\ serving' = TRUE /\ outcome' = "none"
  /\ UNCHANGED process

(* A worker without a live process gets one for the request.               *)
Spawn ==
  /\ serving
  /\ process # "alive" /\ process' = "alive"
  /\ UNCHANGED <<serving, outcome>>

Answer ==
  /\ serving
  /\ process # "none" /\ UNCHANGED process
  /\ serving' = FALSE /\ outcome' = "answer"

Fail ==
  /\ serving
  /\ process' = "none"
  /\ serving' = FALSE /\ outcome' = "error"

Die ==
  /\ process = "alive" /\ process' = "dead"
  /\ UNCHANGED <<serving, outcome>>

Close ==
  /\ ~serving
  /\ process' = "none"
  /\ UNCHANGED <<serving, outcome>>

WorkerNext == Begin \/ Spawn \/ Answer \/ Fail \/ Die \/ Close
WorkerSpec == WorkerInit /\ [][WorkerNext]_workerVars
=============================================================================
