--------------------------- MODULE PersistentPool ---------------------------
(***************************************************************************)
(* The worker pool of LeanCheckerRunner: lazy creation, the semaphore in   *)
(* front of it, round-robin slots with a lock each, restarts within a      *)
(* budget, and close().  Each thread makes one request.                    *)
(*                                                                         *)
(* The pool list, the lock list and the semaphore are attributes that the  *)
(* code reads again at each use and replaces when it creates or closes a   *)
(* pool.  An incarnation of any of them is named by the thread that made   *)
(* it.  A step ends where the interpreter may switch threads: at a call.   *)
(***************************************************************************)
EXTENDS Naturals, FiniteSets

CONSTANTS
  Threads,
  Workers,        \* max(1, persistent_workers)
  RestartBudget,  \* persistent_restart_budget
  FirstUseAlone,  \* TRUE: no thread calls in while another creates the pool
  Closing,        \* when close() may be called: "never", "quiescent", "any"
  None

ASSUME PoolAssumption ==
  /\ Workers \in Nat \ {0}
  /\ RestartBudget \in Nat
  /\ FirstUseAlone \in BOOLEAN
  /\ Closing \in {"never", "quiescent", "any"}
  /\ None \notin Threads \cup (Threads \X (0 .. RestartBudget))

Slots    == 0 .. Workers - 1
Attempts == 0 .. RestartBudget
Backends == Threads \X Attempts   \* a worker object, by who made it and when

VARIABLES
  pool, locks, semaphore,  \* the incarnations the attributes name, or None
  slots,       \* per incarnation of the list: the worker in each slot
  holder,      \* per incarnation of the locks: who holds each
  permits,     \* per incarnation of the semaphore: what it has left
  rrIndex,     \* _persistent_pool_rr_index
  process,     \* per worker object: the state of its Lean process
  user,        \* per worker object: who is inside its run_source
  telemetry,   \* the runner's counters
  thread,      \* per thread: program counter, locals and outcome
  closer       \* the caller of close()

attributes == <<pool, locks, semaphore>>
waiting    == <<holder, permits, rrIndex>>
workers    == <<slots, process, user, telemetry>>
shared     == <<attributes, waiting, workers>>
poolVars   == <<shared, thread, closer>>

Creating == {"ensure", "create", "locks", "semaphore"}
InSlot   == {"look", "discard", "clear", "start", "ask", "asking", "retire", "vacate", "unlock"}
Permit   == {"choose", "take", "enter", "getlock", "wait", "release"} \cup InSlot

(* What a thread knows: its place, its locals and its outcome.             *)
Places   == {"idle", "check", "acquire", "done"} \cup Creating \cup Permit
Outcomes == {"none", "answer", "backend_error", "exception"}
Frames ==
  [pc : Places, sem : Threads \cup {None}, slot : Slots, lock : Threads \cup {None},
   attempt : Attempts, worker : Backends \cup {None}, outcome : Outcomes]

PoolTypeOK ==
  /\ {pool, locks, semaphore} \subseteq Threads \cup {None}
  /\ slots \in [Threads -> [Slots -> Backends \cup {None}]]
  /\ holder \in [Threads -> [Slots -> Threads \cup {None}]]
  /\ permits \in [Threads -> 0 .. Workers]
  /\ rrIndex \in Slots
  /\ process \in [Backends -> {"none", "alive", "dead"}]
  /\ user \in [Backends -> Threads \cup {None}]
  /\ telemetry \in [startups : Nat, restarts : Nat, requests : Nat, errors : Nat]
  /\ thread \in [Threads -> Frames]
  /\ closer \in [pc : {"idle", "read", "close", "done"}, pool : Threads \cup {None},
                 slot : 0 .. Workers, worker : Backends \cup {None}]

PoolInit ==
  /\ pool = None /\ locks = None /\ semaphore = None
  /\ slots = [g \in Threads |-> [s \in Slots |-> None]]
  /\ holder = [g \in Threads |-> [s \in Slots |-> None]]
  /\ permits = [g \in Threads |-> Workers]
  /\ rrIndex = 0
  /\ process = [b \in Backends |-> "none"]
  /\ user = [b \in Backends |-> None]
  /\ telemetry = [startups |-> 0, restarts |-> 0, requests |-> 0, errors |-> 0]
  /\ thread = [t \in Threads |-> [pc |-> "idle", sem |-> None, slot |-> 0, lock |-> None,
                                  attempt |-> 0, worker |-> None, outcome |-> "none"]]
  /\ closer = [pc |-> "idle", pool |-> None, slot |-> 0, worker |-> None]

At(t, pc)  == thread[t].pc = pc
Goto(t, pc) == thread' = [thread EXCEPT ![t].pc = pc]
End(t, pc, outcome) ==
  thread' = [thread EXCEPT ![t].pc = pc, ![t].outcome = outcome]

Quiescent == \A t \in Threads : thread[t].pc \in {"idle", "done"}

-----------------------------------------------------------------------------
(* The environment: a thread calls into the pool.                          *)
Call(t) ==
  /\ At(t, "idle")
  /\ FirstUseAlone => \A u \in Threads : thread[u].pc \notin Creating
  /\ Closing = "quiescent" => closer.pc \in {"idle", "done"}
  /\ Goto(t, "ensure")
  /\ UNCHANGED <<shared, closer>>

(* _ensure_persistent_pool: a check, then three assignments.               *)
EnsurePool(t) ==
  /\ At(t, "ensure")
  /\ Goto(t, IF pool = None THEN "create" ELSE "check")
  /\ UNCHANGED <<shared, closer>>

CreatePool(t) ==
  /\ At(t, "create")
  /\ pool' = t
  /\ Goto(t, "locks")
  /\ UNCHANGED <<waiting, workers, locks, semaphore, closer>>

CreateLocks(t) ==
  /\ At(t, "locks")
  /\ locks' = t
  /\ rrIndex' = 0
  /\ Goto(t, "semaphore")
  /\ UNCHANGED <<workers, pool, semaphore, holder, permits, closer>>

CreateSemaphore(t) ==
  /\ At(t, "semaphore")
  /\ semaphore' = t
  /\ Goto(t, "check")
  /\ UNCHANGED <<waiting, workers, pool, locks, closer>>

(* _run_persistent_backend: the semaphore is read here and acquired later. *)
CheckPool(t) ==
  /\ At(t, "check")
  /\ IF pool = None \/ semaphore = None
     THEN End(t, "done", "backend_error")
     ELSE thread' = [thread EXCEPT ![t].pc = "acquire", ![t].sem = semaphore]
  /\ UNCHANGED <<shared, closer>>

Acquire(t) ==
  /\ At(t, "acquire")
  /\ permits[thread[t].sem] > 0
  /\ permits' = [permits EXCEPT ![thread[t].sem] = @ - 1]
  /\ Goto(t, "choose")
  /\ UNCHANGED <<attributes, workers, holder, rrIndex, closer>>

QueueTimeout(t) ==
  /\ At(t, "acquire")
  /\ permits[thread[t].sem] = 0
  /\ End(t, "done", "backend_error")
  /\ UNCHANGED <<shared, closer>>

NextIndex == (rrIndex + 1) % Workers

(* _next_persistent_slot: the second read of the pool is after taking the  *)
(* dispatch lock, which serialises only this function.                     *)
ChooseSlot(t) ==
  /\ At(t, "choose")
  /\ IF pool = None
     THEN thread' = [thread EXCEPT ![t].pc = "enter", ![t].slot = 0]
     ELSE Goto(t, "take")
  /\ UNCHANGED <<shared, closer>>

TakeSlot(t) ==
  /\ At(t, "take")
  /\ IF pool = None
     THEN End(t, "release", "exception") /\ UNCHANGED rrIndex
     ELSE /\ thread' = [thread EXCEPT ![t].pc = "enter", ![t].slot = rrIndex]
          /\ rrIndex' = NextIndex
  /\ UNCHANGED <<attributes, workers, holder, permits, closer>>

-----------------------------------------------------------------------------
(* _run_persistent_backend_slot, up to its `with slot_lock`.               *)
EnterSlot(t) ==
  /\ At(t, "enter")
  /\ IF pool = None THEN End(t, "release", "backend_error") ELSE Goto(t, "getlock")
  /\ UNCHANGED <<shared, closer>>

GetLock(t) ==
  /\ At(t, "getlock")
  /\ IF locks = None
     THEN End(t, "release", "exception")
     ELSE thread' = [thread EXCEPT ![t].pc = "wait", ![t].lock = locks]
  /\ UNCHANGED <<shared, closer>>

LockHolder(t) == holder[thread[t].lock][thread[t].slot]

SetHolder(t, h) ==
  /\ holder' = [holder EXCEPT ![thread[t].lock][thread[t].slot] = h]
  /\ UNCHANGED <<attributes, workers, permits, rrIndex, closer>>

(* Slip: the slot is used without taking its lock.                         *)
WalkIn(t) ==
  /\ At(t, "wait")
  /\ SetHolder(t, t)
  /\ Goto(t, "look")

LockSlot(t) ==
  /\ At(t, "wait")
  /\ LockHolder(t) = None
  /\ SetHolder(t, t)
  /\ Goto(t, "look")

(* Slip: the slot's lock is not given back.                                *)
KeepLock(t) ==
  /\ At(t, "unlock")
  /\ Goto(t, "release")
  /\ UNCHANGED <<shared, closer>>

Unlock(t) ==
  /\ At(t, "unlock")
  /\ SetHolder(t, None)
  /\ Goto(t, "release")

Counted(what) == telemetry' = [telemetry EXCEPT ![what] = @ + 1]

(* The loop body reads its slot; a worker without a live process counts as *)
(* a restart and is discarded.                                             *)
Look(t) ==
  /\ At(t, "look")
  /\ IF pool = None
     THEN End(t, "unlock", "exception") /\ UNCHANGED telemetry
     ELSE LET b == slots[pool][thread[t].slot]
          IN  \/ b = None /\ Goto(t, "start") /\ UNCHANGED telemetry
              \/ /\ b # None /\ process[b] = "alive"
                 /\ thread' = [thread EXCEPT ![t].pc = "ask", ![t].worker = b]
                 /\ UNCHANGED telemetry
              \/ /\ b # None /\ process[b] # "alive"
                 /\ thread' = [thread EXCEPT ![t].pc = "discard", ![t].worker = b]
                 /\ Counted("restarts")
  /\ UNCHANGED <<attributes, waiting, slots, process, user, closer>>

(* Slip: a worker is dropped from its slot without being closed.           *)
ForgetWorker(t) ==
  /\ thread[t].pc \in {"discard", "retire"}
  /\ Goto(t, IF At(t, "discard") THEN "clear" ELSE "vacate")
  /\ UNCHANGED <<shared, closer>>

(* backend.close() waits for whoever is inside the worker's run_source.    *)
CloseWorker(t) ==
  /\ thread[t].pc \in {"discard", "retire"}
  /\ user[thread[t].worker] = None
  /\ process' = [process EXCEPT ![thread[t].worker] = "none"]
  /\ Goto(t, IF At(t, "discard") THEN "clear" ELSE "vacate")
  /\ UNCHANGED <<attributes, waiting, slots, user, telemetry, closer>>

(* The slot is emptied: of a dead worker in the same attempt, of a worker  *)
(* that failed for the next attempt.                                       *)
ClearSlot(t) ==
  /\ thread[t].pc \in {"clear", "vacate"}
  /\ IF pool = None
     THEN End(t, "unlock", "exception") /\ UNCHANGED slots
     ELSE /\ slots' = [slots EXCEPT ![pool][thread[t].slot] = None]
          /\ thread' = [thread EXCEPT
               ![t].pc = IF At(t, "clear") THEN "start" ELSE "look",
               ![t].attempt = IF At(t, "clear") THEN @ ELSE @ + 1,
               ![t].worker = None]
  /\ UNCHANGED <<attributes, waiting, process, user, telemetry, closer>>

StartWorker(t) ==
  /\ At(t, "start")
  /\ IF pool = None
     THEN End(t, "unlock", "exception") /\ UNCHANGED <<slots, telemetry>>
     ELSE LET b == <<t, thread[t].attempt>>
          IN  /\ slots' = [slots EXCEPT ![pool][thread[t].slot] = b]
              /\ thread' = [thread EXCEPT ![t].pc = "ask", ![t].worker = b]
              /\ Counted("startups")
  /\ UNCHANGED <<attributes, waiting, process, user, closer>>

(* run_source of the worker begins: one caller at a time.                  *)
Ask(t) ==
  /\ At(t, "ask")
  /\ user[thread[t].worker] = None
  /\ user' = [user EXCEPT ![thread[t].worker] = t]
  /\ Counted("requests")
  /\ Goto(t, "asking")
  /\ UNCHANGED <<attributes, waiting, slots, process, closer>>

(* It ends with an answer, with a live process whatever there was before;  *)
(* a timeout is an answer to the pool.                                     *)
Answered(t) ==
  /\ At(t, "asking")
  /\ process' = [process EXCEPT ![thread[t].worker] = "alive"]
  /\ user' = [user EXCEPT ![thread[t].worker] = None]
  /\ End(t, "unlock", "answer")
  /\ UNCHANGED <<attributes, waiting, slots, telemetry, closer>>

LastAttempt(t) == thread[t].attempt = RestartBudget

AlwaysRestart(t) == 1   \* slip: the last failure also counts as a restart
RestartsAfter(t) == IF LastAttempt(t) THEN 0 ELSE 1

(* Or with an error, after shutting its process down.  If the budget has   *)
(* an attempt left, whatever worker the slot holds by now is retired.      *)
Erred(t) ==
  /\ At(t, "asking")
  /\ process' = [process EXCEPT ![thread[t].worker] = "none"]
  /\ user' = [user EXCEPT ![thread[t].worker] = None]
  /\ telemetry' = [telemetry EXCEPT !.errors = @ + 1, !.restarts = @ + RestartsAfter(t)]
  /\ IF LastAttempt(t) THEN End(t, "unlock", "backend_error")
     ELSE IF pool = None THEN End(t, "unlock", "exception")
     ELSE LET current == slots[pool][thread[t].slot]
          IN  thread' = [thread EXCEPT
                ![t].pc = IF current = None THEN "vacate" ELSE "retire",
                ![t].worker = current,
                ![t].outcome = "backend_error"]
  /\ UNCHANGED <<attributes, waiting, slots, closer>>

(* Slip: the permit is only given back by a request that was answered.     *)
ReleaseIfAnswered(t) ==
  /\ At(t, "release")
  /\ permits' = [permits EXCEPT ![semaphore] =
                   IF thread[t].outcome = "answer" THEN @ + 1 ELSE @]
  /\ Goto(t, "done")
  /\ UNCHANGED <<attributes, workers, holder, rrIndex, closer>>

(* finally: the attribute is read again; without a semaphore there is no   *)
(* release(), and a BoundedSemaphore refuses one permit too many.          *)
Release(t) ==
  /\ At(t, "release")
  /\ IF semaphore = None \/ (semaphore # None /\ permits[semaphore] = Workers)
     THEN End(t, "done", "exception") /\ UNCHANGED permits
     ELSE permits' = [permits EXCEPT ![semaphore] = @ + 1] /\ Goto(t, "done")
  /\ UNCHANGED <<attributes, workers, holder, rrIndex, closer>>

-----------------------------------------------------------------------------
(* A Lean process dies.                                                    *)
Crash(b) ==
  /\ process[b] = "alive"
  /\ process' = [process EXCEPT ![b] = "dead"]
  /\ UNCHANGED <<attributes, waiting, slots, user, telemetry, thread, closer>>

(* close(): each worker of the list it found, then the attributes.         *)
StartClose ==
  /\ closer.pc = "idle"
  /\ Closing # "never"
  /\ Closing = "quiescent" => Quiescent
  /\ IF pool = None
     THEN /\ closer' = [closer EXCEPT !.pc = "done"]
          /\ locks' = None /\ semaphore' = None
     ELSE /\ closer' = [closer EXCEPT !.pc = "read", !.pool = pool, !.slot = 0]
          /\ UNCHANGED <<locks, semaphore>>
  /\ UNCHANGED <<waiting, workers, pool, thread>>

CloserReads ==
  /\ closer.pc = "read"
  /\ closer.slot < Workers
  /\ LET b == slots[closer.pool][closer.slot]
     IN  closer' = IF b = None THEN [closer EXCEPT !.slot = @ + 1]
                   ELSE [closer EXCEPT !.pc = "close", !.worker = b]
  /\ UNCHANGED <<shared, thread>>

CloserCloses ==
  /\ closer.pc = "close"
  /\ user[closer.worker] = None
  /\ process' = [process EXCEPT ![closer.worker] = "none"]
  /\ closer' = [closer EXCEPT !.pc = "read", !.slot = @ + 1, !.worker = None]
  /\ UNCHANGED <<attributes, waiting, slots, user, telemetry, thread>>

(* Slip: only the locks are dropped.                                       *)
PoolKept    == locks' = None /\ UNCHANGED <<pool, semaphore>>
PoolDropped == pool' = None /\ locks' = None /\ semaphore' = None

DropPool ==
  /\ closer.pc = "read"
  /\ closer.slot = Workers
  /\ PoolDropped
  /\ closer' = [closer EXCEPT !.pc = "done", !.pool = None]
  /\ UNCHANGED <<waiting, workers, thread>>

Close == StartClose \/ CloserReads \/ CloserCloses \/ DropPool

-----------------------------------------------------------------------------
Serve(t) ==
  \/ EnsurePool(t) \/ CreatePool(t) \/ CreateLocks(t) \/ CreateSemaphore(t)
  \/ CheckPool(t) \/ Acquire(t) \/ QueueTimeout(t) \/ ChooseSlot(t) \/ TakeSlot(t)
  \/ EnterSlot(t) \/ GetLock(t) \/ LockSlot(t) \/ Look(t) \/ CloseWorker(t)
  \/ ClearSlot(t) \/ StartWorker(t) \/ Ask(t) \/ Answered(t) \/ Erred(t)
  \/ Unlock(t) \/ Release(t)

PoolNext ==
  \/ \E t \in Threads : Call(t) \/ Serve(t)
  \/ \E b \in Backends : Crash(b)
  \/ Close

PoolSpec == PoolInit /\ [][PoolNext]_poolVars

(* A thread that can go on does so, and a worker answers or fails by its   *)
(* own deadline.  Nothing is assumed of the order in which a lock or the   *)
(* semaphore serves its waiters.                                           *)
FairPoolSpec == PoolSpec /\ \A t \in Threads : WF_poolVars(Serve(t))

-----------------------------------------------------------------------------
(* No two requests are at the same worker, however slots, restarts and     *)
(* round robin interleave.                                                 *)
WorkerExclusive ==
  \A t, u \in Threads :
    /\ thread[t].pc \in InSlot \ {"unlock"}
    /\ thread[u].pc \in InSlot \ {"unlock"}
    /\ thread[t].worker = thread[u].worker
    /\ thread[t].worker # None
    => t = u

(* No permit is lost or invented: what the semaphore has left and what the *)
(* requests hold add up to the number of workers.                          *)
Holding == {t \in Threads : thread[t].pc \in Permit}
PermitsConserved ==
  semaphore # None =>
    permits[semaphore] + Cardinality(Holding) = Workers

(* A request ends with a result, never with an exception out of the pool.  *)
NoException == \A t \in Threads : thread[t].outcome # "exception"

(* Every live Lean process belongs to a worker in the current pool, or to  *)
(* one a thread is about to put down; none is left that close() misses.    *)
NoWorkerOrphaned ==
  \A b \in Backends : process[b] # "none" =>
    \/ pool # None /\ \E s \in Slots : slots[pool][s] = b
    \/ user[b] # None
    \/ closer.pc # "done" /\ closer.pool # None

(* The counters tell the truth: until the pool is dropped every start is a *)
(* filled slot or a restart, and every request to a worker failed, was     *)
(* answered or is under way.                                               *)
Vacating == {t \in Threads : thread[t].pc \in {"discard", "clear", "retire", "vacate"}}
TelemetryBalanced ==
  /\ closer.pc # "done" =>
       telemetry.startups + Cardinality(Vacating)
         = telemetry.restarts + Cardinality({s \in Slots : pool # None /\ slots[pool][s] # None})
  /\ telemetry.requests = telemetry.errors + Cardinality(
       {t \in Threads : thread[t].pc = "asking" \/ thread[t].outcome = "answer"})

(* Every call returns: neither the queue, nor a slot's lock, nor a worker's*)
(* lock is waited for in vain.                                             *)
EveryCallReturns ==
  \A t \in Threads : thread[t].pc # "idle" ~> thread[t].pc = "done"
=============================================================================
