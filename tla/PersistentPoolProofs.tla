------------------------ MODULE PersistentPoolProofs ------------------------
(***************************************************************************)
(* Proofs about the worker pool, for any number of threads, workers and    *)
(* restarts.  Typing holds of the pool as it is.  What it promises holds   *)
(* when its first use is not concurrent and close() is not called under    *)
(* requests: the pool is calm.  Without either, NoException is refuted by  *)
(* the code.                                                               *)
(***************************************************************************)
EXTENDS PersistentPool, FiniteSetTheorems, TLAPS

Calm == FirstUseAlone /\ Closing # "any"

(* Typing needs two facts about control: only an attempt that is not the   *)
(* last retires a worker, and a closer that runs has found a pool.         *)
TypeInv ==
  /\ PoolTypeOK
  /\ \A t \in Threads :
       thread[t].pc \in {"retire", "vacate"} => thread[t].attempt < RestartBudget
  /\ closer.pc \in {"read", "close"} => closer.pool # None
  /\ closer.pc = "close" => closer.slot < Workers

-----------------------------------------------------------------------------
(* Creation.  One thread creates at a time, and while it does nobody is    *)
(* past the check; otherwise the three attributes name one incarnation or  *)
(* nothing.                                                                *)
Making    == {"create", "locks", "semaphore"}
Inside(t) == thread[t].pc \in {"check", "acquire"} \cup Permit

Cold == pool = None /\ locks = None /\ semaphore = None
Warm == pool # None /\ locks = pool /\ semaphore = pool

CreationInv ==
  /\ \A t, u \in Threads :
       thread[t].pc \in Creating /\ thread[u].pc \in Creating => t = u
  /\ \A t \in Threads :
       /\ At(t, "create") => Cold
       /\ At(t, "locks") => pool = t /\ locks = None /\ semaphore = None
       /\ At(t, "semaphore") => pool = t /\ locks = t /\ semaphore = None
       /\ Inside(t) => Warm
  /\ (\A t \in Threads : thread[t].pc \notin Making) => Cold \/ Warm
  /\ closer.pc \in {"read", "close"} =>
       Closing = "quiescent" /\ Quiescent /\ Warm /\ closer.pool = pool

(* A thread that has not finished creating has an unused incarnation.      *)
Unused(t) ==
  /\ slots[t] = [s \in Slots |-> None]
  /\ holder[t] = [s \in Slots |-> None]
  /\ permits[t] = Workers
FreshInv ==
  \A t \in Threads :
    /\ thread[t].pc \in {"idle"} \cup Creating => Unused(t)
    /\ thread[t].pc \in {"idle", "ensure", "create"} => t \notin {pool, locks, semaphore}

-----------------------------------------------------------------------------
(* Slots.  A request in a slot holds its lock, and knows what is in it.    *)
BeforeWorker == {"idle", "check", "acquire", "choose", "take", "enter", "getlock",
                 "wait", "look", "start"} \cup Creating
WithWorker   == {"ask", "asking", "discard", "clear", "retire", "vacate"}
Started      == {"ask", "asking", "retire", "vacate", "unlock", "release", "done"}

Local(t) ==
  /\ At(t, "acquire") => thread[t].sem = semaphore
  /\ thread[t].pc \in {"wait"} \cup InSlot => thread[t].lock = locks
  /\ thread[t].pc \in InSlot => holder[locks][thread[t].slot] = t
  /\ thread[t].pc \in BeforeWorker => thread[t].worker = None
  /\ At(t, "start") => slots[pool][thread[t].slot] = None
  /\ thread[t].pc \in WithWorker =>
       thread[t].worker # None /\ slots[pool][thread[t].slot] = thread[t].worker
  /\ thread[t].outcome # "exception"
  /\ thread[t].outcome = "answer" => thread[t].pc \in {"unlock", "release", "done"}
LocalInv == \A t \in Threads : Local(t)

(* Workers.  A worker is named for the attempt that started it, so a new   *)
(* one is in no slot; no worker is in two.                                 *)
SlotInv ==
  /\ \A g, t \in Threads : \A s \in Slots : \A a \in Attempts :
       slots[g][s] = <<t, a>> =>
         a < thread[t].attempt \/ (a = thread[t].attempt /\ thread[t].pc \in Started)
  /\ \A g \in Threads : \A s, r \in Slots :
       slots[g][s] = slots[g][r] /\ slots[g][s] # None => s = r

(* Processes.  Only a worker in its slot has one; a worker that is put     *)
(* down has none, nor has one the closer has passed.                       *)
UserInv ==
  \A b \in Backends : \A t \in Threads :
    user[b] = t <=> At(t, "asking") /\ thread[t].worker = b
PutDownInv ==
  \A t \in Threads :
    thread[t].pc \in {"clear", "vacate"} => process[thread[t].worker] = "none"
OwnedInv ==
  \A b \in Backends : process[b] # "none" =>
    pool # None /\ \E s \in Slots : slots[pool][s] = b
CloserInv ==
  /\ closer.pc \in {"read", "close"} =>
       \A s \in Slots : s < closer.slot /\ slots[pool][s] # None => process[slots[pool][s]] = "none"
  /\ closer.pc = "close" => closer.worker # None /\ slots[pool][closer.slot] = closer.worker
ProcessInv == UserInv /\ PutDownInv /\ OwnedInv /\ CloserInv

Filled  == {s \in Slots : pool # None /\ slots[pool][s] # None}
Engaged == {t \in Threads : thread[t].pc = "asking" \/ thread[t].outcome = "answer"}

-----------------------------------------------------------------------------
(* What a step does to the frame of its thread.                            *)
LEMMA GotoTyped ==
  ASSUME thread \in [Threads -> Frames], NEW t \in Threads, NEW x \in Places, Goto(t, x)
  PROVE  thread' \in [Threads -> Frames]
  BY DEF Goto, Frames

LEMMA EndTyped ==
  ASSUME thread \in [Threads -> Frames], NEW t \in Threads,
         NEW x \in Places, NEW o \in Outcomes, End(t, x, o)
  PROVE  thread' \in [Threads -> Frames]
  BY DEF End, Frames

LEMMA SemTyped ==
  ASSUME thread \in [Threads -> Frames], NEW t \in Threads,
         NEW x \in Places, NEW g \in Threads \cup {None},
         thread' = [thread EXCEPT ![t].pc = x, ![t].sem = g]
  PROVE  thread' \in [Threads -> Frames]
  BY DEF Frames

LEMMA WorkerTyped ==
  ASSUME thread \in [Threads -> Frames], NEW t \in Threads,
         NEW x \in Places, NEW b \in Backends \cup {None},
         thread' = [thread EXCEPT ![t].pc = x, ![t].worker = b]
  PROVE  thread' \in [Threads -> Frames]
  BY DEF Frames

LEMMA FramesPreserved ==
  ASSUME TypeInv, NEW t \in Threads, Call(t) \/ Serve(t)
  PROVE  thread' \in [Threads -> Frames]
<1>0. thread \in [Threads -> Frames] /\ thread[t] \in Frames
  BY DEF TypeInv, PoolTypeOK
<1>1. {pool, locks, semaphore} \subseteq Threads \cup {None}
  BY DEF TypeInv, PoolTypeOK
<1>2. ASSUME NEW g \in Threads, NEW s \in Slots PROVE slots[g][s] \in Backends \cup {None}
  BY DEF TypeInv, PoolTypeOK
<1>3. 0 \in Slots /\ rrIndex \in Slots
  BY PoolAssumption DEF TypeInv, PoolTypeOK, Slots
<1> USE <1>0 DEF Places, Outcomes, Creating, Permit, InSlot
<1>4. CASE Call(t)
  BY <1>4, GotoTyped, EndTyped DEF Call
<1>5. CASE EnsurePool(t)
  BY <1>5, GotoTyped, EndTyped DEF EnsurePool
<1>6. CASE CreatePool(t)
  BY <1>6, GotoTyped, EndTyped DEF CreatePool
<1>7. CASE CreateLocks(t)
  BY <1>7, GotoTyped, EndTyped DEF CreateLocks
<1>8. CASE CreateSemaphore(t)
  BY <1>8, GotoTyped, EndTyped DEF CreateSemaphore
<1>9. CASE CheckPool(t)
  BY <1>9, <1>1, SemTyped, EndTyped DEF CheckPool
<1>10. CASE Acquire(t)
  BY <1>10, GotoTyped, EndTyped DEF Acquire
<1>11. CASE QueueTimeout(t)
  BY <1>11, GotoTyped, EndTyped DEF QueueTimeout
<1>12. CASE ChooseSlot(t)
  BY <1>12, <1>3, GotoTyped, EndTyped DEF ChooseSlot, Frames
<1>13. CASE TakeSlot(t)
  BY <1>13, <1>3, GotoTyped, EndTyped DEF TakeSlot, Frames
<1>14. CASE EnterSlot(t)
  BY <1>14, GotoTyped, EndTyped DEF EnterSlot
<1>15. CASE GetLock(t)
  BY <1>15, <1>1, EndTyped DEF GetLock, Frames
<1>16. CASE LockSlot(t)
  BY <1>16, GotoTyped, EndTyped DEF LockSlot
<1>17. CASE Look(t)
  <2>1. CASE pool = None
    BY <1>17, <2>1, EndTyped DEF Look
  <2>2. CASE pool # None
    <3>1. slots[pool][thread[t].slot] \in Backends \cup {None}
      BY <2>2, <1>1, <1>2 DEF Frames
    <3> QED
      BY <1>17, <2>2, <3>1, WorkerTyped, GotoTyped DEF Look
  <2> QED
    BY <2>1, <2>2
<1>18. CASE CloseWorker(t)
  BY <1>18, GotoTyped, EndTyped DEF CloseWorker
<1>19. CASE ClearSlot(t)
  <2>1. CASE pool = None
    BY <1>19, <2>1, EndTyped DEF ClearSlot
  <2>2. CASE pool # None /\ At(t, "clear")
    <3>1. thread' = [thread EXCEPT ![t].pc = "start", ![t].attempt = @, ![t].worker = None]
      BY <1>19, <2>2 DEF ClearSlot
    <3> QED
      BY <3>1 DEF Frames
  <2>3. CASE pool # None /\ ~At(t, "clear")
    <3>1. thread[t].attempt + 1 \in Attempts
      BY <1>19, <2>3, PoolAssumption DEF ClearSlot, TypeInv, Frames, Attempts, At
    <3>2. thread' = [thread EXCEPT ![t].pc = "look", ![t].attempt = thread[t].attempt + 1,
                                   ![t].worker = None]
      BY <1>19, <2>3 DEF ClearSlot, Frames
    <3> QED
      BY <3>1, <3>2 DEF Frames
  <2> QED
    BY <2>1, <2>2, <2>3
<1>20. CASE StartWorker(t)
  <2>1. CASE pool = None
    BY <1>20, <2>1, EndTyped DEF StartWorker
  <2>2. CASE pool # None
    <3>1. <<t, thread[t].attempt>> \in Backends
      BY DEF Frames, Backends
    <3> QED
      BY <1>20, <2>2, <3>1 DEF StartWorker, Frames
  <2> QED
    BY <2>1, <2>2
<1>21. CASE Ask(t)
  BY <1>21, GotoTyped, EndTyped DEF Ask
<1>22. CASE Answered(t)
  BY <1>22, GotoTyped, EndTyped DEF Answered
<1>23. CASE Erred(t)
  <2>1. CASE LastAttempt(t) \/ pool = None
    BY <1>23, <2>1, EndTyped DEF Erred
  <2>2. CASE ~LastAttempt(t) /\ pool # None
    <3>1. slots[pool][thread[t].slot] \in Backends \cup {None}
      BY <2>2, <1>1, <1>2 DEF Frames
    <3> QED
      BY <1>23, <2>2, <3>1 DEF Erred, Frames
  <2> QED
    BY <2>1, <2>2
<1>24. CASE Unlock(t)
  BY <1>24, GotoTyped, EndTyped DEF Unlock
<1>25. CASE Release(t)
  BY <1>25, GotoTyped, EndTyped DEF Release
<1> QED
  BY <1>4, <1>5, <1>6, <1>7, <1>8, <1>9, <1>10, <1>11, <1>12, <1>13, <1>14, <1>15, <1>16, <1>17, <1>18, <1>19, <1>20, <1>21, <1>22, <1>23, <1>24, <1>25 DEF Serve

(* Which steps of a thread write which variable.                           *)
LEMMA Writers ==
  ASSUME NEW t \in Threads, Call(t) \/ Serve(t)
  PROVE  /\ UNCHANGED closer
         /\ UNCHANGED attributes \/ CreatePool(t) \/ CreateLocks(t) \/ CreateSemaphore(t)
         /\ UNCHANGED slots \/ ClearSlot(t) \/ StartWorker(t)
         /\ UNCHANGED holder \/ LockSlot(t) \/ Unlock(t)
         /\ UNCHANGED permits \/ Acquire(t) \/ Release(t)
         /\ UNCHANGED rrIndex \/ CreateLocks(t) \/ TakeSlot(t)
         /\ UNCHANGED process \/ CloseWorker(t) \/ Answered(t) \/ Erred(t)
         /\ UNCHANGED user \/ Ask(t) \/ Answered(t) \/ Erred(t)
         /\ UNCHANGED telemetry \/ Look(t) \/ StartWorker(t) \/ Ask(t) \/ Erred(t)
  BY DEF Call, Serve, EnsurePool, CreatePool, CreateLocks, CreateSemaphore, CheckPool,
     Acquire, QueueTimeout, ChooseSlot, TakeSlot, EnterSlot, GetLock, LockSlot, Look,
     CloseWorker, ClearSlot, StartWorker, Ask, Answered, Erred, Unlock, Release, SetHolder,
     shared, attributes, waiting, workers

(* A step of a thread changes no other thread's frame.                     *)
LEMMA OthersStay ==
  ASSUME thread \in [Threads -> Frames], NEW t \in Threads, Call(t) \/ Serve(t)
  PROVE  \A u \in Threads \ {t} : thread'[u] = thread[u]
  BY DEF Call, Serve, EnsurePool, CreatePool, CreateLocks, CreateSemaphore, CheckPool,
     Acquire, QueueTimeout, ChooseSlot, TakeSlot, EnterSlot, GetLock, LockSlot, Look,
     CloseWorker, ClearSlot, StartWorker, Ask, Answered, Erred, Unlock, Release, Goto, End

-----------------------------------------------------------------------------
(* Typing.                                                                 *)
LEMMA TypeInitially == PoolInit => TypeInv
<1> SUFFICES ASSUME PoolInit PROVE TypeInv
  OBVIOUS
<1>1. 0 \in Slots /\ 0 \in Attempts /\ Workers \in 0 .. Workers /\ 0 \in 0 .. Workers
  BY PoolAssumption DEF Slots, Attempts
<1>2. thread \in [Threads -> Frames]
  BY <1>1 DEF PoolInit, Frames, Places, Outcomes
<1> QED
  BY <1>1, <1>2 DEF PoolInit, TypeInv, PoolTypeOK

(* The counters only grow.                                                 *)
LEMMA TelemetryTyped ==
  ASSUME TypeInv, NEW t \in Threads, Call(t) \/ Serve(t)
  PROVE  telemetry' \in [startups : Nat, restarts : Nat, requests : Nat, errors : Nat]
<1>1. telemetry \in [startups : Nat, restarts : Nat, requests : Nat, errors : Nat]
  BY DEF TypeInv, PoolTypeOK
<1>2. CASE UNCHANGED telemetry
  BY <1>1, <1>2
<1>3. CASE Look(t) \/ StartWorker(t) \/ Ask(t)
  BY <1>1, <1>3 DEF Look, StartWorker, Ask, Counted
<1>4. CASE Erred(t)
  <2>1. telemetry.errors + 1 \in Nat /\ telemetry.restarts + RestartsAfter(t) \in Nat
    BY <1>1 DEF RestartsAfter
  <2>2. telemetry' = [telemetry EXCEPT !.errors = telemetry.errors + 1,
                                       !.restarts = telemetry.restarts + RestartsAfter(t)]
    BY <1>1, <1>4 DEF Erred
  <2> QED
    BY <1>1, <2>1, <2>2
<1> QED
  BY <1>2, <1>3, <1>4, Writers

LEMMA ThreadTyped ==
  ASSUME TypeInv, NEW t \in Threads, Call(t) \/ Serve(t)
  PROVE  TypeInv'
<1>0. PoolTypeOK /\ thread[t] \in Frames
  BY DEF TypeInv, PoolTypeOK
<1>1. thread' \in [Threads -> Frames]
  BY FramesPreserved
<1>2. {pool', locks', semaphore'} \subseteq Threads \cup {None}
  BY <1>0, Writers DEF PoolTypeOK, CreatePool, CreateLocks, CreateSemaphore, attributes
<1>3. slots' \in [Threads -> [Slots -> Backends \cup {None}]]
  <2>1. slots \in [Threads -> [Slots -> Backends \cup {None}]]
    BY <1>0 DEF PoolTypeOK
  <2>2. <<t, thread[t].attempt>> \in Backends /\ None \in Backends \cup {None}
    BY <1>0 DEF Frames, Backends
  <2>3. CASE ClearSlot(t)
    BY <2>1, <2>2, <2>3 DEF ClearSlot
  <2>4. CASE StartWorker(t)
    <3>1. slots' = slots \/ slots' = [slots EXCEPT ![pool][thread[t].slot] = <<t, thread[t].attempt>>]
      BY <2>4 DEF StartWorker
    <3> QED
      <4>1. CASE pool \in Threads
        <5>1. slots[pool] \in [Slots -> Backends \cup {None}]
          BY <2>1, <4>1
        <5>2. [slots[pool] EXCEPT ![thread[t].slot] = <<t, thread[t].attempt>>] \in [Slots -> Backends \cup {None}]
          BY <2>2, <5>1
        <5> QED
          BY <2>1, <3>1, <5>2, <4>1
      <4>2. CASE pool \notin Threads
        BY <2>1, <3>1, <4>2
      <4> QED
        BY <4>1, <4>2
  <2> QED
    BY <2>1, <2>3, <2>4, Writers
<1>4. holder' \in [Threads -> [Slots -> Threads \cup {None}]]
  <2>1. holder \in [Threads -> [Slots -> Threads \cup {None}]]
    BY <1>0 DEF PoolTypeOK
  <2>2. ASSUME NEW h \in Threads \cup {None}, SetHolder(t, h)
        PROVE  holder' \in [Threads -> [Slots -> Threads \cup {None}]]
    BY <2>1, <2>2 DEF SetHolder
  <2> QED
    BY <2>1, <2>2, Writers DEF LockSlot, Unlock
<1>5. permits' \in [Threads -> 0 .. Workers]
  <2>1. permits \in [Threads -> 0 .. Workers] /\ semaphore \in Threads \cup {None}
    BY <1>0 DEF PoolTypeOK
  <2>2. CASE UNCHANGED permits
    BY <2>1, <2>2
  <2>3. CASE Acquire(t)
    <3>1. \A n \in 0 .. Workers : n > 0 => n - 1 \in 0 .. Workers
      BY PoolAssumption
    <3> QED
      BY <2>1, <2>3, <3>1 DEF Acquire
  <2>4. CASE Release(t)
    BY <2>1, <2>4, PoolAssumption DEF Release
  <2> QED
    BY <2>2, <2>3, <2>4, Writers
<1>6. rrIndex' \in Slots
  <2>1. rrIndex \in Slots /\ 0 \in Slots
    BY <1>0, PoolAssumption DEF PoolTypeOK, Slots
  <2>2. NextIndex \in Slots
    BY <2>1, PoolAssumption DEF NextIndex, Slots
  <2> QED
    BY <2>1, <2>2, Writers DEF CreateLocks, TakeSlot
<1>7. process' \in [Backends -> {"none", "alive", "dead"}]
  BY <1>0, Writers DEF PoolTypeOK, CloseWorker, Answered, Erred
<1>8. user' \in [Backends -> Threads \cup {None}]
  <2>1. user' = user \/ \E w \in {t, None} : user' = [user EXCEPT ![thread[t].worker] = w]
    BY Writers DEF Ask, Answered, Erred
  <2> QED
    BY <1>0, <2>1 DEF PoolTypeOK
<1>9. ASSUME NEW u \in Threads, thread'[u].pc \in {"retire", "vacate"}
      PROVE  thread'[u].attempt < RestartBudget
  <2>1. CASE u # t
    BY <1>0, <1>9, <2>1, OthersStay DEF TypeInv, PoolTypeOK
  <2>2. CASE u = t /\ ~Erred(t)
    <3>1. thread \in [Threads -> Frames]
      BY <1>0 DEF PoolTypeOK
    <3>2. CloseWorker(t)
      BY <3>1, <1>9, <2>2 DEF Frames, Call, Serve, EnsurePool, CreatePool, CreateLocks,
         CreateSemaphore, CheckPool, Acquire, QueueTimeout, ChooseSlot, TakeSlot, EnterSlot,
         GetLock, LockSlot, Look, ClearSlot, StartWorker, Ask, Answered, Unlock,
         Release, Goto, End
    <3>3. At(t, "retire")
      BY <3>1, <3>2, <1>9, <2>2 DEF Frames, CloseWorker, Goto, At
    <3> QED
      BY <3>1, <3>2, <3>3, <2>2 DEF TypeInv, Frames, CloseWorker, Goto, At
  <2>3. CASE u = t /\ Erred(t)
    <3>1. thread[t].attempt \in Attempts
      BY <1>0 DEF Frames
    <3>2. thread'[t].attempt = thread[t].attempt /\ ~LastAttempt(t)
      <4>1. thread \in [Threads -> Frames]
        BY <1>0 DEF PoolTypeOK
      <4> QED
        BY <4>1, <1>9, <2>3 DEF Frames, Erred, End
    <3> QED
      BY <2>3, <3>1, <3>2, PoolAssumption DEF Attempts, LastAttempt
  <2> QED
    BY <2>1, <2>2, <2>3
<1>10. UNCHANGED closer
  BY Writers
<1> QED
  BY <1>0, <1>1, <1>2, <1>3, <1>4, <1>5, <1>6, <1>7, <1>8, <1>9, <1>10, TelemetryTyped
     DEF TypeInv, PoolTypeOK

LEMMA TypePreserved == TypeInv /\ [PoolNext]_poolVars => TypeInv'
<1> SUFFICES ASSUME TypeInv, [PoolNext]_poolVars PROVE TypeInv'
  OBVIOUS
<1>1. ASSUME NEW t \in Threads, Call(t) \/ Serve(t) PROVE TypeInv'
  BY <1>1, ThreadTyped
<1>2. ASSUME NEW b \in Backends, Crash(b) PROVE TypeInv'
  <2>1. process' \in [Backends -> {"none", "alive", "dead"}]
    BY <1>2 DEF TypeInv, PoolTypeOK, Crash
  <2> QED
    BY <1>2, <2>1 DEF TypeInv, PoolTypeOK, Crash, attributes, waiting
<1>3. CASE Close
  <2>1. /\ {pool', locks', semaphore'} \subseteq Threads \cup {None}
        /\ process' \in [Backends -> {"none", "alive", "dead"}]
    BY <1>3 DEF TypeInv, PoolTypeOK, Close, StartClose, CloserReads, CloserCloses, DropPool,
       PoolDropped, shared, attributes, workers
  <2>2. /\ closer \in [pc : {"idle", "read", "close", "done"}, pool : Threads \cup {None},
                       slot : 0 .. Workers, worker : Backends \cup {None}]
        /\ pool \in Threads \cup {None}
    BY DEF TypeInv, PoolTypeOK
  <2>3. ASSUME NEW g \in Threads, NEW s \in Slots PROVE slots[g][s] \in Backends \cup {None}
    BY DEF TypeInv, PoolTypeOK
  <2>4. /\ closer' \in [pc : {"idle", "read", "close", "done"}, pool : Threads \cup {None},
                        slot : 0 .. Workers, worker : Backends \cup {None}]
        /\ closer'.pc \in {"read", "close"} => closer'.pool # None
        /\ closer'.pc = "close" => closer'.slot < Workers
    <3>1. CASE StartClose
      <4>1. 0 \in 0 .. Workers
        BY PoolAssumption
      <4> QED
        BY <2>2, <3>1, <4>1 DEF StartClose
    <3>2. CASE CloserReads
      <4>1. closer.pool \in Threads /\ closer.slot \in Slots
        BY <2>2, <3>2, PoolAssumption DEF CloserReads, TypeInv, Slots
      <4>2. closer.slot + 1 \in 0 .. Workers
        BY <4>1, PoolAssumption DEF Slots
      <4> QED
        BY <2>2, <2>3, <3>2, <4>1, <4>2 DEF CloserReads, TypeInv
    <3>3. CASE CloserCloses
      <4>1. closer.slot + 1 \in 0 .. Workers
        BY <2>2, <3>3, PoolAssumption DEF CloserCloses, TypeInv
      <4>2. closer' = [closer EXCEPT !.pc = "read", !.slot = closer.slot + 1, !.worker = None]
        BY <2>2, <3>3 DEF CloserCloses
      <4> QED
        BY <2>2, <3>3, <4>1, <4>2 DEF CloserCloses, TypeInv
    <3>4. CASE DropPool
      BY <2>2, <3>4 DEF DropPool
    <3> QED
      BY <1>3, <3>1, <3>2, <3>3, <3>4 DEF Close
  <2> QED
    BY <1>3, <2>1, <2>4 DEF TypeInv, PoolTypeOK, Close, StartClose, CloserReads, CloserCloses,
       DropPool, shared, waiting, workers
<1>4. CASE UNCHANGED poolVars
  BY <1>4 DEF TypeInv, PoolTypeOK, poolVars, shared, attributes, waiting, workers
<1> QED
  BY <1>1, <1>2, <1>3, <1>4 DEF PoolNext

(* The pool is well typed whatever its threads and its closer do.          *)
THEOREM PoolTypeCorrect == PoolSpec => []PoolTypeOK
<1>1. TypeInv => PoolTypeOK
  BY DEF TypeInv
<1> QED
  BY <1>1, TypeInitially, TypePreserved, PTL DEF PoolSpec

-----------------------------------------------------------------------------
(* Creation.                                                               *)
LEMMA CreationThread ==
  ASSUME Calm, TypeInv, CreationInv, NEW t \in Threads, Call(t) \/ Serve(t)
  PROVE  CreationInv'
<1>0. thread \in [Threads -> Frames]
  BY DEF TypeInv, PoolTypeOK
<1>1. None \notin Threads /\ t # None
  BY PoolAssumption
<1> USE <1>0 DEF CreationInv, Calm, Cold, Warm, Inside, Making, Quiescent, attributes, waiting, workers,
      shared, Creating, InSlot, Permit, At, Goto, End, Frames
<1>2. CASE Call(t)
  BY <1>2 DEF Call
<1>3. CASE EnsurePool(t)
  BY <1>3 DEF EnsurePool
<1>4. CASE CreatePool(t)
  BY <1>4 DEF CreatePool
<1>5. CASE CreateLocks(t)
  BY <1>5 DEF CreateLocks
<1>6. CASE CreateSemaphore(t)
  BY <1>6, <1>1 DEF CreateSemaphore
<1>7. CASE CheckPool(t)
  BY <1>7 DEF CheckPool
<1>8. CASE Acquire(t)
  BY <1>8 DEF Acquire
<1>9. CASE QueueTimeout(t)
  BY <1>9 DEF QueueTimeout
<1>10. CASE ChooseSlot(t)
  BY <1>10 DEF ChooseSlot
<1>11. CASE TakeSlot(t)
  BY <1>11 DEF TakeSlot
<1>12. CASE EnterSlot(t)
  BY <1>12 DEF EnterSlot
<1>13. CASE GetLock(t)
  BY <1>13 DEF GetLock
<1>14. CASE LockSlot(t)
  BY <1>14 DEF LockSlot, SetHolder
<1>15. CASE Look(t)
  <2>1. PICK x \in {"unlock", "start", "ask", "discard"} :
          /\ thread'[t].pc = x
          /\ \A u \in Threads \ {t} : thread'[u] = thread[u]
    BY <1>15 DEF Look
  <2> QED
    BY <1>15, <2>1 DEF Look
<1>16. CASE CloseWorker(t)
  BY <1>16 DEF CloseWorker
<1>17. CASE ClearSlot(t)
  BY <1>17 DEF ClearSlot
<1>18. CASE StartWorker(t)
  BY <1>18 DEF StartWorker
<1>19. CASE Ask(t)
  BY <1>19 DEF Ask
<1>20. CASE Answered(t)
  BY <1>20 DEF Answered
<1>21. CASE Erred(t)
  BY <1>21 DEF Erred
<1>22. CASE Unlock(t)
  BY <1>22 DEF Unlock, SetHolder
<1>23. CASE Release(t)
  BY <1>23 DEF Release
<1> QED
  BY <1>2, <1>3, <1>4, <1>5, <1>6, <1>7, <1>8, <1>9, <1>10, <1>11, <1>12, <1>13, <1>14, <1>15, <1>16, <1>17, <1>18, <1>19, <1>20, <1>21, <1>22, <1>23 DEF Serve

LEMMA CreationPreserved == Calm /\ TypeInv /\ CreationInv /\ [PoolNext]_poolVars => CreationInv'
<1> SUFFICES ASSUME Calm, TypeInv, CreationInv, [PoolNext]_poolVars PROVE CreationInv'
  OBVIOUS
<1>0. closer \in [pc : {"idle", "read", "close", "done"}, pool : Threads \cup {None},
                  slot : 0 .. Workers, worker : Backends \cup {None}]
  BY DEF TypeInv, PoolTypeOK
<1>1. ASSUME NEW t \in Threads, Call(t) \/ Serve(t) PROVE CreationInv'
  BY <1>1, CreationThread
<1> USE DEF CreationInv, Calm, Cold, Warm, Inside, Making, Quiescent, attributes, waiting, workers,
      shared, Creating, InSlot, Permit, At
<1>2. ASSUME NEW b \in Backends, Crash(b) PROVE CreationInv'
  BY <1>2 DEF Crash
<1>3. CASE StartClose
  BY <1>0, <1>3, PoolAssumption DEF StartClose
<1>4. CASE CloserReads
  BY <1>0, <1>4 DEF CloserReads
<1>5. CASE CloserCloses
  BY <1>0, <1>5 DEF CloserCloses
<1>6. CASE DropPool
  BY <1>0, <1>6 DEF DropPool, PoolDropped
<1>7. CASE UNCHANGED poolVars
  BY <1>7 DEF poolVars
<1> QED
  BY <1>1, <1>2, <1>3, <1>4, <1>5, <1>6, <1>7 DEF PoolNext, Close

-----------------------------------------------------------------------------
(* The attributes stay while a request is past the check.                  *)
LEMMA AttributesStay ==
  ASSUME TypeInv, CreationInv, NEW t \in Threads, NEW u \in Threads, Inside(u),
         Call(t) \/ Serve(t)
  PROVE  UNCHANGED attributes /\ Warm
<1>1. Warm
  BY DEF CreationInv
<1>2. ~CreatePool(t) /\ ~CreateLocks(t) /\ ~CreateSemaphore(t)
  BY <1>1 DEF CreationInv, CreatePool, CreateLocks, CreateSemaphore, Cold, Warm, At
<1> QED
  BY <1>1, <1>2, Writers

(* Whoever reads or writes the pool's parts does so in one incarnation.    *)
LEMMA LockExclusive ==
  ASSUME LocalInv, NEW t \in Threads, NEW u \in Threads,
         thread[t].pc \in InSlot, thread[u].pc \in InSlot, thread[t].slot = thread[u].slot
  PROVE  t = u
  BY DEF LocalInv, Local

(* What a request knows of its slot stays true while another takes a step. *)
LEMMA SlotStays ==
  ASSUME TypeInv, CreationInv, LocalInv, NEW t \in Threads, NEW u \in Threads, u # t,
         thread[u].pc \in InSlot, Call(t) \/ Serve(t)
  PROVE  /\ holder'[locks][thread[u].slot] = holder[locks][thread[u].slot]
         /\ slots'[pool][thread[u].slot] = slots[pool][thread[u].slot]
<1>1. thread \in [Threads -> Frames] /\ Inside(u)
  BY DEF TypeInv, PoolTypeOK, Inside, Permit
<1>2. Warm /\ pool \in Threads
  BY <1>1 DEF CreationInv, Warm, TypeInv, PoolTypeOK
<1>3. slots \in [Threads -> [Slots -> Backends \cup {None}]]
  BY DEF TypeInv, PoolTypeOK
<1>4. holder \in [Threads -> [Slots -> Threads \cup {None}]]
  BY DEF TypeInv, PoolTypeOK
<1>5. thread[t].slot \in Slots /\ thread[u].slot \in Slots
  BY <1>1 DEF Frames
<1>6. holder[locks][thread[u].slot] = u /\ u # None
  BY PoolAssumption DEF LocalInv, Local
<1>7. CASE ClearSlot(t) \/ StartWorker(t)
  <2>1. thread[t].slot # thread[u].slot
    BY <1>7, LockExclusive DEF ClearSlot, StartWorker, At, InSlot
  <2> QED
    BY <1>2, <1>3, <1>5, <1>7, <2>1 DEF ClearSlot, StartWorker, waiting
<1>8. CASE LockSlot(t)
  <2>1. thread[t].lock = locks
    BY <1>8 DEF LocalInv, Local, LockSlot, At
  <2>2. thread[t].slot # thread[u].slot
    BY <1>6, <1>8, <2>1 DEF LockSlot, LockHolder
  <2> QED
    BY <1>2, <1>4, <1>5, <1>8, <2>1, <2>2 DEF LockSlot, SetHolder, workers, Warm
<1>9. CASE Unlock(t)
  <2>1. thread[t].lock = locks /\ thread[t].pc \in InSlot
    BY <1>9 DEF LocalInv, Local, Unlock, At, InSlot
  <2>2. thread[t].slot # thread[u].slot
    BY <2>1, LockExclusive
  <2> QED
    BY <1>2, <1>4, <1>5, <1>9, <2>1, <2>2 DEF Unlock, SetHolder, workers, Warm
<1> QED
  BY <1>7, <1>8, <1>9, Writers

LEMMA LocalOther ==
  ASSUME TypeInv, CreationInv, LocalInv, NEW t \in Threads, NEW u \in Threads, u # t,
         Call(t) \/ Serve(t)
  PROVE  Local(u)'
<1>1. thread'[u] = thread[u] /\ Local(u)
  BY OthersStay DEF TypeInv, PoolTypeOK, LocalInv
<1>2. CASE thread[u].pc \notin {"acquire", "wait"} \cup InSlot
  BY <1>1, <1>2 DEF Local, At, InSlot, WithWorker
<1>3. CASE thread[u].pc \in {"acquire", "wait"}
  <2>1. UNCHANGED attributes
    BY <1>3, AttributesStay DEF Inside, Permit
  <2> QED
    BY <1>1, <1>3, <2>1 DEF Local, At, attributes, InSlot, WithWorker
<1>4. CASE thread[u].pc \in InSlot
  <2>1. UNCHANGED attributes
    BY <1>4, AttributesStay DEF Inside, Permit
  <2> QED
    BY <1>1, <1>4, <2>1, SlotStays DEF Local, At, attributes
<1> QED
  BY <1>2, <1>3, <1>4

LEMMA LocalSelf ==
  ASSUME TypeInv, CreationInv, LocalInv, NEW t \in Threads, Call(t) \/ Serve(t),
         At(t, "release") => permits[semaphore] # Workers
  PROVE  Local(t)'
<1>1. thread \in [Threads -> Frames] /\ Local(t)
  BY DEF TypeInv, PoolTypeOK, LocalInv
<1>2. thread[t].slot \in Slots
  BY <1>1 DEF Frames
<1>3. slots \in [Threads -> [Slots -> Backends \cup {None}]]
  BY DEF TypeInv, PoolTypeOK
<1>4. holder \in [Threads -> [Slots -> Threads \cup {None}]]
  BY DEF TypeInv, PoolTypeOK
<1>5. Inside(t) => Warm /\ pool \in Threads
  BY DEF CreationInv, TypeInv, PoolTypeOK, Warm
<1>6. None \notin Threads /\ None \notin Backends
  BY PoolAssumption DEF Backends, Attempts
<1> USE <1>1 DEF Local, Inside, Warm, BeforeWorker, WithWorker, Creating, InSlot, Permit, At,
      Goto, End, Frames
<1>7. CASE Call(t)
  BY <1>7 DEF Call, shared, attributes, waiting, workers
<1>8. CASE EnsurePool(t)
  BY <1>8 DEF EnsurePool, shared, attributes, waiting, workers
<1>9. CASE CreatePool(t)
  BY <1>9 DEF CreatePool, shared, attributes, waiting, workers
<1>10. CASE CreateLocks(t)
  BY <1>10 DEF CreateLocks, shared, attributes, waiting, workers
<1>11. CASE CreateSemaphore(t)
  BY <1>11 DEF CreateSemaphore, shared, attributes, waiting, workers
<1>12. CASE CheckPool(t)
  BY <1>12 DEF CheckPool, shared, attributes, waiting, workers
<1>13. CASE Acquire(t)
  BY <1>13 DEF Acquire, shared, attributes, waiting, workers
<1>14. CASE QueueTimeout(t)
  BY <1>14 DEF QueueTimeout, shared, attributes, waiting, workers
<1>15. CASE ChooseSlot(t)
  BY <1>15, <1>5 DEF ChooseSlot, shared, attributes, waiting, workers
<1>16. CASE TakeSlot(t)
  BY <1>16, <1>5 DEF TakeSlot, shared, attributes, waiting, workers
<1>17. CASE EnterSlot(t)
  BY <1>17, <1>5 DEF EnterSlot, shared, attributes, waiting, workers
<1>18. CASE GetLock(t)
  BY <1>18, <1>5 DEF GetLock, shared, attributes, waiting, workers
<1>19. CASE LockSlot(t)
  BY <1>19, <1>2, <1>4, <1>5 DEF LockSlot, SetHolder, LockHolder, attributes, workers
<1>20. CASE Look(t)
  BY <1>20, <1>2, <1>3, <1>5 DEF Look, shared, attributes, waiting, workers
<1>21. CASE CloseWorker(t)
  BY <1>21 DEF CloseWorker, shared, attributes, waiting, workers
<1>22. CASE ClearSlot(t)
  BY <1>22, <1>2, <1>3, <1>5 DEF ClearSlot, shared, attributes, waiting, workers
<1>23. CASE StartWorker(t)
  <2>1. <<t, thread[t].attempt>> # None /\ <<t, thread[t].attempt>> \in Backends
    BY <1>1, <1>6 DEF Backends
  <2> QED
    BY <1>23, <1>2, <1>3, <1>5, <2>1 DEF StartWorker, shared, attributes, waiting, workers
<1>24. CASE Ask(t)
  BY <1>24 DEF Ask, shared, attributes, waiting, workers
<1>25. CASE Answered(t)
  BY <1>25 DEF Answered, shared, attributes, waiting, workers
<1>26. CASE Erred(t)
  BY <1>26, <1>2, <1>5 DEF Erred, shared, attributes, waiting, workers
<1>27. CASE Unlock(t)
  BY <1>27 DEF Unlock, SetHolder
<1>28. CASE Release(t)
  BY <1>28, <1>5 DEF Release, shared, attributes, waiting, workers
<1> QED
  BY <1>7, <1>8, <1>9, <1>10, <1>11, <1>12, <1>13, <1>14, <1>15, <1>16, <1>17, <1>18, <1>19, <1>20, <1>21, <1>22, <1>23, <1>24, <1>25, <1>26, <1>27, <1>28 DEF Serve

(* Neither the environment's crashes nor close(), which runs alone, tell a *)
(* request anything new.                                                   *)
LEMMA LocalElse ==
  ASSUME Calm, TypeInv, CreationInv, LocalInv, (\E b \in Backends : Crash(b)) \/ Close
  PROVE  LocalInv'
<1>1. CASE UNCHANGED <<locks, pool, semaphore, slots, holder, thread>>
  BY <1>1 DEF LocalInv, Local, At
<1>2. CASE UNCHANGED thread /\ Quiescent
  BY <1>2 DEF LocalInv, Local, At, Quiescent, InSlot, WithWorker
<1> QED
  BY <1>1, <1>2, PoolAssumption
     DEF Calm, CreationInv, Crash, Close, StartClose, CloserReads, CloserCloses, DropPool,
     shared, attributes, waiting, workers

-----------------------------------------------------------------------------
(* A new incarnation is unused until its maker is past creation.           *)
LEMMA InsideStays ==
  ASSUME thread \in [Threads -> Frames], NEW t \in Threads, Inside(t), Call(t) \/ Serve(t)
  PROVE  thread'[t].pc \notin {"idle"} \cup Creating
  BY DEF Frames, Inside, Permit, InSlot, Creating, At, Call, Serve, EnsurePool, CreatePool,
     CreateLocks, CreateSemaphore, CheckPool, Acquire, QueueTimeout, ChooseSlot, TakeSlot,
     EnterSlot, GetLock, LockSlot, Look, CloseWorker, ClearSlot, StartWorker, Ask, Answered,
     Erred, Unlock, Release, Goto, End

LEMMA OutsideSteps ==
  ASSUME NEW t \in Threads, ~Inside(t), Call(t) \/ Serve(t)
  PROVE  Call(t) \/ EnsurePool(t) \/ CreatePool(t) \/ CreateLocks(t) \/ CreateSemaphore(t)
  BY DEF Inside, Permit, InSlot, At, Serve, CheckPool, Acquire, QueueTimeout, ChooseSlot,
     TakeSlot, EnterSlot, GetLock, LockSlot, Look, CloseWorker, ClearSlot, StartWorker, Ask,
     Answered, Erred, Unlock, Release

LEMMA FreshThread ==
  ASSUME TypeInv, CreationInv, LocalInv, FreshInv, NEW t \in Threads, Call(t) \/ Serve(t)
  PROVE  FreshInv'
<1>0. thread \in [Threads -> Frames] /\ \A u \in Threads \ {t} : thread'[u] = thread[u]
  BY OthersStay DEF TypeInv, PoolTypeOK
<1>1. slots \in [Threads -> [Slots -> Backends \cup {None}]]
  BY DEF TypeInv, PoolTypeOK
<1>2. holder \in [Threads -> [Slots -> Threads \cup {None}]]
  BY DEF TypeInv, PoolTypeOK
<1>3. permits \in [Threads -> 0 .. Workers]
  BY DEF TypeInv, PoolTypeOK
<1>4. CASE Inside(t)
  <2>1. UNCHANGED attributes /\ Warm /\ pool \in Threads
    BY <1>4, AttributesStay DEF Warm, TypeInv, PoolTypeOK
  <2>2. \A g \in Threads \ {pool} : slots'[g] = slots[g]
    BY <1>1, <2>1, Writers DEF ClearSlot, StartWorker
  <2>3. \A g \in Threads \ {pool} : holder'[g] = holder[g]
    <3>1. LockSlot(t) \/ Unlock(t) => thread[t].lock = pool
      BY <2>1 DEF LocalInv, Local, LockSlot, Unlock, At, InSlot, Warm
    <3> QED
      BY <1>2, <2>1, <3>1, Writers DEF LockSlot, Unlock, SetHolder
  <2>4. \A g \in Threads \ {pool} : permits'[g] = permits[g]
    <3>1. Acquire(t) => thread[t].sem = pool
      BY <2>1 DEF LocalInv, Local, Acquire, At, Warm
    <3> QED
      BY <1>3, <2>1, <3>1, Writers DEF Acquire, Release, Warm
  <2> SUFFICES ASSUME NEW u \in Threads, thread'[u].pc \in {"idle"} \cup Creating
               PROVE  /\ Unused(u)'
                      /\ thread'[u].pc \in {"idle", "ensure", "create"} =>
                           u \notin {pool', locks', semaphore'}
    BY DEF FreshInv, Creating
  <2>5. thread'[u] = thread[u]
    BY <1>0, <1>4, InsideStays
  <2>6. u # pool /\ Unused(u)
    BY <2>1, <2>5, PoolAssumption DEF FreshInv, CreationInv, Warm, Creating, At
  <2> QED
    BY <2>1, <2>2, <2>3, <2>4, <2>5, <2>6 DEF FreshInv, Unused, attributes
<1>5. CASE ~Inside(t)
  <2>1. UNCHANGED <<slots, holder, permits>>
    BY <1>5, Writers DEF Inside, Permit, InSlot, At, ClearSlot, StartWorker, LockSlot, Unlock,
       Acquire, Release
  <2>2. ASSUME NEW u \in Threads, thread'[u].pc \in {"idle"} \cup Creating
        PROVE  thread[u].pc \in {"idle"} \cup Creating
    BY <1>0, <1>5, <2>2, OutsideSteps DEF Call, EnsurePool, CreatePool, CreateLocks,
       CreateSemaphore, Creating, At
  <2>3. ASSUME NEW u \in Threads, thread'[u].pc \in {"idle", "ensure", "create"}
        PROVE  u \notin {pool', locks', semaphore'}
    <3>1. CASE UNCHANGED attributes
      BY <1>0, <1>5, <2>3, <3>1, OutsideSteps DEF FreshInv, Call, EnsurePool, CreatePool,
         CreateLocks, CreateSemaphore, attributes, At, Goto, Frames
    <3>2. CASE CreatePool(t) \/ CreateLocks(t) \/ CreateSemaphore(t)
      BY <1>0, <2>3, <3>2 DEF FreshInv, CreatePool, CreateLocks, CreateSemaphore, Goto, Frames
    <3> QED
      BY <3>1, <3>2, Writers
  <2> QED
    BY <2>1, <2>2, <2>3 DEF FreshInv, Unused
<1> QED
  BY <1>4, <1>5

LEMMA FreshElse ==
  ASSUME TypeInv, FreshInv, (\E b \in Backends : Crash(b)) \/ Close
  PROVE  FreshInv'
<1>1. UNCHANGED <<slots, holder, permits, thread>>
  BY DEF Crash, Close, StartClose, CloserReads, CloserCloses, DropPool, shared, attributes,
     waiting, workers
<1>2. {pool', locks', semaphore'} \subseteq {pool, locks, semaphore, None}
  BY DEF Crash, Close, StartClose, CloserReads, CloserCloses, DropPool, PoolDropped, shared,
     attributes
<1> QED
  BY <1>1, <1>2, PoolAssumption DEF FreshInv, Unused

-----------------------------------------------------------------------------
(* A worker is in at most one slot: a new one is named for an attempt that *)
(* has started none.                                                       *)
LEMMA AttemptsGrow ==
  ASSUME TypeInv, NEW t \in Threads, Call(t) \/ Serve(t)
  PROVE  /\ thread[t].attempt \in Nat /\ thread'[t].attempt \in Nat
         /\ \/ thread[t].attempt < thread'[t].attempt
            \/ /\ thread'[t].attempt = thread[t].attempt
               /\ thread[t].pc \in Started => thread'[t].pc \in Started
<1>1. thread \in [Threads -> Frames] /\ thread[t].attempt \in Nat
  BY PoolAssumption DEF TypeInv, PoolTypeOK, Frames, Attempts
<1>2. CASE ClearSlot(t)
  BY <1>1, <1>2 DEF Frames, Started, ClearSlot, At, End
<1>3. CASE ~ClearSlot(t)
  <2>1. thread'[t].attempt = thread[t].attempt
    BY <1>1, <1>3 DEF Frames, Call, Serve, EnsurePool, CreatePool, CreateLocks,
       CreateSemaphore, CheckPool, Acquire, QueueTimeout, ChooseSlot, TakeSlot, EnterSlot,
       GetLock, LockSlot, Look, CloseWorker, StartWorker, Ask, Answered, Erred,
       Unlock, Release, Goto, End
  <2>2. thread[t].pc \in Started => thread'[t].pc \in Started
    BY <1>1, <1>3 DEF Frames, Started, At, Call, Serve, EnsurePool, CreatePool, CreateLocks,
       CreateSemaphore, CheckPool, Acquire, QueueTimeout, ChooseSlot, TakeSlot, EnterSlot,
       GetLock, LockSlot, Look, CloseWorker, StartWorker, Ask, Answered, Erred,
       Unlock, Release, Goto, End
  <2> QED
    BY <1>1, <2>1, <2>2
<1> QED
  BY <1>2, <1>3

LEMMA SlotThread ==
  ASSUME TypeInv, CreationInv, SlotInv, NEW t \in Threads, Call(t) \/ Serve(t)
  PROVE  SlotInv'
<1>0. thread \in [Threads -> Frames] /\ \A u \in Threads \ {t} : thread'[u] = thread[u]
  BY OthersStay DEF TypeInv, PoolTypeOK
<1>1. slots \in [Threads -> [Slots -> Backends \cup {None}]]
  BY DEF TypeInv, PoolTypeOK
<1>2. thread[t].slot \in Slots
  BY <1>0 DEF Frames
<1>3. ASSUME NEW u \in Threads, NEW a \in Attempts,
             a < thread[u].attempt \/ (a = thread[u].attempt /\ thread[u].pc \in Started)
      PROVE  a < thread'[u].attempt \/ (a = thread'[u].attempt /\ thread'[u].pc \in Started)
  <2>1. CASE u = t
    BY <1>3, <2>1, AttemptsGrow, PoolAssumption DEF Attempts
  <2>2. CASE u # t
    BY <1>0, <1>3, <2>2
  <2> QED
    BY <2>1, <2>2
<1>4. CASE StartWorker(t)
  <2> DEFINE new == <<t, thread[t].attempt>>
  <2>1. pool \in Threads /\ thread[t].attempt \in Attempts /\ thread[t].attempt \in Nat
    BY <1>0, <1>4, AttemptsGrow DEF CreationInv, Warm, Inside, Permit, InSlot, StartWorker, At, TypeInv, PoolTypeOK,
       Frames
  <2>2. \A g \in Threads : \A s \in Slots : slots[g][s] # new
    BY <1>4, <2>1 DEF SlotInv, StartWorker, At, Started
  <2>3. slots' = [slots EXCEPT ![pool][thread[t].slot] = new]
    BY <1>4, <2>1, PoolAssumption DEF StartWorker
  <2>4. thread'[t].attempt = thread[t].attempt /\ thread'[t].pc \in Started
    BY <1>0, <1>4, <2>1, PoolAssumption DEF StartWorker, Frames, Started
  <2>5. ASSUME NEW g \in Threads, NEW s \in Slots
        PROVE  slots'[g][s] = IF g = pool /\ s = thread[t].slot THEN new ELSE slots[g][s]
    BY <1>1, <1>2, <2>1, <2>3
  <2>6. ASSUME NEW g \in Threads, NEW s \in Slots, NEW u \in Threads, NEW a \in Attempts,
               slots'[g][s] = <<u, a>>
        PROVE  a < thread'[u].attempt \/ (a = thread'[u].attempt /\ thread'[u].pc \in Started)
    BY <1>3, <2>4, <2>5, <2>6 DEF SlotInv
  <2>7. ASSUME NEW g \in Threads, NEW s \in Slots, NEW r \in Slots,
               slots'[g][s] = slots'[g][r], slots'[g][s] # None
        PROVE  s = r
    BY <2>2, <2>5, <2>7 DEF SlotInv
  <2> QED
    BY <2>6, <2>7 DEF SlotInv
<1>5. CASE ~StartWorker(t)
  <2>1. ASSUME NEW g \in Threads, NEW s \in Slots, slots'[g][s] # None
        PROVE  slots'[g][s] = slots[g][s]
    <3>1. CASE UNCHANGED slots
      BY <3>1
    <3>2. CASE ClearSlot(t)
      <4>1. UNCHANGED slots \/ slots' = [slots EXCEPT ![pool][thread[t].slot] = None]
        BY <3>2 DEF ClearSlot
      <4>2. pool \in Threads \cup {None}
        BY DEF TypeInv, PoolTypeOK
      <4> QED
        BY <1>1, <1>2, <2>1, <4>1, <4>2, PoolAssumption
    <3> QED
      BY <1>5, <3>1, <3>2, Writers
  <2>2. None \notin Backends
    BY PoolAssumption DEF Backends, Attempts
  <2>3. ASSUME NEW g \in Threads, NEW s \in Slots, NEW u \in Threads, NEW a \in Attempts,
               slots'[g][s] = <<u, a>>
        PROVE  a < thread'[u].attempt \/ (a = thread'[u].attempt /\ thread'[u].pc \in Started)
    <3>1. <<u, a>> # None
      BY <2>2 DEF Backends
    <3>2. slots[g][s] = <<u, a>>
      BY <2>1, <2>3, <3>1
    <3> QED
      BY <1>3, <3>2 DEF SlotInv
  <2> QED
    BY <2>1, <2>3 DEF SlotInv
<1> QED
  BY <1>4, <1>5

LEMMA SlotElse ==
  ASSUME SlotInv, (\E b \in Backends : Crash(b)) \/ Close
  PROVE  SlotInv'
<1>1. UNCHANGED <<slots, thread>>
  BY DEF Crash, Close, StartClose, CloserReads, CloserCloses, DropPool, shared, workers
<1> QED
  BY <1>1 DEF SlotInv

-----------------------------------------------------------------------------
(* Processes.  Requests with a worker have different ones, and close() has *)
(* the pool to itself.                                                     *)
LEMMA WorkersApart ==
  ASSUME TypeInv, CreationInv, LocalInv, SlotInv, NEW t \in Threads, NEW u \in Threads,
         thread[t].pc \in WithWorker, thread[u].pc \in WithWorker,
         thread[t].worker = thread[u].worker
  PROVE  t = u
<1>1. thread[t].pc \in InSlot /\ thread[u].pc \in InSlot
  BY DEF WithWorker, InSlot
<1>2. Inside(t)
  BY <1>1 DEF Inside, Permit
<1>3. pool \in Threads /\ thread[t].slot \in Slots /\ thread[u].slot \in Slots
  BY <1>2 DEF CreationInv, Warm, TypeInv, PoolTypeOK, Frames
<1>4. /\ slots[pool][thread[t].slot] = thread[t].worker /\ thread[t].worker # None
      /\ slots[pool][thread[u].slot] = thread[u].worker
  BY DEF LocalInv, Local
<1>5. thread[t].slot = thread[u].slot
  BY <1>3, <1>4 DEF SlotInv
<1> QED
  BY <1>1, <1>5, LockExclusive

LEMMA CloserAlone ==
  ASSUME CreationInv, NEW t \in Threads, Call(t) \/ Serve(t)
  PROVE  closer.pc \notin {"read", "close"}
<1>1. CASE Call(t)
  BY <1>1 DEF CreationInv, Call
<1>2. CASE Serve(t)
  <2>1. ~(thread[t].pc \in {"idle", "done"})
    BY <1>2 DEF Serve, EnsurePool, CreatePool, CreateLocks, CreateSemaphore, CheckPool, Acquire,
       QueueTimeout, ChooseSlot, TakeSlot, EnterSlot, GetLock, LockSlot, Look, CloseWorker,
       ClearSlot, StartWorker, Ask, Answered, Erred, Unlock, Release, At
  <2> QED
    BY <2>1 DEF CreationInv, Quiescent
<1> QED
  BY <1>1, <1>2

(* Which steps enter and leave a worker, and where a worker is put down.   *)
LEMMA AskingSteps ==
  ASSUME thread \in [Threads -> Frames], NEW t \in Threads, Call(t) \/ Serve(t)
  PROVE  /\ thread'[t].pc = "asking" => Ask(t)
         /\ thread[t].pc = "asking" => Answered(t) \/ Erred(t)
         /\ thread'[t].pc \in {"clear", "vacate"} => CloseWorker(t) \/ Erred(t)
<1>1. thread[t].pc = "asking" => Answered(t) \/ Erred(t)
  BY DEF Frames, At, Call, Serve, EnsurePool, CreatePool, CreateLocks, CreateSemaphore,
     CheckPool, Acquire, QueueTimeout, ChooseSlot, TakeSlot, EnterSlot, GetLock, LockSlot, Look,
     CloseWorker, ClearSlot, StartWorker, Ask, Unlock, Release
<1>2. thread'[t].pc \in {"asking", "clear", "vacate"} => Ask(t) \/ CloseWorker(t) \/ Erred(t)
  BY DEF Frames, Call, Serve, EnsurePool, CreatePool, CreateLocks, CreateSemaphore,
     CheckPool, Acquire, QueueTimeout, ChooseSlot, TakeSlot, EnterSlot, GetLock, LockSlot, Look,
     ClearSlot, StartWorker, Answered, Unlock, Release, Goto, End
<1>3. CloseWorker(t) \/ Erred(t) => thread'[t].pc # "asking"
  BY DEF Frames, CloseWorker, Erred, Goto, End
<1>4. Ask(t) => thread'[t].pc = "asking"
  BY DEF Frames, Ask, Goto
<1> QED
  BY <1>1, <1>2, <1>3, <1>4

LEMMA UserThread ==
  ASSUME TypeInv, LocalInv, UserInv, NEW t \in Threads, Call(t) \/ Serve(t)
  PROVE  UserInv'
<1>0. thread \in [Threads -> Frames] /\ \A u \in Threads \ {t} : thread'[u] = thread[u]
  BY OthersStay DEF TypeInv, PoolTypeOK
<1>1. user \in [Backends -> Threads \cup {None}] /\ None \notin Threads
  BY PoolAssumption DEF TypeInv, PoolTypeOK
<1>2. CASE Ask(t)
  <2>1. thread[t].worker \in Backends
    BY <1>0, <1>2 DEF LocalInv, Local, WithWorker, Ask, At, Frames
  <2>2. thread'[t].pc = "asking" /\ thread'[t].worker = thread[t].worker
    BY <1>0, <1>2 DEF Ask, Goto, Frames
  <2>3. user' = [user EXCEPT ![thread[t].worker] = t] /\ user[thread[t].worker] = None /\ thread[t].pc = "ask"
    BY <1>2 DEF Ask, At
  <2> QED
    BY <1>0, <1>1, <2>1, <2>2, <2>3 DEF UserInv, At
<1>3. CASE Answered(t) \/ Erred(t)
  <2>1. thread[t].worker \in Backends /\ user[thread[t].worker] = t
    BY <1>0, <1>3 DEF LocalInv, Local, WithWorker, UserInv, Answered, Erred, At, Frames
  <2>2. thread'[t].pc # "asking"
    BY <1>0, <1>3, AskingSteps DEF Answered, Erred, Ask, At
  <2>3. user' = [user EXCEPT ![thread[t].worker] = None]
    BY <1>3 DEF Answered, Erred
  <2> QED
    BY <1>0, <1>1, <2>1, <2>2, <2>3 DEF UserInv, At
<1>4. CASE ~Ask(t) /\ ~Answered(t) /\ ~Erred(t)
  <2>1. thread'[t].pc # "asking" /\ thread[t].pc # "asking" /\ UNCHANGED user
    BY <1>0, <1>4, AskingSteps, Writers
  <2> QED
    BY <1>0, <2>1 DEF UserInv, At
<1> QED
  BY <1>2, <1>3, <1>4

LEMMA PutDownThread ==
  ASSUME TypeInv, CreationInv, LocalInv, SlotInv, PutDownInv, NEW t \in Threads, Call(t) \/ Serve(t)
  PROVE  PutDownInv'
<1>0. thread \in [Threads -> Frames] /\ \A u \in Threads \ {t} : thread'[u] = thread[u]
  BY OthersStay DEF TypeInv, PoolTypeOK
<1>1. process \in [Backends -> {"none", "alive", "dead"}]
  BY DEF TypeInv, PoolTypeOK
<1> SUFFICES ASSUME NEW u \in Threads, thread'[u].pc \in {"clear", "vacate"}
             PROVE  process'[thread'[u].worker] = "none"
  BY DEF PutDownInv
<1>2. CASE u = t
  <2>1. ~Erred(t)
    BY <1>0, <1>2 DEF Erred, End, Frames, LocalInv, Local, WithWorker, At
  <2>2. CloseWorker(t)
    BY <1>0, <1>2, <2>1, AskingSteps
  <2>3. thread[t].worker \in Backends /\ thread'[t].worker = thread[t].worker
    BY <1>0, <2>2 DEF CloseWorker, LocalInv, Local, WithWorker, Goto, Frames
  <2> QED
    BY <1>1, <1>2, <2>2, <2>3 DEF CloseWorker
<1>3. CASE u # t
  <2>1. thread'[u] = thread[u] /\ thread[u].worker \in Backends /\ thread[u].pc \in WithWorker
    BY <1>0, <1>3 DEF LocalInv, Local, WithWorker, Frames
  <2>2. process[thread[u].worker] = "none"
    BY <2>1 DEF PutDownInv
  <2>3. CASE Answered(t)
    <3>1. thread[t].worker # thread[u].worker
      BY <1>3, <2>1, <2>3, WorkersApart DEF Answered, At, WithWorker
    <3> QED
      BY <1>1, <2>1, <2>2, <2>3, <3>1 DEF Answered
  <2>4. CASE ~Answered(t)
    <3>1. UNCHANGED process \/ process' = [process EXCEPT ![thread[t].worker] = "none"]
      BY <2>4, Writers DEF CloseWorker, Erred
    <3> QED
      BY <1>1, <2>1, <2>2, <3>1
  <2> QED
    BY <2>3, <2>4
<1> QED
  BY <1>2, <1>3

LEMMA OwnedThread ==
  ASSUME TypeInv, CreationInv, LocalInv, PutDownInv, OwnedInv, NEW t \in Threads, Call(t) \/ Serve(t)
  PROVE  OwnedInv'
<1>0. thread \in [Threads -> Frames]
  BY DEF TypeInv, PoolTypeOK
<1>1. process \in [Backends -> {"none", "alive", "dead"}]
  BY DEF TypeInv, PoolTypeOK
<1>2. slots \in [Threads -> [Slots -> Backends \cup {None}]] /\ thread[t].slot \in Slots
  BY <1>0 DEF TypeInv, PoolTypeOK, Frames
<1> SUFFICES ASSUME NEW b \in Backends, process'[b] # "none"
             PROVE  pool' # None /\ \E s \in Slots : slots'[pool'][s] = b
  BY DEF OwnedInv
<1>3. CASE Answered(t) /\ b = thread[t].worker
  BY <1>0, <1>2, <1>3 DEF Answered, LocalInv, Local, CreationInv, Warm, Inside, Permit, InSlot, WithWorker, At,
     attributes
<1>4. CASE ~(Answered(t) /\ b = thread[t].worker)
  <2>1. process[b] # "none"
    BY <1>1, <1>4, Writers DEF Answered, CloseWorker, Erred
  <2>2. pool \in Threads
    BY <2>1 DEF OwnedInv, TypeInv, PoolTypeOK
  <2>3. PICK s \in Slots : slots[pool][s] = b
    BY <2>1 DEF OwnedInv
  <2>4. pool' = pool
    BY <2>2, Writers, PoolAssumption
       DEF CreationInv, CreatePool, CreateLocks, CreateSemaphore, Cold, attributes
  <2>5. CASE ClearSlot(t)
    <3>1. slots[pool][thread[t].slot] = thread[t].worker /\ process[thread[t].worker] = "none"
      BY <2>5 DEF LocalInv, Local, PutDownInv, WithWorker, ClearSlot
    <3>2. s # thread[t].slot
      BY <2>1, <2>3, <3>1
    <3>3. slots' = [slots EXCEPT ![pool][thread[t].slot] = None]
      BY <2>2, <2>5, PoolAssumption DEF ClearSlot
    <3> QED
      BY <1>2, <2>2, <2>3, <2>4, <3>2, <3>3, PoolAssumption
  <2>6. CASE StartWorker(t)
    <3>1. s # thread[t].slot
      BY <2>3, <2>6, PoolAssumption DEF LocalInv, Local, StartWorker, Backends, Attempts, At
    <3>2. slots' = [slots EXCEPT ![pool][thread[t].slot] = <<t, thread[t].attempt>>]
      BY <2>2, <2>6, PoolAssumption DEF StartWorker
    <3> QED
      BY <1>2, <2>2, <2>3, <2>4, <3>1, <3>2, PoolAssumption
  <2> QED
    BY <2>2, <2>3, <2>4, <2>5, <2>6, Writers, PoolAssumption
<1> QED
  BY <1>3, <1>4

LEMMA ProcessThread ==
  ASSUME TypeInv, CreationInv, LocalInv, SlotInv, ProcessInv, NEW t \in Threads, Call(t) \/ Serve(t)
  PROVE  ProcessInv'
<1>1. closer'.pc \notin {"read", "close"}
  BY CloserAlone, Writers
<1> QED
  BY <1>1, UserThread, PutDownThread, OwnedThread DEF ProcessInv, CloserInv

LEMMA ProcessElse ==
  ASSUME Calm, TypeInv, CreationInv, ProcessInv, (\E b \in Backends : Crash(b)) \/ Close
  PROVE  ProcessInv'
<1>0. process \in [Backends -> {"none", "alive", "dead"}]
  BY DEF TypeInv, PoolTypeOK
<1>1. closer \in [pc : {"idle", "read", "close", "done"}, pool : Threads \cup {None},
                  slot : 0 .. Workers, worker : Backends \cup {None}]
  BY DEF TypeInv, PoolTypeOK
<1>2. UNCHANGED <<slots, user, thread>>
  BY DEF Crash, Close, StartClose, CloserReads, CloserCloses, DropPool, shared, workers
<1>3. UserInv'
  BY <1>2 DEF ProcessInv, UserInv, At
<1>4. ASSUME NEW b \in Backends, process'[b] # "none" PROVE process[b] # "none"
  BY <1>0, <1>4 DEF Crash, Close, StartClose, CloserReads, CloserCloses, DropPool, shared, workers
<1>5. CASE \E b \in Backends : Crash(b)
  <2>1. PutDownInv'
    BY <1>0, <1>2, <1>5 DEF ProcessInv, PutDownInv, Crash
  <2>2. OwnedInv' /\ UNCHANGED closer
    BY <1>2, <1>4, <1>5 DEF ProcessInv, OwnedInv, Crash, attributes
  <2>3. CloserInv'
    BY <1>0, <1>2, <1>5 DEF ProcessInv, CloserInv, Crash, attributes
  <2> QED
    BY <1>3, <2>1, <2>2, <2>3 DEF ProcessInv
<1>6. CASE StartClose
  <2>1. /\ UNCHANGED <<pool, process>>
        /\ closer'.pc = "done" \/ (closer'.pc = "read" /\ closer'.slot = 0)
    <3>1. closer' = [closer EXCEPT !.pc = "done"]
            \/ closer' = [closer EXCEPT !.pc = "read", !.pool = pool, !.slot = 0]
      BY <1>6 DEF StartClose
    <3>2. UNCHANGED <<pool, process>>
      BY <1>6 DEF StartClose, workers
    <3>3. closer'.pc = "done" \/ (closer'.pc = "read" /\ closer'.slot = 0)
      BY <1>1, <3>1
    <3> QED
      BY <3>2, <3>3
  <2> QED
    BY <1>2, <1>3, <2>1, PoolAssumption DEF ProcessInv, PutDownInv, OwnedInv, CloserInv, Slots
<1>7. CASE CloserReads
  BY <1>1, <1>2, <1>3, <1>7 DEF ProcessInv, PutDownInv, OwnedInv, CloserInv, CreationInv,
     CloserReads, Slots, shared, attributes, workers
<1>8. CASE CloserCloses
  BY <1>0, <1>1, <1>2, <1>3, <1>4, <1>8
     DEF ProcessInv, PutDownInv, OwnedInv, CloserInv, CloserCloses, Slots, attributes
<1>9. CASE DropPool
  <2>1. \A s \in Slots : s < closer.slot
    BY <1>9, PoolAssumption DEF DropPool, Slots
  <2>2. \A b \in Backends : process[b] = "none"
    BY <1>9, <2>1, PoolAssumption DEF ProcessInv, OwnedInv, CloserInv, DropPool, Backends, Attempts
  <2>3. UNCHANGED process /\ closer'.pc = "done"
    BY <1>1, <1>9 DEF DropPool, workers
  <2> QED
    BY <1>2, <1>3, <2>2, <2>3 DEF ProcessInv, PutDownInv, OwnedInv, CloserInv
<1> QED
  BY <1>5, <1>6, <1>7, <1>8, <1>9 DEF Close

-----------------------------------------------------------------------------
(* Permits.  A request takes one with Acquire and gives it back with       *)
(* Release; the holders are finitely many whatever Threads is.             *)
PermitInv == IsFiniteSet(Holding) /\ PermitsConserved

LEMMA PermitSteps ==
  ASSUME thread \in [Threads -> Frames], NEW t \in Threads, Call(t) \/ Serve(t),
         ~Acquire(t), ~Release(t)
  PROVE  Holding' = Holding
<1>1. thread'[t].pc \in Permit <=> thread[t].pc \in Permit
  BY DEF Frames, Permit, InSlot, At, Call, Serve, EnsurePool, CreatePool, CreateLocks,
     CreateSemaphore, CheckPool, QueueTimeout, ChooseSlot, TakeSlot, EnterSlot, GetLock,
     LockSlot, Look, CloseWorker, ClearSlot, StartWorker, Ask, Answered, Erred, Unlock, Goto, End
<1> QED
  BY <1>1, OthersStay DEF Holding

(* Who is about to give a permit back has one, so the semaphore lacks one. *)
LEMMA PermitOut ==
  ASSUME TypeInv, CreationInv, PermitInv, NEW t \in Threads, At(t, "release")
  PROVE  /\ semaphore \in Threads /\ permits[semaphore] \in 0 .. Workers
         /\ permits[semaphore] # Workers
<1>1. semaphore \in Threads /\ permits[semaphore] \in 0 .. Workers
  BY DEF CreationInv, Warm, Inside, Permit, At, TypeInv, PoolTypeOK
<1>2. t \in Holding
  BY DEF Holding, Permit, At
<1>3. Cardinality(Holding) # 0 /\ Cardinality(Holding) \in Nat
  BY <1>2, FS_EmptySet, FS_CardinalityType DEF PermitInv
<1>4. permits[semaphore] + Cardinality(Holding) = Workers
  BY <1>1, PoolAssumption DEF PermitInv, PermitsConserved
<1> QED
  BY <1>1, <1>3, <1>4, PoolAssumption

LEMMA PermitThread ==
  ASSUME TypeInv, CreationInv, FreshInv, LocalInv, PermitInv, NEW t \in Threads, Call(t) \/ Serve(t)
  PROVE  PermitInv'
<1>0. thread \in [Threads -> Frames]
  BY DEF TypeInv, PoolTypeOK
<1>1. permits \in [Threads -> 0 .. Workers] /\ Workers \in Nat /\ None \notin Threads
  BY PoolAssumption DEF TypeInv, PoolTypeOK
<1>2. IsFiniteSet(Holding) /\ Cardinality(Holding) \in Nat
  BY FS_CardinalityType DEF PermitInv
<1>3. CASE Acquire(t)
  <2>1. semaphore \in Threads /\ thread[t].sem = semaphore
    BY <1>3 DEF Acquire, At, LocalInv, Local, CreationInv, Warm, Inside, TypeInv, PoolTypeOK
  <2>2. t \notin Holding /\ Holding' = Holding \cup {t}
    <3>1. thread[t].pc \notin Permit /\ thread'[t].pc \in Permit
      BY <1>0, <1>3 DEF Acquire, At, Goto, Frames, Permit, InSlot
    <3> QED
      BY <1>0, <1>3, <3>1, OthersStay DEF Serve, Holding
  <2>3. IsFiniteSet(Holding') /\ Cardinality(Holding') = Cardinality(Holding) + 1
    BY <1>2, <2>2, FS_AddElement
  <2>4. UNCHANGED semaphore /\ permits'[semaphore] = permits[semaphore] - 1
    BY <1>1, <1>3, <2>1 DEF Acquire, attributes
  <2>5. permits[semaphore] \in Nat /\ permits[semaphore] + Cardinality(Holding) = Workers
    BY <1>1, <2>1 DEF PermitInv, PermitsConserved
  <2> QED
    BY <1>1, <1>2, <2>3, <2>4, <2>5 DEF PermitInv, PermitsConserved
<1>4. CASE Release(t)
  <2>1. semaphore \in Threads /\ permits[semaphore] \in 0 .. Workers /\ permits[semaphore] # Workers
    BY <1>4, PermitOut DEF Release
  <2>2. t \in Holding /\ Holding' = Holding \ {t}
    <3>1. thread[t].pc \in Permit /\ thread'[t].pc \notin Permit
      BY <1>0, <1>1, <1>4, <2>1 DEF Release, At, Goto, Frames, Permit, InSlot
    <3> QED
      BY <1>0, <1>4, <3>1, OthersStay DEF Serve, Holding
  <2>3. IsFiniteSet(Holding') /\ Cardinality(Holding') = Cardinality(Holding) - 1
    BY <1>2, <2>2, FS_RemoveElement
  <2>4. UNCHANGED semaphore /\ permits'[semaphore] = permits[semaphore] + 1
    BY <1>1, <1>4, <2>1 DEF Release, attributes
  <2>5. permits[semaphore] \in Nat /\ permits[semaphore] + Cardinality(Holding) = Workers
    BY <1>1, <2>1 DEF PermitInv, PermitsConserved
  <2> QED
    BY <1>1, <1>2, <2>3, <2>4, <2>5 DEF PermitInv, PermitsConserved
<1>5. CASE ~Acquire(t) /\ ~Release(t)
  <2>1. UNCHANGED permits /\ Holding' = Holding
    BY <1>0, <1>5, Writers, PermitSteps
  <2>2. CASE UNCHANGED semaphore
    BY <2>1, <2>2 DEF PermitInv, PermitsConserved
  <2>3. CASE CreateSemaphore(t)
    <3>1. semaphore = None /\ semaphore' = t /\ permits[t] = Workers
      BY <2>3, PoolAssumption DEF CreateSemaphore, CreationInv, FreshInv, Unused, Creating, At
    <3>2. Holding = {}
      BY <3>1, <1>1 DEF Holding, CreationInv, Inside, Warm
    <3> QED
      BY <1>1, <2>1, <3>1, <3>2, FS_EmptySet DEF PermitInv, PermitsConserved
  <2> QED
    BY <2>2, <2>3, Writers DEF CreatePool, CreateLocks, attributes
<1> QED
  BY <1>3, <1>4, <1>5

LEMMA PermitElse ==
  ASSUME PermitInv, (\E b \in Backends : Crash(b)) \/ Close
  PROVE  PermitInv'
<1>1. UNCHANGED <<permits, thread>> /\ semaphore' \in {semaphore, None}
  BY DEF Crash, Close, StartClose, CloserReads, CloserCloses, DropPool, PoolDropped, shared,
     attributes, waiting
<1> QED
  BY <1>1 DEF PermitInv, PermitsConserved, Holding

-----------------------------------------------------------------------------
(* The counters.  Vacating requests are finitely many, and so are those    *)
(* that ask or were answered.                                              *)
TelemetryInv == IsFiniteSet(Vacating) /\ IsFiniteSet(Engaged) /\ TelemetryBalanced

LEMMA FilledFinite == IsFiniteSet(Filled) /\ Cardinality(Filled) \in Nat
<1>1. IsFiniteSet(Slots)
  <2>1. 0 \in Int /\ Workers - 1 \in Int
    BY PoolAssumption
  <2> QED
    BY <2>1, FS_Interval DEF Slots
<1>2. Filled \subseteq Slots
  BY DEF Filled
<1>3. IsFiniteSet(Filled)
  BY <1>1, <1>2, FS_Subset
<1> QED
  BY <1>3, FS_CardinalityType

(* The two equations, over named sets.                                     *)
LEMMA TelemetryParts ==
  TelemetryBalanced <=>
    /\ closer.pc # "done" =>
         telemetry.startups + Cardinality(Vacating) = telemetry.restarts + Cardinality(Filled)
    /\ telemetry.requests = telemetry.errors + Cardinality(Engaged)
  BY DEF TelemetryBalanced, Filled, Engaged

(* Which steps change the three sets, seen from the thread that takes one. *)
LEMMA TelemetrySteps ==
  ASSUME TypeInv, CreationInv, LocalInv, PermitInv, NEW t \in Threads, Call(t) \/ Serve(t)
  PROVE  /\ ~Look(t) /\ ~ClearSlot(t) /\ ~Erred(t) => Vacating' = Vacating
         /\ ~Ask(t) /\ ~Erred(t) => Engaged' = Engaged
<1>0. thread \in [Threads -> Frames] /\ Local(t)
  BY DEF TypeInv, PoolTypeOK, LocalInv
<1>1. ASSUME ~Look(t), ~ClearSlot(t), ~Erred(t) PROVE Vacating' = Vacating
  <2>1. thread'[t].pc \in {"discard", "clear", "retire", "vacate"} <=>
          thread[t].pc \in {"discard", "clear", "retire", "vacate"}
    BY <1>0, <1>1 DEF Frames, At, Call, Serve, EnsurePool, CreatePool, CreateLocks,
       CreateSemaphore, CheckPool, Acquire, QueueTimeout, ChooseSlot, TakeSlot, EnterSlot,
       GetLock, LockSlot, CloseWorker, StartWorker, Ask, Answered, Unlock, Release, Goto, End
  <2> QED
    BY <1>0, <2>1, OthersStay DEF Vacating
<1>2. ASSUME ~Ask(t), ~Erred(t) PROVE Engaged' = Engaged
  <2>1. (thread'[t].pc = "asking" \/ thread'[t].outcome = "answer") <=>
          (thread[t].pc = "asking" \/ thread[t].outcome = "answer")
    <3>1. CASE Answered(t)
      BY <1>0, <3>1 DEF Frames, At, Answered, End
    <3>2. CASE ~Answered(t)
      <4>1. thread'[t].pc # "asking" /\ thread[t].pc # "asking"
        BY <1>0, <1>2, <3>2, AskingSteps
      <4>2. Release(t) => thread'[t].outcome = thread[t].outcome
        BY <1>0, PermitOut, PoolAssumption DEF Release, Goto, Frames
      <4>3. thread'[t].outcome # thread[t].outcome /\ ~Release(t) =>
              thread[t].pc \notin {"unlock", "release", "done"} /\ thread'[t].outcome # "answer"
        BY <1>0, <1>2, <3>2 DEF Frames, At, Call, Serve, EnsurePool, CreatePool, CreateLocks,
           CreateSemaphore, CheckPool, Acquire, QueueTimeout, ChooseSlot, TakeSlot, EnterSlot,
           GetLock, LockSlot, Look, CloseWorker, ClearSlot, StartWorker, Unlock, Goto, End
      <4> QED
        BY <1>0, <4>1, <4>2, <4>3 DEF Local
    <3> QED
      BY <3>1, <3>2
  <2> QED
    BY <1>0, <2>1, OthersStay DEF Engaged
<1> QED
  BY <1>1, <1>2

LEMMA TelemetryThread ==
  ASSUME TypeInv, CreationInv, FreshInv, LocalInv, PermitInv, TelemetryInv,
         NEW t \in Threads, Call(t) \/ Serve(t)
  PROVE  TelemetryInv'
<1>0. thread \in [Threads -> Frames] /\ Local(t) /\ UNCHANGED closer
  BY Writers DEF TypeInv, PoolTypeOK, LocalInv
<1>1. /\ telemetry \in [startups : Nat, restarts : Nat, requests : Nat, errors : Nat]
      /\ telemetry.startups \in Nat /\ telemetry.restarts \in Nat
      /\ telemetry.requests \in Nat /\ telemetry.errors \in Nat
  BY DEF TypeInv, PoolTypeOK
<1>2. slots \in [Threads -> [Slots -> Backends \cup {None}]] /\ thread[t].slot \in Slots
  BY <1>0 DEF TypeInv, PoolTypeOK, Frames
<1>3. /\ IsFiniteSet(Vacating) /\ Cardinality(Vacating) \in Nat
      /\ IsFiniteSet(Engaged) /\ Cardinality(Engaged) \in Nat
      /\ IsFiniteSet(Filled) /\ Cardinality(Filled) \in Nat
  BY FilledFinite, FS_CardinalityType DEF TelemetryInv
<1>4. /\ closer.pc # "done" =>
           telemetry.startups + Cardinality(Vacating) = telemetry.restarts + Cardinality(Filled)
      /\ telemetry.requests = telemetry.errors + Cardinality(Engaged)
  BY TelemetryParts DEF TelemetryInv
<1>5. None \notin Threads /\ None \notin Backends
  BY PoolAssumption DEF Backends, Attempts
<1>6. Inside(t) => pool \in Threads /\ UNCHANGED attributes
  BY AttributesStay DEF Warm, TypeInv, PoolTypeOK
<1> SUFFICES
      /\ IsFiniteSet(Vacating') /\ IsFiniteSet(Engaged')
      /\ closer.pc # "done" =>
           telemetry'.startups + Cardinality(Vacating') = telemetry'.restarts + Cardinality(Filled')
      /\ telemetry'.requests = telemetry'.errors + Cardinality(Engaged')
  BY <1>0 DEF TelemetryInv, TelemetryBalanced, Vacating, Filled, Engaged
<1>7. CASE Look(t)
  <2>1. pool \in Threads /\ UNCHANGED <<attributes, slots>>
    BY <1>6, <1>7 DEF Look, Inside, Permit, InSlot, At
  <2>2. Filled' = Filled /\ Engaged' = Engaged
    BY <1>7, <2>1, TelemetrySteps DEF Filled, attributes, Look, Ask, Erred, At
  <2>3. t \notin Vacating
    BY <1>7 DEF Look, At, Vacating
  <2>4. CASE thread'[t].pc = "discard"
    <3>1. Vacating' = Vacating \cup {t}
      BY <1>0, <2>4, OthersStay DEF Vacating
    <3>2. Counted("restarts")
      BY <1>0, <1>7, <2>1, <2>4, <1>5 DEF Look, Goto, Frames
    <3>3. IsFiniteSet(Vacating') /\ Cardinality(Vacating') = Cardinality(Vacating) + 1
      BY <1>3, <2>3, <3>1, FS_AddElement
    <3>4. telemetry' = [telemetry EXCEPT !.restarts = telemetry.restarts + 1]
      BY <1>1, <3>2 DEF Counted
    <3> QED
      BY <1>1, <1>3, <1>4, <2>2, <3>3, <3>4
  <2>5. CASE thread'[t].pc # "discard"
    <3>1. UNCHANGED telemetry /\ thread'[t].pc \in {"start", "ask"}
      BY <1>0, <1>7, <2>1, <2>5, <1>5 DEF Look, Goto, Frames
    <3>2. Vacating' = Vacating
      BY <1>0, <2>3, <3>1, OthersStay DEF Vacating
    <3> QED
      BY <1>3, <1>4, <2>2, <3>1, <3>2
  <2> QED
    BY <2>4, <2>5
<1>8. CASE ClearSlot(t)
  <2>1. pool \in Threads /\ UNCHANGED <<attributes, telemetry>>
    BY <1>6, <1>8 DEF ClearSlot, Inside, Permit, InSlot
  <2>2. Engaged' = Engaged
    BY <1>8, TelemetrySteps DEF ClearSlot, Ask, Erred, At
  <2>3. t \in Vacating /\ Vacating' = Vacating \ {t}
    <3>1. thread[t].pc \in {"clear", "vacate"} /\ thread'[t].pc \in {"start", "look"}
      BY <1>0, <1>5, <1>8, <2>1 DEF ClearSlot, Frames, At
    <3> QED
      BY <1>0, <3>1, OthersStay DEF Vacating
  <2>4. thread[t].slot \in Filled /\ Filled' = Filled \ {thread[t].slot}
    <3>1. slots[pool][thread[t].slot] # None
      BY <1>0, <1>8 DEF ClearSlot, Local, WithWorker
    <3>2. slots' = [slots EXCEPT ![pool][thread[t].slot] = None]
      BY <1>5, <1>8, <2>1 DEF ClearSlot
    <3> QED
      BY <1>2, <1>5, <2>1, <3>1, <3>2 DEF Filled, attributes
  <2>5. IsFiniteSet(Vacating') /\ Cardinality(Vacating') = Cardinality(Vacating) - 1
    BY <1>3, <2>3, FS_RemoveElement
  <2>6. Cardinality(Filled') = Cardinality(Filled) - 1
    BY <1>3, <2>4, FS_RemoveElement
  <2>7. UNCHANGED telemetry /\ IsFiniteSet(Engaged')
    BY <1>3, <2>1, <2>2
  <2>8. closer.pc # "done" =>
          telemetry.startups + (Cardinality(Vacating) - 1) = telemetry.restarts + (Cardinality(Filled) - 1)
    BY <1>1, <1>3, <1>4
  <2> QED
    BY <1>4, <2>2, <2>5, <2>6, <2>7, <2>8
<1>9. CASE StartWorker(t)
  <2>1. pool \in Threads /\ UNCHANGED attributes
    BY <1>6, <1>9 DEF StartWorker, Inside, Permit, InSlot, At
  <2>2. Engaged' = Engaged /\ Vacating' = Vacating
    BY <1>9, TelemetrySteps DEF StartWorker, Ask, Erred, Look, ClearSlot, At
  <2>3. thread[t].slot \notin Filled /\ Filled' = Filled \cup {thread[t].slot}
    <3>1. slots[pool][thread[t].slot] = None
      BY <1>0, <1>9 DEF StartWorker, Local, At
    <3>2. slots' = [slots EXCEPT ![pool][thread[t].slot] = <<t, thread[t].attempt>>]
      BY <1>5, <1>9, <2>1 DEF StartWorker
    <3>3. <<t, thread[t].attempt>> \in Backends
      BY <1>0 DEF Frames, Backends
    <3> QED
      BY <1>2, <1>5, <2>1, <3>1, <3>2, <3>3 DEF Filled, attributes
  <2>4. Counted("startups")
    BY <1>5, <1>9, <2>1 DEF StartWorker
  <2>5. Cardinality(Filled') = Cardinality(Filled) + 1
    BY <1>3, <2>3, FS_AddElement
  <2>6. telemetry' = [telemetry EXCEPT !.startups = telemetry.startups + 1]
    BY <1>1, <2>4 DEF Counted
  <2> QED
    BY <1>1, <1>3, <1>4, <2>2, <2>5, <2>6
<1>10. CASE Ask(t)
  <2>1. UNCHANGED <<attributes, slots>> /\ Counted("requests")
    BY <1>10 DEF Ask
  <2>2. Filled' = Filled /\ Vacating' = Vacating
    BY <1>10, <2>1, TelemetrySteps DEF Filled, attributes, Look, Ask, Erred, ClearSlot, At
  <2>3. t \notin Engaged /\ Engaged' = Engaged \cup {t}
    <3>1. thread[t].pc = "ask" /\ thread[t].outcome # "answer" /\ thread'[t].pc = "asking"
      BY <1>0, <1>10 DEF Ask, At, Goto, Frames, Local
    <3> QED
      BY <1>0, <3>1, OthersStay DEF Engaged
  <2>4. IsFiniteSet(Engaged') /\ Cardinality(Engaged') = Cardinality(Engaged) + 1
    BY <1>3, <2>3, FS_AddElement
  <2>5. telemetry' = [telemetry EXCEPT !.requests = telemetry.requests + 1]
    BY <1>1, <2>1 DEF Counted
  <2> QED
    BY <1>1, <1>3, <1>4, <2>2, <2>4, <2>5
<1>11. CASE Erred(t)
  <2>1. pool \in Threads /\ UNCHANGED <<attributes, slots>>
    BY <1>6, <1>11 DEF Erred, Inside, Permit, InSlot, At
  <2>2. Filled' = Filled
    BY <2>1 DEF Filled, attributes
  <2>3. thread[t].pc = "asking" /\ t \notin Vacating
    BY <1>11 DEF Erred, At, Vacating
  <2>4. t \in Engaged /\ Engaged' = Engaged \ {t}
    <3>1. thread'[t].pc # "asking" /\ thread'[t].outcome = "backend_error"
      BY <1>0, <1>5, <1>11, <2>1 DEF Erred, End, Frames
    <3> QED
      BY <1>0, <2>3, <3>1, OthersStay DEF Engaged
  <2>5. IsFiniteSet(Engaged') /\ Cardinality(Engaged') = Cardinality(Engaged) - 1
    BY <1>3, <2>4, FS_RemoveElement
  <2>6. CASE LastAttempt(t)
    <3>1. thread'[t].pc = "unlock"
      BY <1>0, <1>11, <2>6 DEF Erred, End, Frames
    <3>2. Vacating' = Vacating
      BY <1>0, <2>3, <3>1, OthersStay DEF Vacating
    <3>3. telemetry' = [telemetry EXCEPT !.errors = telemetry.errors + 1,
                                         !.restarts = telemetry.restarts + 0]
      BY <1>1, <1>11, <2>6 DEF Erred, RestartsAfter
    <3> QED
      BY <1>1, <1>3, <1>4, <2>2, <2>5, <3>2, <3>3
  <2>7. CASE ~LastAttempt(t)
    <3>1. thread'[t].pc \in {"vacate", "retire"}
      BY <1>0, <1>5, <1>11, <2>1, <2>7 DEF Erred, Frames
    <3>2. Vacating' = Vacating \cup {t}
      BY <1>0, <3>1, OthersStay DEF Vacating
    <3>3. telemetry' = [telemetry EXCEPT !.errors = telemetry.errors + 1,
                                         !.restarts = telemetry.restarts + 1]
      BY <1>1, <1>11, <2>7 DEF Erred, RestartsAfter
    <3>4. IsFiniteSet(Vacating') /\ Cardinality(Vacating') = Cardinality(Vacating) + 1
      BY <1>3, <2>3, <3>2, FS_AddElement
    <3> QED
      BY <1>1, <1>3, <1>4, <2>2, <2>5, <3>3, <3>4
  <2> QED
    BY <2>6, <2>7
<1>12. CASE ~Look(t) /\ ~ClearSlot(t) /\ ~StartWorker(t) /\ ~Ask(t) /\ ~Erred(t)
  <2>1. UNCHANGED <<telemetry, slots>> /\ Vacating' = Vacating /\ Engaged' = Engaged
    BY <1>12, Writers, TelemetrySteps
  <2>2. Filled' = Filled
    <3>1. CASE UNCHANGED pool
      BY <2>1, <3>1 DEF Filled
    <3>2. CASE CreatePool(t)
      BY <2>1, <3>2 DEF CreatePool, CreationInv, Cold, FreshInv, Unused, Creating, Filled, At
    <3> QED
      BY <3>1, <3>2, Writers DEF CreateLocks, CreateSemaphore, attributes
  <2> QED
    BY <1>3, <1>4, <2>1, <2>2
<1> QED
  BY <1>7, <1>8, <1>9, <1>10, <1>11, <1>12

LEMMA TelemetryElse ==
  ASSUME TypeInv, TelemetryInv, (\E b \in Backends : Crash(b)) \/ Close
  PROVE  TelemetryInv'
<1>1. closer \in [pc : {"idle", "read", "close", "done"}, pool : Threads \cup {None},
                  slot : 0 .. Workers, worker : Backends \cup {None}]
  BY DEF TypeInv, PoolTypeOK
<1>2. UNCHANGED <<telemetry, slots, thread>>
  BY DEF Crash, Close, StartClose, CloserReads, CloserCloses, DropPool, shared, workers
<1>3. closer'.pc # "done" => UNCHANGED pool /\ closer.pc # "done"
  BY <1>1 DEF Crash, Close, StartClose, CloserReads, CloserCloses, DropPool, shared, attributes
<1> QED
  BY <1>2, <1>3 DEF TelemetryInv, TelemetryBalanced, Vacating, Engaged

-----------------------------------------------------------------------------
(* The invariant of a calm pool.                                           *)
CalmInv ==
  /\ TypeInv /\ CreationInv /\ FreshInv /\ LocalInv /\ SlotInv /\ ProcessInv
  /\ PermitInv /\ TelemetryInv

LEMMA CalmInitially == PoolInit => CalmInv
<1> SUFFICES ASSUME PoolInit PROVE CalmInv
  OBVIOUS
<1>1. TypeInv
  BY TypeInitially
<1>2. None \notin Threads /\ None \notin Backends /\ Workers \in Nat /\ RestartBudget \in Nat
  BY PoolAssumption DEF Backends, Attempts
<1>3. \A t \in Threads : /\ thread[t].pc = "idle" /\ thread[t].worker = None
                         /\ thread[t].outcome = "none"
  BY DEF PoolInit
<1>4. CreationInv /\ FreshInv
  BY <1>2, <1>3 DEF PoolInit, CreationInv, FreshInv, Unused, Creating, Cold, Inside, Permit, InSlot, At
<1>5. LocalInv
  BY <1>3 DEF LocalInv, Local, At, InSlot, WithWorker
<1>6. SlotInv
  <2>1. \A g \in Threads : \A s \in Slots : slots[g][s] = None
    BY DEF PoolInit
  <2>2. \A t \in Threads : \A a \in Attempts : <<t, a>> # None
    BY <1>2 DEF Backends
  <2> QED
    BY <2>1, <2>2 DEF SlotInv
<1>7. ProcessInv
  BY <1>2, <1>3 DEF PoolInit, ProcessInv, UserInv, PutDownInv, OwnedInv, CloserInv, At
<1>8. PermitInv
  <2>1. Holding = {}
    BY <1>3 DEF Holding, Permit, InSlot
  <2> QED
    BY <2>1, FS_EmptySet DEF PoolInit, PermitInv, PermitsConserved
<1>9. TelemetryInv
  <2>1. Vacating = {} /\ Engaged = {} /\ Filled = {}
    BY <1>3 DEF PoolInit, Vacating, Engaged, Filled
  <2>2. Cardinality({}) = 0 /\ IsFiniteSet({})
    BY FS_EmptySet
  <2>3. telemetry.startups = 0 /\ telemetry.restarts = 0 /\ telemetry.requests = 0 /\ telemetry.errors = 0
    BY DEF PoolInit
  <2> QED
    BY <2>1, <2>2, <2>3, TelemetryParts DEF TelemetryInv
<1> QED
  BY <1>1, <1>4, <1>5, <1>6, <1>7, <1>8, <1>9 DEF CalmInv

LEMMA CalmPreserved == Calm /\ CalmInv /\ [PoolNext]_poolVars => CalmInv'
<1> SUFFICES ASSUME Calm, CalmInv, [PoolNext]_poolVars PROVE CalmInv'
  OBVIOUS
<1>1. TypeInv' /\ CreationInv'
  BY TypePreserved, CreationPreserved DEF CalmInv
<1>2. ASSUME NEW t \in Threads, Call(t) \/ Serve(t) PROVE CalmInv'
  <2>1. At(t, "release") => permits[semaphore] # Workers
    BY PermitOut DEF CalmInv
  <2>2. LocalInv'
    <3>1. ASSUME NEW u \in Threads PROVE Local(u)'
      BY <1>2, <2>1, LocalSelf, LocalOther DEF CalmInv
    <3> QED
      BY <3>1 DEF LocalInv
  <2> QED
    BY <1>1, <1>2, <2>2, FreshThread, SlotThread, ProcessThread, PermitThread, TelemetryThread
       DEF CalmInv
<1>3. CASE (\E b \in Backends : Crash(b)) \/ Close
  BY <1>1, <1>3, FreshElse, LocalElse, SlotElse, ProcessElse, PermitElse, TelemetryElse DEF CalmInv
<1>4. CASE UNCHANGED poolVars
  <2> USE <1>4 DEF poolVars, shared, attributes, waiting, workers
  <2>1. FreshInv' /\ LocalInv' /\ SlotInv'
    BY DEF CalmInv, FreshInv, Unused, LocalInv, Local, SlotInv, At
  <2>2. ProcessInv'
    BY DEF CalmInv, ProcessInv, UserInv, PutDownInv, OwnedInv, CloserInv, At
  <2>3. PermitInv' /\ TelemetryInv'
    BY DEF CalmInv, PermitInv, PermitsConserved, Holding, TelemetryInv, TelemetryBalanced,
       Vacating, Engaged
  <2> QED
    BY <1>1, <2>1, <2>2, <2>3 DEF CalmInv
<1> QED
  BY <1>2, <1>3, <1>4 DEF PoolNext

LEMMA CalmInvariant == Calm /\ PoolSpec => []CalmInv
<1>1. Calm => Calm'
  BY DEF Calm
<1> QED
  BY <1>1, CalmInitially, CalmPreserved, PTL DEF PoolSpec

-----------------------------------------------------------------------------
(* No two requests are at one worker.                                      *)
THEOREM WorkersExclusive == Calm /\ PoolSpec => []WorkerExclusive
<1>1. CalmInv => WorkerExclusive
  <2> SUFFICES ASSUME CalmInv, NEW t \in Threads, NEW u \in Threads,
                      thread[t].pc \in InSlot \ {"unlock"}, thread[u].pc \in InSlot \ {"unlock"},
                      thread[t].worker = thread[u].worker, thread[t].worker # None
               PROVE  t = u
    BY DEF WorkerExclusive
  <2>1. thread[t].pc \in WithWorker /\ thread[u].pc \in WithWorker
    BY DEF CalmInv, LocalInv, Local, BeforeWorker, WithWorker, InSlot
  <2> QED
    BY <2>1, WorkersApart DEF CalmInv
<1> QED
  BY <1>1, CalmInvariant, PTL

(* No permit of the semaphore is lost or invented.                         *)
THEOREM PermitsAreConserved == Calm /\ PoolSpec => []PermitsConserved
<1>1. CalmInv => PermitsConserved
  BY DEF CalmInv, PermitInv
<1> QED
  BY <1>1, CalmInvariant, PTL

(* No request ends with an exception out of the pool.                      *)
THEOREM NoRequestRaises == Calm /\ PoolSpec => []NoException
<1>1. CalmInv => NoException
  BY DEF CalmInv, LocalInv, Local, NoException
<1> QED
  BY <1>1, CalmInvariant, PTL

(* Every process belongs to a worker that close() will find.               *)
THEOREM NoProcessOrphaned == Calm /\ PoolSpec => []NoWorkerOrphaned
<1>1. CalmInv => NoWorkerOrphaned
  BY DEF CalmInv, ProcessInv, OwnedInv, NoWorkerOrphaned
<1> QED
  BY <1>1, CalmInvariant, PTL

(* The counters add up.                                                    *)
THEOREM CountersBalance == Calm /\ PoolSpec => []TelemetryBalanced
<1>1. CalmInv => TelemetryBalanced
  BY DEF CalmInv, TelemetryInv
<1> QED
  BY <1>1, CalmInvariant, PTL

=============================================================================
