----------------------------- MODULE LspBackend -----------------------------
(***************************************************************************)
(* One _PersistentLeanServerBackend: a client that starts a Lean language  *)
(* server, hands it one document version per request and reads the         *)
(* diagnostics that come back, through a reader thread and a queue, until  *)
(* a quiet interval or the deadline.  The lock of the backend admits one   *)
(* request at a time, so requests are numbered.                            *)
(*                                                                         *)
(* Nothing orders the server, the reader thread of each incarnation and    *)
(* the client: output of an earlier document, or of an earlier server,     *)
(* may reach the queue at any time.  A reader looks up self._messages when *)
(* it delivers, so one that lags delivers to its successor's queue.        *)
(***************************************************************************)
EXTENDS Naturals, Sequences, SequencesExt

CONSTANTS
  MaxRequests,  \* bound: requests made of the backend
  MaxStarts,    \* bound: servers started
  MaxPipe,      \* bound: messages in a server's stdout pipe
  MaxQueue      \* bound: messages in the client's queue

ASSUME LspAssumption == {MaxRequests, MaxStarts, MaxPipe, MaxQueue} \subseteq Nat \ {0}

Starts   == 1 .. MaxStarts
Requests == 1 .. MaxRequests

VARIABLES
  proc,        \* the current server, 0 for None
  running,     \* _running
  docOpen,     \* _doc_open
  docVersion,  \* _doc_version
  requestId,   \* _request_id
  pc,          \* where the client is
  request,     \* the request being served, or served last
  local,       \* its version, latest diagnostics, progress flag and request id
  result,      \* its outcome
  queue,       \* _messages
  server,      \* per server: alive, what it received, what it sent once
  pipe,        \* per server: its stdout
  reader       \* per server: its reader thread and the message in its hand

client   == <<proc, running, docOpen, docVersion, requestId, pc, request, local, result>>
outside  == <<server, pipe, reader>>
lspVars  == <<client, queue, outside>>

None == [kind |-> "none"]
EndOfStream == [kind |-> "end"]

(* Messages of a server.  A document's messages carry its version and, for *)
(* the properties only, the request whose source it held.                  *)
Response(id)     == [kind |-> "response", id |-> id]
Register         == [kind |-> "register"]
Progress(d, p)   == [kind |-> "progress", version |-> d.version, about |-> d.about,
                     processing |-> p]
Diagnostics(d)   == [kind |-> "diagnostics", version |-> d.version, about |-> d.about]

NoLocal == [version |-> 0, latest |-> None, processing |-> FALSE, id |-> 0]

LspInit ==
  /\ proc = 0
  /\ running = FALSE /\ docOpen = FALSE
  /\ docVersion = 1 /\ requestId = 1
  /\ pc = "idle" /\ request = 0
  /\ local = NoLocal
  /\ result = "none" /\ queue = <<>>
  /\ server = [i \in Starts |-> [state |-> "unborn", inbox |-> <<>>, answered |-> FALSE,
                                 registered |-> FALSE]]
  /\ pipe = [i \in Starts |-> <<>>]
  /\ reader = [i \in Starts |-> [state |-> "unborn", hand |-> None]]

Alive(i) == i # 0 /\ server[i].state = "alive"

Received(i, msg) == [server EXCEPT ![i].inbox = Append(@, msg)]
Message(method)  == [method |-> method]
Document(method) == [method |-> method, version |-> docVersion, about |-> request]

(* What a shutdown touches, and what the end of a request touches.         *)
incarnation == <<proc, running, docOpen, requestId, server>>
call        == <<pc, local, result>>
streams     == <<pipe, reader>>

Finish(res) == result' = res /\ pc' = "idle" /\ local' = NoLocal

-----------------------------------------------------------------------------
IdAfterShutdown == IF Alive(proc) THEN requestId + 1 ELSE requestId

(* _shutdown_locked: a live server is told, everything is forgotten.       *)
ServerAfterShutdown ==
  [i \in Starts |->
     IF i # proc THEN server[i]
     ELSE [server[i] EXCEPT
             !.state = "exited",
             !.inbox = IF Alive(proc) THEN @ \o <<Message("shutdown"), Message("exit")>> ELSE @]]

Shutdown ==
  /\ server' = ServerAfterShutdown
  /\ requestId' = IdAfterShutdown
  /\ proc' = 0 /\ running' = FALSE /\ docOpen' = FALSE

(* Slip: a failed request leaves its server to the next one.               *)
FailQuietly == Finish("backend_error") /\ UNCHANGED incarnation

(* A failed request takes its server with it.                              *)
Fail == Shutdown /\ Finish("backend_error")

(* run_source, first test of _ensure_started_locked: is there a server?    *)
RunSource ==
  /\ pc = "idle"
  /\ request < MaxRequests
  /\ request' = request + 1
  /\ result' = "none"
  /\ pc' = IF running /\ Alive(proc) THEN "send" ELSE "launch"
  /\ UNCHANGED <<incarnation, docVersion, local, queue, streams>>

(* Popen with a queue and a reader of its own.                             *)
Launch ==
  /\ pc = "launch"
  /\ \E i \in Starts :
       /\ server[i].state = "unborn"
       /\ \A j \in Starts : j < i => server[j].state # "unborn"
       /\ server' = [ServerAfterShutdown EXCEPT ![i].state = "alive"]
       /\ reader' = [reader EXCEPT ![i].state = "reading"]
       /\ proc' = i
  /\ requestId' = IdAfterShutdown + 1
  /\ local' = [local EXCEPT !.id = requestId']
  /\ running' = FALSE /\ docOpen' = FALSE
  /\ queue' = <<>>
  /\ pc' = "hello"
  /\ UNCHANGED <<docVersion, request, result, pipe>>

LaunchFails ==
  /\ pc = "launch"
  /\ Fail
  /\ UNCHANGED <<docVersion, request, queue, streams>>

(* Writing to a server that has exited fails.                              *)
SendFails ==
  /\ pc \in {"hello", "greet"}
  /\ ~Alive(proc)
  /\ Fail
  /\ UNCHANGED <<docVersion, request, queue, streams>>

SendInitialize ==
  /\ pc = "hello"
  /\ Alive(proc)
  /\ server' = Received(proc, [method |-> "initialize", id |-> local.id])
  /\ pc' = "handshake"
  /\ UNCHANGED <<proc, running, docOpen, docVersion, requestId, request, local, result,
                 queue, streams>>

SendInitialized ==
  /\ pc = "greet"
  /\ Alive(proc)
  /\ server' = Received(proc, Message("initialized"))
  /\ running' = TRUE
  /\ pc' = "send"
  /\ UNCHANGED <<proc, docOpen, docVersion, requestId, request, local, result, queue,
                 streams>>

(* Slip: each request opens the document anew.                             *)
AlwaysOpen == "didOpen"
HowToSend  == IF docOpen THEN "didChange" ELSE "didOpen"

(* The version is used up also when the write fails.                       *)
SendDocument ==
  /\ pc = "send"
  /\ docVersion' = docVersion + 1
  /\ \/ /\ Alive(proc)
        /\ server' = Received(proc, Document(HowToSend))
        /\ docOpen' = TRUE
        /\ local' = [NoLocal EXCEPT !.version = docVersion]
        /\ pc' = "collect"
        /\ UNCHANGED <<proc, running, requestId, result>>
     \/ ~Alive(proc) /\ Fail
  /\ UNCHANGED <<request, queue, streams>>

-----------------------------------------------------------------------------
(* _poll_message_locked takes the next message off the queue.              *)
Take(m) ==
  /\ pc \in {"handshake", "collect"}
  /\ queue # <<>>
  /\ m = Head(queue)
  /\ queue' = Tail(queue)

(* The sentinel of a reader that has ended, whichever reader it was.       *)
StreamClosed ==
  /\ Take(EndOfStream)
  /\ Fail
  /\ UNCHANGED <<docVersion, request, streams>>

(* client/registerCapability is answered inside the poll, which then       *)
(* returns as if nothing had come.                                         *)
AnswerRegister ==
  /\ Take(Register)
  /\ \/ /\ Alive(proc)
        /\ server' = Received(proc, Message("reply"))
        /\ UNCHANGED <<proc, running, docOpen, requestId, call>>
     \/ ~Alive(proc) /\ Fail
  /\ UNCHANGED <<docVersion, request, streams>>

Polled(m) == Take(m) /\ m \notin {EndOfStream, Register}

(* Slip: any response is taken for the one to initialize.                  *)
AnyResponse(m) == m.kind = "response"
OwnResponse(m) == m.kind = "response" /\ m.id = local.id

HandshakeResponse ==
  /\ pc = "handshake"
  /\ \E m \in ToSet(queue) :
       /\ Polled(m)
       /\ \/ OwnResponse(m) /\ pc' = "greet" /\ UNCHANGED <<incarnation, local, result>>
          \/ OwnResponse(m) /\ Fail
          \/ ~OwnResponse(m) /\ UNCHANGED <<incarnation, call>>
  /\ UNCHANGED <<docVersion, request, streams>>

(* Slip: the server that did not answer is left running.                   *)
GiveUp ==
  /\ Finish("backend_error")
  /\ proc' = 0 /\ running' = FALSE /\ docOpen' = FALSE
  /\ UNCHANGED <<server, requestId>>
GiveUpAndStop == Fail

HandshakeTimeout ==
  /\ pc = "handshake"
  /\ GiveUpAndStop
  /\ UNCHANGED <<docVersion, request, queue, streams>>

(* Slip: messages are matched by document only.                            *)
AnyVersion(m) == m.kind \in {"progress", "diagnostics"}
Relevant(m)   == m.kind \in {"progress", "diagnostics"} /\ m.version = local.version

CollectMessage ==
  /\ pc = "collect"
  /\ \E m \in ToSet(queue) :
       /\ Polled(m)
       /\ local' =
            IF ~Relevant(m) THEN local
            ELSE IF m.kind = "progress" THEN [local EXCEPT !.processing = m.processing]
            ELSE [local EXCEPT !.latest = m]
  /\ UNCHANGED <<incarnation, docVersion, pc, request, result, streams>>

(* An empty poll after a quiet interval ends the collection.  The server   *)
(* may only have paused.                                                   *)
Settle ==
  /\ pc = "collect"
  /\ local.latest # None
  /\ ~local.processing
  /\ \/ queue = <<>> /\ UNCHANGED <<queue, server>>
     \/ /\ Take(Register)
        /\ Alive(proc)
        /\ server' = Received(proc, Message("reply"))
  /\ Finish("diagnostics")
  /\ UNCHANGED <<proc, running, docOpen, docVersion, requestId, request, streams>>

(* Slip: the clock is looked at only when nothing has come.                *)
DeadlineWhenQuiet ==
  /\ pc = "collect"
  /\ queue = <<>>
  /\ Finish("timeout")
  /\ UNCHANGED <<incarnation, docVersion, request, queue, streams>>

(* The deadline passes: the server stays, with the document still open.    *)
Deadline ==
  /\ pc = "collect"
  /\ Finish("timeout")
  /\ UNCHANGED <<incarnation, docVersion, request, queue, streams>>

(* The pool closes the backend between requests.                           *)
Close ==
  /\ pc = "idle"
  /\ proc # 0
  /\ Shutdown
  /\ UNCHANGED <<docVersion, request, call, queue, streams>>

Client ==
  \/ RunSource \/ Launch \/ LaunchFails \/ SendFails \/ SendInitialize \/ SendInitialized
  \/ SendDocument \/ StreamClosed \/ AnswerRegister \/ HandshakeResponse
  \/ HandshakeTimeout \/ CollectMessage \/ Settle \/ Deadline \/ Close

-----------------------------------------------------------------------------
(* The reader thread of server i, in the two steps of its loop.            *)
ReaderReads(i) ==
  /\ reader[i] = [state |-> "reading", hand |-> None]
  /\ pipe[i] # <<>>
  /\ reader' = [reader EXCEPT ![i].hand = Head(pipe[i])]
  /\ pipe' = [pipe EXCEPT ![i] = Tail(@)]
  /\ UNCHANGED <<client, server, queue>>

Deliver(m) ==
  /\ Len(queue) < MaxQueue
  /\ queue' = Append(queue, m)

ReaderDelivers(i) ==
  /\ reader[i].hand # None
  /\ Deliver(reader[i].hand)
  /\ reader' = [reader EXCEPT ![i].hand = None]
  /\ UNCHANGED <<client, server, pipe>>

(* End of file, or a stream that shutdown has closed under the reader.     *)
ReaderEnds(i) ==
  /\ reader[i] = [state |-> "reading", hand |-> None]
  /\ server[i].state = "exited"
  /\ i = proc => pipe[i] = <<>>
  /\ Deliver(EndOfStream)
  /\ reader' = [reader EXCEPT ![i].state = "ended"]
  /\ pipe' = [pipe EXCEPT ![i] = <<>>]
  /\ UNCHANGED <<client, server>>

ReaderLoop(i) == ReaderReads(i) \/ ReaderDelivers(i) \/ ReaderEnds(i)

(* The Lean server: answers initialize, may register a capability, and     *)
(* reports on any document it has received, however late.                  *)
Emit(i, m) ==
  /\ server[i].state = "alive"
  /\ Len(pipe[i]) < MaxPipe
  /\ pipe' = [pipe EXCEPT ![i] = Append(@, m)]

Respond(i) ==
  /\ ~server[i].answered
  /\ \E k \in DOMAIN server[i].inbox :
       /\ server[i].inbox[k].method = "initialize"
       /\ Emit(i, Response(server[i].inbox[k].id))
  /\ server' = [server EXCEPT ![i].answered = TRUE]

RegisterCapability(i) ==
  /\ server[i].answered /\ ~server[i].registered
  /\ Emit(i, Register)
  /\ server' = [server EXCEPT ![i].registered = TRUE]

Documents(i) ==
  {d \in ToSet(server[i].inbox) : d.method \in {"didOpen", "didChange"}}

Report(i) ==
  /\ \E d \in Documents(i) :
       \/ \E p \in BOOLEAN : Emit(i, Progress(d, p))
       \/ Emit(i, Diagnostics(d))
  /\ UNCHANGED server

Exit(i) ==
  /\ server[i].state = "alive"
  /\ server' = [server EXCEPT ![i].state = "exited"]
  /\ UNCHANGED pipe

LeanServer(i) ==
  /\ Respond(i) \/ RegisterCapability(i) \/ Report(i) \/ Exit(i)
  /\ UNCHANGED <<client, reader, queue>>

LspNext == Client \/ \E i \in Starts : ReaderLoop(i) \/ LeanServer(i)

LspSpec == LspInit /\ [][LspNext]_lspVars

(* The client's loops look at the clock in every turn, whatever arrives.   *)
FairLspSpec ==
  /\ LspSpec
  /\ WF_lspVars(Client /\ pc \in {"launch", "hello", "greet", "send"})
  /\ WF_lspVars(HandshakeTimeout)
  /\ WF_lspVars(Deadline)

-----------------------------------------------------------------------------
(* Diagnostics are believed only about the request being served: nothing   *)
(* an earlier document or an earlier server left behind, in a pipe, in a   *)
(* reader's hand or in the queue, becomes its answer.                      *)
AnswerAboutThisRequest ==
  (pc = "collect" /\ local.latest # None) => local.latest.about = request

(* No server is left running that the backend has forgotten.               *)
NoServerLeaked ==
  \A i \in Starts : server[i].state = "alive" => proc = i

(* The backend is a worker as the pool expects one: an answer or a timeout *)
(* leaves its process in place, an error leaves none, and between requests *)
(* only death and close() touch it.                                        *)
AsWorker ==
  INSTANCE Worker WITH
    serving <- pc # "idle",
    process <- IF proc = 0 THEN "none" ELSE IF Alive(proc) THEN "alive" ELSE "dead",
    outcome <- IF result = "backend_error" THEN "error"
               ELSE IF result = "none" THEN "none" ELSE "answer"

WorkerContract == AsWorker!WorkerSpec

(* A backend that calls itself running has heard its own server's answer   *)
(* to initialize, not the late one of a predecessor.                       *)
RunningMeansInitialized ==
  running => server[proc].answered

(* What a server receives follows the protocol: initialize first, once;    *)
(* documents after initialized; the document opened once, then changed,    *)
(* with growing versions; nothing after exit.                              *)
ProtocolFollowed ==
  \A i \in Starts :
    LET in     == server[i].inbox
        IsDoc(k) == in[k].method \in {"didOpen", "didChange"}
    IN  \A k \in DOMAIN in :
          /\ in[k].method = "initialize" <=> k = 1
          /\ IsDoc(k) => \E j \in 1 .. k - 1 : in[j].method = "initialized"
          /\ in[k].method = "didOpen" <=>
               IsDoc(k) /\ \A j \in 1 .. k - 1 : ~IsDoc(j)
          /\ \A j \in 1 .. k - 1 : /\ IsDoc(j) /\ IsDoc(k) => in[j].version < in[k].version
                                   /\ in[j].method # "exit"

(* Every request ends, by an answer, a failure or the deadline, even when  *)
(* the server falls silent or never stops talking.                         *)
EveryRequestEnds == pc # "idle" ~> pc = "idle"
=============================================================================
