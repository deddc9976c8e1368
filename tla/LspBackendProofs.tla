-------------------------- MODULE LspBackendProofs --------------------------
(***************************************************************************)
(* Proofs about the language server backend, for any number of requests    *)
(* and servers and for pipes and queues of any size: nothing a predecessor *)
(* left behind is believed, servers are told what the protocol allows, and *)
(* the backend is a worker as the pool expects one.                        *)
(***************************************************************************)
EXTENDS LspBackend, SequenceTheorems, TLAPS

(* What a server is sent and what it says.                                 *)
Notices   == [method : {"initialized", "reply", "shutdown", "exit"}]
Openings  == [method : {"initialize"}, id : Nat]
Contents  == [method : {"didOpen", "didChange"}, version : Nat, about : Nat]
Letters   == Notices \cup Openings \cup Contents

Responses == [kind : {"response"}, id : Nat]
Reports   == [kind : {"progress"}, version : Nat, about : Nat, processing : BOOLEAN]
               \cup [kind : {"diagnostics"}, version : Nat, about : Nat]
Sayings   == {Register} \cup Responses \cup Reports

Servers == [state : {"unborn", "alive", "exited"}, inbox : Seq(Letters),
            answered : BOOLEAN, registered : BOOLEAN]
Locals  == [version : Nat, latest : Sayings \cup {None}, processing : BOOLEAN, id : Nat]
Readers == [state : {"unborn", "reading", "ended"}, hand : Sayings \cup {None}]

LspTypeOK ==
  /\ proc \in {0} \cup Starts
  /\ running \in BOOLEAN /\ docOpen \in BOOLEAN
  /\ docVersion \in Nat /\ requestId \in Nat /\ request \in Nat
  /\ pc \in {"idle", "launch", "hello", "handshake", "greet", "send", "collect"}
  /\ result \in {"none", "diagnostics", "timeout", "backend_error"}
  /\ local \in Locals
  /\ queue \in Seq(Sayings \cup {EndOfStream})
  /\ server \in [Starts -> Servers]
  /\ pipe \in [Starts -> Seq(Sayings)]
  /\ reader \in [Starts -> Readers]

(* The client and its server.                                              *)
ControlInv ==
  /\ NoServerLeaked
  /\ running => proc # 0 /\ server[proc].answered
  /\ pc \in {"idle", "launch"} /\ proc # 0 => running
  /\ pc = "launch" => ~Alive(proc)
  /\ pc \in {"hello", "handshake", "greet"} => proc # 0 /\ ~running
  /\ pc = "greet" => server[proc].answered
  /\ pc \in {"send", "collect"} => running
  /\ docOpen => running

(* Messages.  Those on their way, wherever they are.                       *)
InFlight ==
  {m \in Sayings \cup {EndOfStream, None} :
     m \in ToSet(queue) \/ \E i \in Starts : m \in ToSet(pipe[i]) \/ m = reader[i].hand}

(* A version is used once, so what is said of the version being collected  *)
(* is about the request being served.                                      *)
Current(d) ==
  /\ d.version < docVersion
  /\ pc = "collect" /\ d.version = local.version => d.about = request
VersionInv ==
  /\ \A m \in InFlight \cap Reports : Current(m)
  /\ \A i \in Starts : \A d \in Documents(i) : Current(d)
  /\ pc = "collect" => local.version < docVersion
  /\ pc = "collect" /\ local.latest # None => local.latest.about = request

(* An id is used once, so a response with the client's id is its server's. *)
Opened(i) == {m \in ToSet(server[i].inbox) : m.method = "initialize"}
IdInv ==
  /\ \A m \in InFlight \cap Responses :
       /\ m.id <= requestId
       /\ pc = "hello" => m.id < local.id
       /\ pc = "handshake" /\ m.id = local.id => server[proc].answered
  /\ \A i \in Starts : \A m \in Opened(i) :
       /\ m.id <= requestId
       /\ pc = "hello" => m.id < local.id
       /\ pc = "handshake" /\ m.id = local.id => i = proc
  /\ pc = "hello" => local.id <= requestId

(* What a server has received, for any inbox.                              *)
IsDocument(m) == m.method \in {"didOpen", "didChange"}
Protocol(in) ==
  \A k \in 1 .. Len(in) :
    /\ in[k].method = "initialize" <=> k = 1
    /\ IsDocument(in[k]) => \E j \in 1 .. k - 1 : in[j].method = "initialized"
    /\ in[k].method = "didOpen" <=>
         IsDocument(in[k]) /\ \A j \in 1 .. k - 1 : ~IsDocument(in[j])
    /\ \A j \in 1 .. k - 1 :
         /\ IsDocument(in[j]) /\ IsDocument(in[k]) => in[j].version < in[k].version
         /\ in[j].method # "exit"
Inbox(i) ==
  LET in == server[i].inbox
  IN  /\ Protocol(in)
      /\ server[i].state = "unborn" => in = <<>>
      /\ server[i].state = "alive" => \A k \in 1 .. Len(in) : in[k].method # "exit"
      /\ \A k \in 1 .. Len(in) : IsDocument(in[k]) => in[k].version < docVersion
      /\ i = proc =>
           /\ pc = "hello" <=> in = <<>>
           /\ running => \E k \in 1 .. Len(in) : in[k].method = "initialized"
           /\ docOpen <=> \E k \in 1 .. Len(in) : IsDocument(in[k])
InboxInv == \A i \in Starts : Inbox(i)

LspInv == LspTypeOK /\ ControlInv /\ VersionInv /\ IdInv /\ InboxInv

-----------------------------------------------------------------------------
(* Sequences as sets.                                                      *)
LEMMA AppendSet ==
  ASSUME NEW S, NEW q \in Seq(S), NEW m \in S
  PROVE  Append(q, m) \in Seq(S) /\ ToSet(Append(q, m)) = ToSet(q) \cup {m}
<1>1. /\ Append(q, m) \in Seq(S) /\ Len(Append(q, m)) = Len(q) + 1
      /\ \A k \in 1 .. Len(q) : Append(q, m)[k] = q[k]
      /\ Append(q, m)[Len(q) + 1] = m
  BY AppendProperties
<1>2. /\ DOMAIN q = 1 .. Len(q) /\ Len(q) \in Nat
      /\ DOMAIN Append(q, m) = 1 .. Len(q) + 1
  BY <1>1, LenProperties
<1>3. \A k \in 1 .. Len(q) + 1 : k \in 1 .. Len(q) \/ k = Len(q) + 1
  BY <1>2
<1>4. \A k \in 1 .. Len(q) : k \in 1 .. Len(q) + 1
  BY <1>2
<1>5. Len(q) + 1 \in 1 .. Len(q) + 1
  BY <1>2
<1> QED
  BY <1>1, <1>2, <1>3, <1>4, <1>5 DEF ToSet

LEMMA TailSet ==
  ASSUME NEW S, NEW q \in Seq(S), q # <<>>
  PROVE  /\ Head(q) \in S /\ Head(q) \in ToSet(q)
         /\ Tail(q) \in Seq(S) /\ ToSet(Tail(q)) \subseteq ToSet(q)
<1>1. /\ Head(q) \in S /\ Tail(q) \in Seq(S) /\ Len(Tail(q)) = Len(q) - 1
      /\ \A k \in 1 .. Len(Tail(q)) : Tail(q)[k] = q[k + 1]
  BY HeadTailProperties
<1>2. DOMAIN q = 1 .. Len(q) /\ Len(q) \in Nat /\ DOMAIN Tail(q) = 1 .. Len(q) - 1
  BY <1>1, LenProperties
<1>3. Len(q) # 0 /\ Head(q) = q[1]
  BY EmptySeq
<1>4. \A k \in 1 .. Len(q) - 1 : k + 1 \in 1 .. Len(q)
  BY <1>2
<1> QED
  BY <1>1, <1>2, <1>3, <1>4 DEF ToSet

LEMMA SetOfSeq ==
  ASSUME NEW S, NEW q \in Seq(S)
  PROVE  ToSet(q) \subseteq S /\ (ToSet(q) = {} <=> q = <<>>)
<1>1. DOMAIN q = 1 .. Len(q) /\ Len(q) \in Nat
  BY LenProperties
<1>2. q = <<>> <=> Len(q) = 0
  BY EmptySeq
<1>3. \A k \in 1 .. Len(q) : q[k] \in S
  BY ElementOfSeq
<1>4. ToSet(q) = {q[k] : k \in 1 .. Len(q)}
  BY <1>1 DEF ToSet
<1>5. ToSet(q) = {} <=> Len(q) = 0
  <2>1. Len(q) # 0 => 1 \in 1 .. Len(q)
    BY <1>1
  <2>2. ASSUME Len(q) = 0, NEW k \in 1 .. Len(q) PROVE FALSE
    BY <2>2
  <2> QED
    BY <2>1, <2>2, <1>4
<1> QED
  BY <1>2, <1>3, <1>4, <1>5

-----------------------------------------------------------------------------
(* Typing.                                                                 *)
LEMMA ReceivedTyped ==
  ASSUME LspTypeOK, Alive(proc), NEW x \in Letters
  PROVE  /\ Received(proc, x) \in [Starts -> Servers]
         /\ proc \in Starts
         /\ Received(proc, x)[proc] =
              [server[proc] EXCEPT !.inbox = Append(server[proc].inbox, x)]
         /\ \A i \in Starts \ {proc} : Received(proc, x)[i] = server[i]
<1>1. proc \in Starts /\ server \in [Starts -> Servers]
  BY DEF LspTypeOK, Alive
<1>2. Append(server[proc].inbox, x) \in Seq(Letters)
  BY <1>1, AppendSet DEF Servers
<1>3. Received(proc, x) =
        [server EXCEPT ![proc] = [server[proc] EXCEPT !.inbox = Append(server[proc].inbox, x)]]
  BY <1>1 DEF Received
<1>4. [server[proc] EXCEPT !.inbox = Append(server[proc].inbox, x)] \in Servers
  BY <1>1, <1>2 DEF Servers
<1> QED
  BY <1>1, <1>3, <1>4

LEMMA ShutdownTyped ==
  ASSUME LspTypeOK
  PROVE  ServerAfterShutdown \in [Starts -> Servers] /\ IdAfterShutdown \in {requestId, requestId + 1}
<1>1. server \in [Starts -> Servers]
  BY DEF LspTypeOK
<1>2. Message("shutdown") \in Letters /\ Message("exit") \in Letters
  BY DEF Message, Letters, Notices
<1>3. <<Message("shutdown"), Message("exit")>> \in Seq(Letters)
  BY <1>2
<1>4. ASSUME NEW i \in Starts
      PROVE  (IF Alive(proc) THEN server[i].inbox \o <<Message("shutdown"), Message("exit")>>
              ELSE server[i].inbox) \in Seq(Letters)
  BY <1>1, <1>3, ConcatProperties DEF Servers
<1> QED
  BY <1>1, <1>4 DEF ServerAfterShutdown, IdAfterShutdown, Servers

LEMMA LspTypeInitially == LspInit => LspTypeOK
<1> SUFFICES ASSUME LspInit PROVE LspTypeOK
  OBVIOUS
<1>1. NoLocal \in Locals
  BY DEF NoLocal, Locals
<1>2. [state |-> "unborn", inbox |-> <<>>, answered |-> FALSE, registered |-> FALSE] \in Servers
  BY DEF Servers
<1>3. [state |-> "unborn", hand |-> None] \in Readers
  BY DEF Readers
<1>4. <<>> \in Seq(Sayings) /\ <<>> \in Seq(Sayings \cup {EndOfStream})
  BY EmptySeq
<1> QED
  BY <1>1, <1>2, <1>3, <1>4 DEF LspInit, LspTypeOK

LEMMA FailTyped ==
  ASSUME LspTypeOK, Fail
  PROVE  /\ server' \in [Starts -> Servers] /\ local' \in Locals
         /\ proc' = 0 /\ running' = FALSE /\ docOpen' = FALSE /\ requestId' \in Nat
         /\ pc' = "idle" /\ result' = "backend_error" /\ local' = NoLocal
<1>1. NoLocal \in Locals
  BY DEF NoLocal, Locals
<1>2. requestId' \in Nat
  BY ShutdownTyped DEF Fail, Shutdown, LspTypeOK
<1> QED
  BY <1>1, <1>2, ShutdownTyped DEF Fail, Shutdown, Finish

LEMMA TakeTyped ==
  ASSUME LspTypeOK, NEW m, Take(m)
  PROVE  /\ m \in Sayings \cup {EndOfStream} /\ m \in ToSet(queue)
         /\ queue' \in Seq(Sayings \cup {EndOfStream}) /\ ToSet(queue') \subseteq ToSet(queue)
  BY TailSet DEF LspTypeOK, Take

LEMMA LetterTypes ==
  /\ \A k \in {"initialized", "reply", "shutdown", "exit"} : Message(k) \in Letters
  /\ LspTypeOK => /\ [method |-> "initialize", id |-> local.id] \in Letters
                  /\ Document("didOpen") \in Letters /\ Document("didChange") \in Letters
  BY DEF Message, Document, Letters, Notices, Openings, Contents, LspTypeOK, Locals

LEMMA ClientTyped ==
  ASSUME LspTypeOK, Client
  PROVE  LspTypeOK'
<1>0. NoLocal \in Locals
  BY DEF NoLocal, Locals
<1> USE DEF incarnation, call, streams
<1>1. CASE RunSource
  BY <1>1 DEF LspTypeOK, RunSource
<1>2. CASE Launch
  <2>1. PICK i \in Starts :
          /\ server' = [ServerAfterShutdown EXCEPT ![i].state = "alive"]
          /\ reader' = [reader EXCEPT ![i].state = "reading"]
          /\ proc' = i
    BY <1>2 DEF Launch
  <2>2. server' \in [Starts -> Servers] /\ reader' \in [Starts -> Readers]
    <3>1. ServerAfterShutdown \in [Starts -> Servers] /\ reader \in [Starts -> Readers]
      BY ShutdownTyped DEF LspTypeOK
    <3>2. server' \in [Starts -> Servers]
      BY <2>1, <3>1 DEF Servers
    <3>3. reader' \in [Starts -> Readers]
      BY <2>1, <3>1 DEF Readers
    <3> QED
      BY <3>2, <3>3
  <2>3. requestId' \in Nat
    BY <1>2, ShutdownTyped DEF Launch, LspTypeOK
  <2>4. local' \in Locals
    BY <1>2, <2>3 DEF Launch, LspTypeOK, Locals
  <2>5. <<>> \in Seq(Sayings \cup {EndOfStream})
    OBVIOUS
  <2> QED
    BY <1>2, <2>1, <2>2, <2>3, <2>4, <2>5 DEF Launch, LspTypeOK
<1>3. CASE LaunchFails
  BY <1>3, FailTyped DEF LaunchFails, LspTypeOK
<1>4. CASE SendFails
  BY <1>4, FailTyped DEF SendFails, LspTypeOK
<1>5. CASE SendInitialize
  BY <1>5, LetterTypes, ReceivedTyped DEF SendInitialize, LspTypeOK
<1>6. CASE SendInitialized
  BY <1>6, LetterTypes, ReceivedTyped DEF SendInitialized, LspTypeOK
<1>7. CASE SendDocument
  <2>1. CASE ~Alive(proc)
    <3>1. docVersion' \in Nat /\ Fail /\ UNCHANGED <<request, queue, pipe, reader>>
      BY <1>7, <2>1 DEF SendDocument, LspTypeOK
    <3> QED
      BY <3>1, FailTyped DEF LspTypeOK
  <2>2. CASE Alive(proc)
    <3>1. server' \in [Starts -> Servers]
      BY <1>7, <2>2, LetterTypes, ReceivedTyped DEF SendDocument, HowToSend
    <3>2. local' \in Locals
      <4>1. docVersion \in Nat /\ local' = [NoLocal EXCEPT !.version = docVersion]
        BY <1>7, <2>2 DEF SendDocument, LspTypeOK
      <4> QED
        BY <1>0, <4>1 DEF Locals
    <3> QED
      BY <1>7, <2>2, <3>1, <3>2 DEF SendDocument, LspTypeOK
  <2> QED
    BY <2>1, <2>2
<1>8. CASE StreamClosed
  BY <1>8, FailTyped, TakeTyped DEF StreamClosed, LspTypeOK
<1>9. CASE AnswerRegister
  <2>1. CASE Alive(proc)
    BY <1>9, <2>1, TakeTyped, LetterTypes, ReceivedTyped DEF AnswerRegister, LspTypeOK
  <2>2. CASE ~Alive(proc)
    BY <1>9, <2>2, TakeTyped, FailTyped DEF AnswerRegister, LspTypeOK
  <2> QED
    BY <2>1, <2>2
<1>10. CASE HandshakeResponse
  BY <1>10, TakeTyped, FailTyped DEF HandshakeResponse, Polled, LspTypeOK
<1>11. CASE HandshakeTimeout
  BY <1>11, FailTyped DEF HandshakeTimeout, GiveUpAndStop, LspTypeOK
<1>12. CASE CollectMessage
  <2>1. PICK m \in ToSet(queue) :
          /\ Polled(m)
          /\ local' =
               IF ~Relevant(m) THEN local
               ELSE IF m.kind = "progress" THEN [local EXCEPT !.processing = m.processing]
               ELSE [local EXCEPT !.latest = m]
    BY <1>12 DEF CollectMessage
  <2>2. m \in Sayings /\ queue' \in Seq(Sayings \cup {EndOfStream})
    BY <2>1, TakeTyped DEF Polled
  <2>3. m.kind = "progress" => m.processing \in BOOLEAN
    BY <2>2 DEF Sayings, Register, Responses, Reports
  <2>4. local' \in Locals
    BY <2>1, <2>2, <2>3 DEF LspTypeOK, Locals
  <2> QED
    BY <1>12, <2>2, <2>4 DEF CollectMessage, LspTypeOK
<1>13. CASE Settle
  <2>1. server' \in [Starts -> Servers] /\ queue' \in Seq(Sayings \cup {EndOfStream})
    <3>1. CASE queue = <<>> /\ UNCHANGED <<queue, server>>
      BY <3>1 DEF LspTypeOK
    <3>2. CASE Take(Register) /\ Alive(proc) /\ server' = Received(proc, Message("reply"))
      BY <3>2, TakeTyped, LetterTypes, ReceivedTyped
    <3> QED
      BY <1>13, <3>1, <3>2 DEF Settle
  <2>2. local' \in Locals /\ pc' = "idle" /\ result' = "diagnostics"
    BY <1>0, <1>13 DEF Settle, Finish
  <2> QED
    BY <1>13, <2>1, <2>2 DEF Settle, LspTypeOK
<1>14. CASE Deadline
  <2>1. local' \in Locals /\ pc' = "idle" /\ result' = "timeout"
    BY <1>0, <1>14 DEF Deadline, Finish
  <2> QED
    BY <1>14, <2>1 DEF Deadline, LspTypeOK
<1>15. CASE Close
  <2>1. requestId' \in Nat
    BY <1>15, ShutdownTyped DEF Close, Shutdown, LspTypeOK
  <2> QED
    BY <1>15, <2>1, ShutdownTyped DEF Close, Shutdown, LspTypeOK
<1> QED
  BY <1>1, <1>2, <1>3, <1>4, <1>5, <1>6, <1>7, <1>8, <1>9, <1>10, <1>11, <1>12, <1>13, <1>14,
     <1>15 DEF Client

(* What a server may say, given what it has received.                      *)
LEMMA SaidTyped ==
  ASSUME LspTypeOK, NEW i \in Starts
  PROVE  /\ \A k \in DOMAIN server[i].inbox : server[i].inbox[k].method = "initialize" =>
              /\ server[i].inbox[k] \in Opened(i)
              /\ Response(server[i].inbox[k].id) \in Responses
         /\ \A d \in Documents(i) : /\ Diagnostics(d) \in Reports
                                    /\ \A p \in BOOLEAN : Progress(d, p) \in Reports
<1>1. server[i].inbox \in Seq(Letters)
  BY DEF LspTypeOK, Servers
<1>2. ToSet(server[i].inbox) \subseteq Letters
  BY <1>1, SetOfSeq
<1>3. \A m \in Letters : /\ m.method = "initialize" => m.id \in Nat
                         /\ m.method \in {"didOpen", "didChange"} => m.version \in Nat /\ m.about \in Nat
  BY DEF Letters, Notices, Openings, Contents
<1>4. \A k \in DOMAIN server[i].inbox : server[i].inbox[k] \in ToSet(server[i].inbox)
  BY DEF ToSet
<1> QED
  BY <1>2, <1>3, <1>4 DEF Opened, Documents, Response, Responses, Diagnostics, Progress, Reports

(* A message that a server emits.                                          *)
LEMMA EmitTyped ==
  ASSUME LspTypeOK, NEW i \in Starts, NEW m \in Sayings, Emit(i, m)
  PROVE  /\ pipe' \in [Starts -> Seq(Sayings)]
         /\ ToSet(pipe'[i]) = ToSet(pipe[i]) \cup {m}
         /\ \A j \in Starts \ {i} : pipe'[j] = pipe[j]
<1>1. pipe \in [Starts -> Seq(Sayings)]
  BY DEF LspTypeOK
<1>2. pipe' = [pipe EXCEPT ![i] = Append(pipe[i], m)]
  BY <1>1 DEF Emit
<1> QED
  BY <1>1, <1>2, AppendSet

(* The steps of a server: what it says and what becomes of it.             *)
LEMMA ServerSteps ==
  ASSUME LspTypeOK, NEW i \in Starts, LeanServer(i)
  PROVE  /\ server' \in [Starts -> Servers] /\ pipe' \in [Starts -> Seq(Sayings)]
         /\ \A j \in Starts : server'[j].inbox = server[j].inbox
         /\ \A j \in Starts : server[j].answered => server'[j].answered
         /\ \A j \in Starts :
              \/ server'[j].state = server[j].state
              \/ Exit(i) /\ j = i /\ server[j].state = "alive" /\ server'[j].state = "exited"
         /\ \/ UNCHANGED pipe
            \/ \E m \in {Register}
                    \cup {Response(o.id) : o \in {o \in Opened(i) : server'[i].answered}}
                    \cup {Diagnostics(d) : d \in Documents(i)}
                    \cup {Progress(d, p) : d \in Documents(i), p \in BOOLEAN} :
                 m \in Sayings /\ Emit(i, m)
<1>0. server \in [Starts -> Servers] /\ pipe \in [Starts -> Seq(Sayings)]
  BY DEF LspTypeOK
<1>1. CASE Respond(i)
  <2>1. server' = [server EXCEPT ![i].answered = TRUE]
    BY <1>1 DEF Respond
  <2>2. PICK k \in DOMAIN server[i].inbox : /\ server[i].inbox[k].method = "initialize"
                                            /\ Emit(i, Response(server[i].inbox[k].id))
    BY <1>1 DEF Respond
  <2>3. Response(server[i].inbox[k].id) \in Sayings /\ server[i].inbox[k] \in Opened(i)
    BY <2>2, SaidTyped DEF Sayings
  <2>4. pipe' \in [Starts -> Seq(Sayings)]
    BY <2>2, <2>3, EmitTyped
  <2>5. server' \in [Starts -> Servers] /\ server'[i].answered
    BY <1>0, <2>1 DEF Servers
  <2> QED
    BY <1>0, <2>1, <2>2, <2>3, <2>4, <2>5 DEF Servers
<1>2. CASE RegisterCapability(i)
  <2>1. server' = [server EXCEPT ![i].registered = TRUE] /\ Emit(i, Register)
    BY <1>2 DEF RegisterCapability
  <2>2. Register \in Sayings
    BY DEF Sayings
  <2>3. pipe' \in [Starts -> Seq(Sayings)]
    BY <2>1, <2>2, EmitTyped
  <2>4. server' \in [Starts -> Servers] /\ \A j \in Starts : /\ server'[j].inbox = server[j].inbox
                                                         /\ server'[j].state = server[j].state
                                                         /\ server'[j].answered = server[j].answered
    BY <1>0, <2>1 DEF Servers
  <2> QED
    BY <2>1, <2>2, <2>3, <2>4
<1>3. CASE Report(i)
  <2>1. PICK d \in Documents(i) : (\E p \in BOOLEAN : Emit(i, Progress(d, p))) \/ Emit(i, Diagnostics(d))
    BY <1>3 DEF Report
  <2>2. Diagnostics(d) \in Sayings /\ \A p \in BOOLEAN : Progress(d, p) \in Sayings
    BY SaidTyped DEF Sayings
  <2>3. pipe' \in [Starts -> Seq(Sayings)] /\ UNCHANGED server
    BY <1>3, <2>1, <2>2, EmitTyped DEF Report
  <2> QED
    BY <1>0, <2>1, <2>2, <2>3
<1>4. CASE Exit(i)
  <2>1. server' = [server EXCEPT ![i].state = "exited"] /\ UNCHANGED pipe /\ server[i].state = "alive"
    BY <1>4 DEF Exit
  <2>2. server' \in [Starts -> Servers] /\ server'[i].state = "exited"
    BY <1>0, <2>1 DEF Servers
  <2>3. \A j \in Starts : /\ server'[j].inbox = server[j].inbox
                          /\ server'[j].answered = server[j].answered
                          /\ j # i => server'[j].state = server[j].state
    BY <1>0, <2>1 DEF Servers
  <2> QED
    BY <1>0, <1>4, <2>1, <2>2, <2>3
<1> QED
  BY <1>1, <1>2, <1>3, <1>4 DEF LeanServer

LEMMA DeliverTyped ==
  ASSUME LspTypeOK, NEW m \in Sayings \cup {EndOfStream}, Deliver(m)
  PROVE  /\ queue' \in Seq(Sayings \cup {EndOfStream})
         /\ ToSet(queue') = ToSet(queue) \cup {m}
  BY AppendSet DEF LspTypeOK, Deliver

(* The steps of a reader: what is on its way stays what it was.            *)
LEMMA ReaderSteps ==
  ASSUME LspTypeOK, NEW i \in Starts, ReaderLoop(i)
  PROVE  /\ reader' \in [Starts -> Readers] /\ pipe' \in [Starts -> Seq(Sayings)]
         /\ queue' \in Seq(Sayings \cup {EndOfStream})
         /\ InFlight' \subseteq InFlight \cup {EndOfStream, None}
         /\ UNCHANGED <<client, server>>
<1>0. reader \in [Starts -> Readers] /\ pipe \in [Starts -> Seq(Sayings)]
  BY DEF LspTypeOK
<1>1. CASE ReaderReads(i)
  <2>1. /\ reader' = [reader EXCEPT ![i].hand = Head(pipe[i])] /\ pipe' = [pipe EXCEPT ![i] = Tail(pipe[i])]
        /\ UNCHANGED <<client, server, queue>>
    BY <1>0, <1>1 DEF ReaderReads
  <2>2. /\ Head(pipe[i]) \in Sayings /\ Head(pipe[i]) \in ToSet(pipe[i])
        /\ Tail(pipe[i]) \in Seq(Sayings) /\ ToSet(Tail(pipe[i])) \subseteq ToSet(pipe[i])
    BY <1>0, <1>1, TailSet DEF ReaderReads
  <2>3. reader' \in [Starts -> Readers] /\ pipe' \in [Starts -> Seq(Sayings)]
    BY <1>0, <2>1, <2>2 DEF Readers
  <2>4. ASSUME NEW j \in Starts
        PROVE  ToSet(pipe'[j]) \subseteq ToSet(pipe[j]) /\ reader'[j].hand \in {reader[j].hand} \cup ToSet(pipe[j])
    BY <1>0, <2>1, <2>2 DEF Readers
  <2>5. InFlight' \subseteq InFlight
    BY <2>1, <2>4 DEF InFlight
  <2> QED
    BY <2>1, <2>3, <2>5 DEF LspTypeOK
<1>2. CASE ReaderDelivers(i)
  <2>1. /\ reader' = [reader EXCEPT ![i].hand = None] /\ Deliver(reader[i].hand) /\ reader[i].hand # None
        /\ UNCHANGED <<client, server, pipe>>
    BY <1>2 DEF ReaderDelivers
  <2>2. reader[i].hand \in Sayings
    BY <1>0, <2>1 DEF Readers
  <2>3. reader' \in [Starts -> Readers]
    BY <1>0, <2>1 DEF Readers
  <2>4. \A j \in Starts : reader'[j].hand \in {reader[j].hand, None}
    BY <1>0, <2>1 DEF Readers
  <2>5. /\ queue' \in Seq(Sayings \cup {EndOfStream})
        /\ ToSet(queue') = ToSet(queue) \cup {reader[i].hand}
    BY <2>1, <2>2, DeliverTyped
  <2>6. InFlight' \subseteq InFlight \cup {None}
    BY <2>1, <2>4, <2>5 DEF InFlight
  <2> QED
    BY <1>0, <2>1, <2>3, <2>5, <2>6
<1>3. CASE ReaderEnds(i)
  <2>1. /\ reader' = [reader EXCEPT ![i].state = "ended"] /\ pipe' = [pipe EXCEPT ![i] = <<>>]
        /\ Deliver(EndOfStream) /\ UNCHANGED <<client, server>>
    BY <1>3 DEF ReaderEnds
  <2>2. reader' \in [Starts -> Readers] /\ \A j \in Starts : reader'[j].hand = reader[j].hand
    BY <1>0, <2>1 DEF Readers
  <2>3. <<>> \in Seq(Sayings) /\ ToSet(<<>>) = {}
    BY EmptySeq, SetOfSeq
  <2>4. pipe' \in [Starts -> Seq(Sayings)] /\ \A j \in Starts : ToSet(pipe'[j]) \subseteq ToSet(pipe[j])
    BY <1>0, <2>1, <2>3
  <2>5. /\ queue' \in Seq(Sayings \cup {EndOfStream})
        /\ ToSet(queue') = ToSet(queue) \cup {EndOfStream}
    BY <2>1, DeliverTyped
  <2>6. InFlight' \subseteq InFlight \cup {EndOfStream}
    BY <2>2, <2>4, <2>5 DEF InFlight
  <2> QED
    BY <2>1, <2>2, <2>4, <2>5, <2>6
<1> QED
  BY <1>1, <1>2, <1>3 DEF ReaderLoop

LEMMA LspTypePreserved == LspTypeOK /\ [LspNext]_lspVars => LspTypeOK'
<1> SUFFICES ASSUME LspTypeOK, [LspNext]_lspVars PROVE LspTypeOK'
  OBVIOUS
<1>1. CASE Client
  BY <1>1, ClientTyped
<1>2. ASSUME NEW i \in Starts, ReaderLoop(i) PROVE LspTypeOK'
  BY <1>2, ReaderSteps DEF LspTypeOK, client
<1>3. ASSUME NEW i \in Starts, LeanServer(i) PROVE LspTypeOK'
  BY <1>3, ServerSteps DEF LspTypeOK, LeanServer, client
<1>4. CASE UNCHANGED lspVars
  BY <1>4 DEF LspTypeOK, lspVars, client, outside
<1> QED
  BY <1>1, <1>2, <1>3, <1>4 DEF LspNext

-----------------------------------------------------------------------------
(* What the client's steps do to the servers: a letter to a live one, or   *)
(* the end of the current one, or a new one.                               *)
LEMMA ReceivedKeeps ==
  ASSUME LspTypeOK, Alive(proc), NEW x \in Letters, server' = Received(proc, x)
  PROVE  /\ proc \in Starts /\ server[proc].state = "alive"
         /\ \A i \in Starts : /\ server'[i].state = server[i].state
                              /\ server'[i].answered = server[i].answered
                              /\ i # proc => server'[i].inbox = server[i].inbox
         /\ server'[proc].inbox = Append(server[proc].inbox, x)
<1>1. proc \in Starts /\ server[proc].state = "alive" /\ server[proc] \in Servers
  BY DEF Alive, LspTypeOK
<1>2. /\ server'[proc] = [server[proc] EXCEPT !.inbox = Append(server[proc].inbox, x)]
      /\ \A i \in Starts \ {proc} : server'[i] = server[i]
  BY ReceivedTyped
<1> QED
  BY <1>1, <1>2 DEF Servers

LEMMA ShutdownKeeps ==
  ASSUME LspTypeOK, NEW i \in Starts
  PROVE  /\ ServerAfterShutdown[i].answered = server[i].answered
         /\ i # proc => ServerAfterShutdown[i] = server[i]
         /\ i = proc => ServerAfterShutdown[i].state = "exited"
         /\ ~(i = proc /\ Alive(proc)) => ServerAfterShutdown[i].inbox = server[i].inbox
         /\ i = proc /\ Alive(proc) =>
              ServerAfterShutdown[i].inbox =
                server[i].inbox \o <<Message("shutdown"), Message("exit")>>
  BY DEF ServerAfterShutdown, LspTypeOK, Servers

LEMMA LaunchSteps ==
  ASSUME LspTypeOK, ControlInv, Launch
  PROVE  /\ proc' \in Starts /\ server[proc'].state = "unborn" /\ server'[proc'].state = "alive"
         /\ \A i \in Starts : /\ server'[i].inbox = server[i].inbox
                              /\ server'[i].answered = server[i].answered
                              /\ i # proc' => server'[i].state \in {server[i].state, "exited"}
                              /\ i # proc' => server'[i].state # "alive"
         /\ requestId' > requestId /\ requestId' \in Nat /\ local' = [local EXCEPT !.id = requestId']
         /\ ToSet(queue') = {} /\ UNCHANGED pipe
         /\ \A i \in Starts : reader'[i].hand = reader[i].hand
<1>1. PICK i \in Starts :
        /\ server[i].state = "unborn"
        /\ server' = [ServerAfterShutdown EXCEPT ![i].state = "alive"]
        /\ reader' = [reader EXCEPT ![i].state = "reading"]
        /\ proc' = i
  BY DEF Launch
<1>2. ~Alive(proc) /\ requestId \in Nat
  BY DEF ControlInv, Launch, LspTypeOK
<1>3. server'[i] = [ServerAfterShutdown[i] EXCEPT !.state = "alive"] /\ server'[i].state = "alive"
  BY <1>1, ShutdownTyped DEF Servers
<1>4. \A j \in Starts \ {i} : server'[j] = ServerAfterShutdown[j]
  BY <1>1, ShutdownTyped
<1>5. ASSUME NEW j \in Starts
      PROVE  /\ server'[j].inbox = server[j].inbox /\ server'[j].answered = server[j].answered
             /\ j # i => server'[j].state \in {server[j].state, "exited"} /\ server'[j].state # "alive"
  <2>1. CASE j = i
    BY <1>2, <1>3, <2>1, ShutdownKeeps, ShutdownTyped DEF Servers
  <2>2. CASE j # i
    BY <1>2, <1>4, <2>2, ShutdownKeeps DEF ControlInv, NoServerLeaked
  <2> QED
    BY <2>1, <2>2
<1>6. requestId' \in Nat /\ requestId' > requestId
  BY <1>2, ShutdownTyped DEF Launch
<1>7. \A j \in Starts : reader'[j].hand = reader[j].hand
  BY <1>1 DEF LspTypeOK, Readers
<1>8. queue' = <<>> /\ UNCHANGED pipe /\ local' = [local EXCEPT !.id = requestId']
  BY DEF Launch
<1>9. ToSet(<<>>) = {}
  BY EmptySeq, SetOfSeq
<1> QED
  BY <1>1, <1>3, <1>5, <1>6, <1>7, <1>8, <1>9

(* A step of the client puts nothing on its way.                           *)
LEMMA ClientQuiet ==
  ASSUME LspTypeOK, ControlInv, Client
  PROVE  InFlight' \subseteq InFlight
<1>1. CASE Launch
  BY <1>1, LaunchSteps DEF InFlight
<1>2. CASE ~Launch
  <2>1. UNCHANGED streams
    BY <1>2 DEF Client, RunSource, LaunchFails, SendFails, SendInitialize, SendInitialized,
       SendDocument, StreamClosed, AnswerRegister, HandshakeResponse, HandshakeTimeout,
       CollectMessage, Settle, Deadline, Close
  <2>2. UNCHANGED queue \/ \E m : Take(m)
    BY <1>2 DEF Client, RunSource, LaunchFails, SendFails, SendInitialize, SendInitialized,
       SendDocument, StreamClosed, AnswerRegister, HandshakeResponse, HandshakeTimeout,
       CollectMessage, Settle, Deadline, Close, Polled
  <2>3. ToSet(queue') \subseteq ToSet(queue)
    BY <2>2, TakeTyped
  <2> QED
    BY <2>1, <2>3 DEF InFlight, streams
<1> QED
  BY <1>1, <1>2

-----------------------------------------------------------------------------
(* The client and its server.                                              *)
LEMMA FailControl ==
  ASSUME LspTypeOK, ControlInv, Fail
  PROVE  ControlInv'
<1>1. /\ proc' = 0 /\ running' = FALSE /\ docOpen' = FALSE /\ pc' = "idle"
      /\ server' = ServerAfterShutdown
  BY FailTyped DEF Fail, Shutdown
<1>2. \A i \in Starts : server'[i].state # "alive"
  BY <1>1, ShutdownKeeps DEF ControlInv, NoServerLeaked
<1> QED
  BY <1>1, <1>2 DEF ControlInv, NoServerLeaked, Alive

(* The response the client accepts is its own server's.                    *)
LEMMA OwnServerAnswered ==
  ASSUME LspTypeOK, ControlInv, IdInv, pc = "handshake", NEW m, Polled(m), OwnResponse(m)
  PROVE  server[proc].answered
<1>1. m \in Sayings /\ m \in ToSet(queue)
  BY TakeTyped DEF Polled
<1>2. m \in InFlight \cap Responses
  BY <1>1 DEF InFlight, OwnResponse, Sayings, Register, Reports
<1> QED
  BY <1>2 DEF IdInv, OwnResponse

LEMMA ClientControl ==
  ASSUME LspTypeOK, ControlInv, IdInv, Client
  PROVE  ControlInv'
<1> USE DEF incarnation, call
<1>0. NoServerLeaked /\ (Alive(proc) => proc \in Starts)
  BY DEF ControlInv, LspTypeOK, Alive
<1>1. CASE RunSource
  BY <1>1 DEF ControlInv, NoServerLeaked, RunSource, Alive
<1>2. CASE Launch
  <2>1. running' = FALSE /\ docOpen' = FALSE /\ pc' = "hello" /\ proc' # 0
    BY <1>2, LaunchSteps DEF Launch, Starts
  <2> QED
    BY <1>2, <2>1, LaunchSteps DEF ControlInv, NoServerLeaked, Alive
<1>3. CASE LaunchFails \/ SendFails \/ StreamClosed \/ HandshakeTimeout
  BY <1>3, FailControl DEF LaunchFails, SendFails, StreamClosed, HandshakeTimeout, GiveUpAndStop
<1>4. CASE SendInitialize
  <2>1. Alive(proc) /\ server' = Received(proc, [method |-> "initialize", id |-> local.id])
    BY <1>4 DEF SendInitialize
  <2> QED
    BY <1>4, <2>1, LetterTypes, ReceivedKeeps DEF ControlInv, NoServerLeaked, SendInitialize, Alive
<1>5. CASE SendInitialized
  <2>1. Alive(proc) /\ server' = Received(proc, Message("initialized"))
    BY <1>5 DEF SendInitialized
  <2> QED
    BY <1>5, <2>1, LetterTypes, ReceivedKeeps DEF ControlInv, NoServerLeaked, SendInitialized, Alive
<1>6. CASE SendDocument
  <2>1. CASE ~Alive(proc)
    BY <1>6, <2>1, FailControl DEF SendDocument
  <2>2. CASE Alive(proc)
    <3>1. server' = Received(proc, Document(HowToSend)) /\ Document(HowToSend) \in Letters
      BY <1>6, <2>2, LetterTypes DEF SendDocument, HowToSend
    <3> QED
      BY <1>6, <2>2, <3>1, ReceivedKeeps DEF ControlInv, NoServerLeaked, SendDocument, Alive
  <2> QED
    BY <2>1, <2>2
<1>7. CASE AnswerRegister
  <2>1. CASE ~Alive(proc)
    BY <1>7, <2>1, FailControl DEF AnswerRegister
  <2>2. CASE Alive(proc)
    <3>1. server' = Received(proc, Message("reply")) /\ Message("reply") \in Letters
      BY <1>7, <2>2, LetterTypes DEF AnswerRegister
    <3> QED
      BY <1>7, <2>2, <3>1, ReceivedKeeps DEF ControlInv, NoServerLeaked, AnswerRegister, Alive
  <2> QED
    BY <2>1, <2>2
<1>8. CASE HandshakeResponse
  <2>1. PICK m \in ToSet(queue) :
          /\ Polled(m)
          /\ \/ OwnResponse(m) /\ pc' = "greet" /\ UNCHANGED <<incarnation, local, result>>
             \/ OwnResponse(m) /\ Fail
             \/ ~OwnResponse(m) /\ UNCHANGED <<incarnation, call>>
    BY <1>8 DEF HandshakeResponse
  <2>2. CASE OwnResponse(m) /\ pc' = "greet" /\ UNCHANGED <<incarnation, local, result>>
    <3>1. server[proc].answered
      BY <1>8, <2>1, <2>2, OwnServerAnswered DEF HandshakeResponse
    <3> QED
      BY <1>8, <2>2, <3>1 DEF HandshakeResponse, ControlInv, NoServerLeaked, Alive
  <2>3. CASE UNCHANGED <<incarnation, call>>
    BY <2>3 DEF ControlInv, NoServerLeaked, Alive
  <2> QED
    BY <2>1, <2>2, <2>3, FailControl
<1>9. CASE CollectMessage \/ Deadline
  BY <1>9 DEF CollectMessage, Deadline, Finish, ControlInv, NoServerLeaked, Alive
<1>10. CASE Settle
  <2>1. CASE UNCHANGED server
    BY <1>10, <2>1 DEF Settle, Finish, ControlInv, NoServerLeaked, Alive
  <2>2. CASE Alive(proc) /\ server' = Received(proc, Message("reply"))
    BY <1>10, <2>2, LetterTypes, ReceivedKeeps DEF Settle, Finish, ControlInv, NoServerLeaked, Alive
  <2> QED
    BY <1>10, <2>1, <2>2 DEF Settle
<1>11. CASE Close
  <2>1. \A i \in Starts : ServerAfterShutdown[i].state # "alive"
    BY <1>0, ShutdownKeeps DEF NoServerLeaked
  <2> QED
    BY <1>11, <2>1 DEF Close, Shutdown, ControlInv, NoServerLeaked, Alive
<1> QED
  BY <1>1, <1>2, <1>3, <1>4, <1>5, <1>6, <1>7, <1>8, <1>9, <1>10, <1>11 DEF Client

LEMMA ControlPreserved == LspTypeOK /\ ControlInv /\ IdInv /\ [LspNext]_lspVars => ControlInv'
<1> SUFFICES ASSUME LspTypeOK, ControlInv, IdInv, [LspNext]_lspVars PROVE ControlInv'
  OBVIOUS
<1>1. CASE Client
  BY <1>1, ClientControl
<1>2. ASSUME NEW i \in Starts, ReaderLoop(i) PROVE ControlInv'
  BY <1>2, ReaderSteps DEF ControlInv, NoServerLeaked, Alive, client
<1>3. ASSUME NEW i \in Starts, LeanServer(i) PROVE ControlInv'
  <2>1. proc \in {0} \cup Starts /\ UNCHANGED <<proc, running, docOpen, pc>>
    BY <1>3 DEF LspTypeOK, LeanServer, client
  <2> QED
    BY <1>3, <2>1, ServerSteps DEF ControlInv, NoServerLeaked, Alive
<1>4. CASE UNCHANGED lspVars
  BY <1>4 DEF ControlInv, NoServerLeaked, Alive, lspVars, client, outside
<1> QED
  BY <1>1, <1>2, <1>3, <1>4 DEF LspNext

-----------------------------------------------------------------------------
(* What a step of the client adds to an inbox.                             *)
LEMMA ConcatTwo ==
  ASSUME NEW S, NEW q \in Seq(S), NEW a \in S, NEW b \in S
  PROVE  q \o <<a, b>> = Append(Append(q, a), b)
<1>1. Append(q, a) = q \o <<a>> /\ Append(q, a) \in Seq(S)
  BY AppendIsConcat, AppendProperties
<1>2. Append(Append(q, a), b) = Append(q, a) \o <<b>>
  BY <1>1, AppendIsConcat
<1>3. <<a>> \in Seq(S) /\ <<b>> \in Seq(S)
  OBVIOUS
<1>4. (q \o <<a>>) \o <<b>> = q \o (<<a>> \o <<b>>)
  BY <1>3, ConcatAssociative
<1>5. <<a>> \o <<b>> = <<a, b>>
  <2>1. /\ <<a>> \o <<b>> \in Seq(S) /\ Len(<<a>> \o <<b>>) = 2
        /\ \A i \in 1 .. 2 : (<<a>> \o <<b>>)[i] = IF i <= 1 THEN <<a>>[i] ELSE <<b>>[i - 1]
    BY <1>3, ConcatProperties
  <2>2. <<a, b>> \in Seq(S) /\ Len(<<a, b>>) = 2
    OBVIOUS
  <2>3. \A i \in 1 .. 2 : (<<a>> \o <<b>>)[i] = <<a, b>>[i]
    <3>1. (<<a>> \o <<b>>)[1] = a /\ (<<a>> \o <<b>>)[2] = b
      BY <2>1
    <3>2. \A i \in 1 .. 2 : i = 1 \/ i = 2
      OBVIOUS
    <3> QED
      BY <3>1, <3>2
  <2> QED
    BY <2>1, <2>2, <2>3, SeqEqual
<1> QED
  BY <1>1, <1>2, <1>4, <1>5

Sent(i, x) == server'[i].inbox = Append(server[i].inbox, x)
Ended(i)   == server'[i].inbox = Append(Append(server[i].inbox, Message("shutdown")), Message("exit"))

LEMMA FailLetters ==
  ASSUME LspTypeOK, Shutdown, NEW i \in Starts
  PROVE  \/ server'[i].inbox = server[i].inbox
         \/ i = proc /\ Alive(proc) /\ Ended(i)
<1>1. server' = ServerAfterShutdown
  BY DEF Shutdown
<1>2. server[i].inbox \o <<Message("shutdown"), Message("exit")>>
        = Append(Append(server[i].inbox, Message("shutdown")), Message("exit"))
  BY ConcatTwo, LetterTypes DEF LspTypeOK, Servers
<1> QED
  BY <1>1, <1>2, ShutdownKeeps DEF Ended

(* An inbox that gets nothing, and a client that knows no more of it.      *)
Steady(i) ==
  /\ server'[i].inbox = server[i].inbox
  /\ i = proc' =>
       \/ Launch
       \/ /\ proc' = proc /\ docOpen' = docOpen /\ (running' => running)
          /\ pc' = "hello" <=> pc = "hello"

LEMMA InboxSteps ==
  ASSUME LspTypeOK, ControlInv, Client, NEW i \in Starts
  PROVE  \/ Steady(i)
         \/ /\ i = proc /\ Alive(proc)
            /\ \/ SendInitialize /\ Sent(i, [method |-> "initialize", id |-> local.id])
               \/ SendInitialized /\ Sent(i, Message("initialized"))
               \/ /\ SendDocument /\ pc' = "collect" /\ docOpen' = TRUE
                  /\ Sent(i, Document(HowToSend)) /\ UNCHANGED <<proc, running>>
               \/ /\ AnswerRegister \/ Settle
                  /\ Sent(i, Message("reply")) /\ UNCHANGED <<proc, running, docOpen>>
                  /\ pc # "hello" /\ pc' # "hello"
               \/ pc # "hello" /\ proc' = 0 /\ Ended(i) /\ server'[i].state = "exited"
<1> USE DEF incarnation, call
<1>0. proc \in {0} \cup Starts /\ 0 \notin Starts
  BY DEF LspTypeOK, Starts
<1>1. ASSUME Shutdown, pc = "hello" => ~Alive(proc)
      PROVE  \/ Steady(i)
             \/ /\ i = proc /\ Alive(proc)
                /\ pc # "hello" /\ proc' = 0 /\ Ended(i) /\ server'[i].state = "exited"
  BY <1>0, <1>1, FailLetters, ShutdownKeeps DEF Shutdown, Steady
<1>2. CASE Launch
  BY <1>2, LaunchSteps DEF Steady
<1>3. CASE SendInitialize
  <2>1. /\ Alive(proc) /\ server' = Received(proc, [method |-> "initialize", id |-> local.id])
        /\ proc' = proc
    BY <1>3 DEF SendInitialize
  <2> QED
    BY <1>3, <2>1, LetterTypes, ReceivedKeeps DEF Sent, Steady
<1>4. CASE SendInitialized
  <2>1. Alive(proc) /\ server' = Received(proc, Message("initialized")) /\ proc' = proc
    BY <1>4 DEF SendInitialized
  <2> QED
    BY <1>4, <2>1, LetterTypes, ReceivedKeeps DEF Sent, Steady
<1>5. CASE SendDocument
  <2>1. CASE ~Alive(proc)
    BY <1>1, <1>5, <2>1 DEF SendDocument, Fail
  <2>2. CASE Alive(proc)
    <3>1. /\ server' = Received(proc, Document(HowToSend)) /\ Document(HowToSend) \in Letters
          /\ pc' = "collect" /\ docOpen' = TRUE /\ UNCHANGED <<proc, running>>
      BY <1>5, <2>2, LetterTypes DEF SendDocument, HowToSend
    <3> QED
      BY <1>5, <2>2, <3>1, ReceivedKeeps DEF Sent, Steady
  <2> QED
    BY <2>1, <2>2
<1>6. CASE AnswerRegister
  <2>1. pc \in {"handshake", "collect"}
    BY <1>6 DEF AnswerRegister, Take
  <2>2. CASE ~Alive(proc)
    BY <1>1, <1>6, <2>1, <2>2 DEF AnswerRegister, Fail
  <2>3. CASE Alive(proc)
    <3>1. server' = Received(proc, Message("reply")) /\ UNCHANGED <<proc, running, docOpen, pc>>
      BY <1>6, <2>3 DEF AnswerRegister
    <3> QED
      BY <1>6, <2>1, <2>3, <3>1, LetterTypes, ReceivedKeeps DEF Sent, Steady
  <2> QED
    BY <2>2, <2>3
<1>7. CASE Settle
  <2>1. pc = "collect" /\ pc' = "idle" /\ UNCHANGED <<proc, running, docOpen>>
    BY <1>7 DEF Settle, Finish
  <2>2. CASE UNCHANGED server
    BY <2>1, <2>2 DEF Steady
  <2>3. CASE Alive(proc) /\ server' = Received(proc, Message("reply"))
    BY <1>7, <2>1, <2>3, LetterTypes, ReceivedKeeps DEF Sent, Steady
  <2> QED
    BY <1>7, <2>2, <2>3 DEF Settle
<1>8. CASE Close
  BY <1>1, <1>8 DEF Close
<1>9. CASE RunSource \/ CollectMessage \/ Deadline
  BY <1>9 DEF RunSource, CollectMessage, Deadline, Finish, Steady
<1>10. CASE LaunchFails \/ SendFails \/ StreamClosed \/ HandshakeTimeout
  BY <1>1, <1>10 DEF LaunchFails, SendFails, StreamClosed, HandshakeTimeout, GiveUpAndStop, Fail, Take
<1>11. CASE HandshakeResponse
  <2>1. pc = "handshake" /\ (Shutdown \/ (UNCHANGED incarnation /\ pc' # "hello"))
    BY <1>11 DEF HandshakeResponse, Fail
  <2>2. CASE UNCHANGED incarnation /\ pc' # "hello"
    BY <2>1, <2>2 DEF Steady
  <2> QED
    BY <1>1, <2>1, <2>2
<1> QED
  BY <1>2, <1>3, <1>4, <1>5, <1>6, <1>7, <1>8, <1>9, <1>10, <1>11 DEF Client

LEMMA LettersSent ==
  ASSUME LspTypeOK, ControlInv, Client, NEW i \in Starts
  PROVE  /\ \/ Documents(i)' \subseteq Documents(i)
            \/ /\ SendDocument /\ pc' = "collect"
               /\ Documents(i)' \subseteq Documents(i) \cup {Document(HowToSend)}
         /\ \/ Opened(i)' \subseteq Opened(i)
            \/ /\ SendInitialize /\ i = proc
               /\ Opened(i)' \subseteq Opened(i) \cup {[method |-> "initialize", id |-> local.id]}
<1>1. server[i].inbox \in Seq(Letters)
  BY DEF LspTypeOK, Servers
<1>2. ASSUME NEW x \in Letters, Sent(i, x)
      PROVE  ToSet(server'[i].inbox) = ToSet(server[i].inbox) \cup {x}
  BY <1>1, <1>2, AppendSet DEF Sent
<1>3. ASSUME Ended(i)
      PROVE  ToSet(server'[i].inbox) =
               ToSet(server[i].inbox) \cup {Message("shutdown"), Message("exit")}
  <2>1. Message("shutdown") \in Letters /\ Message("exit") \in Letters
    BY LetterTypes
  <2>2. ASSUME NEW q, q = Append(server[i].inbox, Message("shutdown"))
        PROVE  /\ q \in Seq(Letters) /\ ToSet(q) = ToSet(server[i].inbox) \cup {Message("shutdown")}
               /\ ToSet(Append(q, Message("exit"))) = ToSet(q) \cup {Message("exit")}
    <3>1. q \in Seq(Letters) /\ ToSet(q) = ToSet(server[i].inbox) \cup {Message("shutdown")}
      BY <1>1, <2>1, <2>2, AppendSet
    <3> QED
      BY <2>1, <3>1, AppendSet
  <2> QED
    BY <1>3, <2>2 DEF Ended
<1>4. CASE Steady(i)
  BY <1>4 DEF Steady, Documents, Opened
<1>5. CASE SendInitialize /\ i = proc /\ Sent(i, [method |-> "initialize", id |-> local.id])
  <2>1. ToSet(server'[i].inbox) =
          ToSet(server[i].inbox) \cup {[method |-> "initialize", id |-> local.id]}
    BY <1>2, <1>5, LetterTypes
  <2> QED
    BY <1>5, <2>1 DEF Documents, Opened
<1>6. CASE SendDocument /\ pc' = "collect" /\ Sent(i, Document(HowToSend))
  <2>1. Document(HowToSend) \in Letters
    BY LetterTypes DEF HowToSend
  <2>2. ToSet(server'[i].inbox) = ToSet(server[i].inbox) \cup {Document(HowToSend)}
    BY <1>2, <1>6, <2>1
  <2> QED
    BY <1>6, <2>2 DEF Documents, Opened, Document, HowToSend
<1>7. CASE Sent(i, Message("initialized")) \/ Sent(i, Message("reply")) \/ Ended(i)
  <2>1. ToSet(server'[i].inbox) \subseteq ToSet(server[i].inbox)
          \cup {Message(k) : k \in {"initialized", "reply", "shutdown", "exit"}}
    BY <1>2, <1>3, <1>7, LetterTypes
  <2> QED
    BY <2>1 DEF Documents, Opened, Message
<1> QED
  BY <1>4, <1>5, <1>6, <1>7, InboxSteps

-----------------------------------------------------------------------------
(* Ids.                                                                    *)
LEMMA ClientIds ==
  ASSUME LspTypeOK, ControlInv, IdInv, Client
  PROVE  IdInv'
<1> USE DEF incarnation, call
<1>0. /\ requestId \in Nat /\ local.id \in Nat
      /\ \A m \in Responses : m.id \in Nat
      /\ InFlight' \subseteq InFlight
  BY ClientQuiet DEF LspTypeOK, Locals, Responses
<1>1. requestId' \in Nat /\ requestId <= requestId'
  <2>1. CASE UNCHANGED requestId
    BY <1>0, <2>1
  <2>2. CASE Launch
    BY <1>0, <2>2, LaunchSteps
  <2>3. CASE requestId' = IdAfterShutdown
    BY <1>0, <2>3, ShutdownTyped
  <2> QED
    BY <2>1, <2>2, <2>3 DEF Client, RunSource, LaunchFails, SendFails, SendInitialize,
       SendInitialized, SendDocument, StreamClosed, AnswerRegister, HandshakeResponse,
       HandshakeTimeout, GiveUpAndStop, CollectMessage, Settle, Deadline, Close, Fail, Shutdown
<1>2. ASSUME NEW i \in Starts, NEW o \in Opened(i) PROVE o.id \in Nat
  <2>1. ToSet(server[i].inbox) \subseteq Letters
    BY SetOfSeq DEF LspTypeOK, Servers
  <2> QED
    BY <2>1 DEF Opened, Letters, Notices, Openings, Contents
<1>3. ASSUME NEW i \in Starts, NEW o \in Opened(i)'
      PROVE  o \in Opened(i) \/ (SendInitialize /\ i = proc /\ o.id = local.id)
  BY <1>3, LettersSent
<1>4. SendInitialize => local.id <= requestId /\ pc = "hello"
  BY DEF IdInv, SendInitialize
<1>5. CASE Launch
  <2>1. requestId' > requestId /\ local'.id = requestId' /\ pc' = "hello"
    BY <1>5, LaunchSteps DEF Launch, LspTypeOK, Locals
  <2>2. \A i \in Starts : Opened(i)' \subseteq Opened(i)
    BY <1>3, <1>5 DEF Launch, SendInitialize
  <2>3. ASSUME NEW n \in Nat, n <= requestId PROVE n <= requestId' /\ n < local'.id
    BY <1>0, <1>1, <2>1, <2>3
  <2>4. \A m \in InFlight \cap Responses : m.id <= requestId
    BY DEF IdInv
  <2>5. \A i \in Starts : \A o \in Opened(i) : o.id <= requestId
    BY DEF IdInv
  <2>6. local'.id <= requestId'
    BY <1>1, <2>1
  <2> QED
    BY <1>0, <1>2, <2>1, <2>2, <2>3, <2>4, <2>5, <2>6 DEF IdInv
<1>6. CASE ~Launch
  <2>1. pc' # "hello"
    BY <1>6 DEF Client, RunSource, LaunchFails, SendFails, SendInitialize, SendInitialized,
       SendDocument, StreamClosed, AnswerRegister, HandshakeResponse, HandshakeTimeout,
       GiveUpAndStop, CollectMessage, Settle, Deadline, Close, Fail, Finish, Take
  <2>2. ASSUME NEW m \in InFlight' \cap Responses PROVE m.id <= requestId'
    BY <1>0, <1>1, <2>2 DEF IdInv
  <2>3. ASSUME NEW i \in Starts, NEW o \in Opened(i)' PROVE o.id <= requestId'
    BY <1>0, <1>1, <1>2, <1>3, <1>4, <2>3 DEF IdInv
  <2>4. CASE pc' # "handshake"
    BY <2>1, <2>2, <2>3, <2>4 DEF IdInv
  <2>5. CASE SendInitialize
    <3>1. UNCHANGED <<local, proc>> /\ pc = "hello"
      BY <2>5 DEF SendInitialize
    <3>2. ASSUME NEW m \in InFlight' \cap Responses PROVE m.id # local'.id
      BY <1>0, <3>1, <3>2 DEF IdInv
    <3>3. ASSUME NEW i \in Starts, NEW o \in Opened(i)', o.id = local'.id PROVE i = proc'
      BY <1>0, <1>2, <1>3, <3>1, <3>3 DEF IdInv
    <3> QED
      BY <2>1, <2>2, <2>3, <3>2, <3>3 DEF IdInv
  <2>6. CASE pc' = "handshake" /\ ~SendInitialize
    <3>1. pc = "handshake" /\ UNCHANGED <<local, proc>>
      BY <1>6, <2>6 DEF Client, RunSource, LaunchFails, SendFails, SendInitialized, SendDocument,
         StreamClosed, AnswerRegister, HandshakeResponse, HandshakeTimeout, GiveUpAndStop,
         CollectMessage, Settle, Deadline, Close, Fail, Finish
    <3>2. proc \in Starts /\ (server[proc].answered => server'[proc].answered)
      <4>1. proc \in Starts
        BY <3>1 DEF ControlInv, LspTypeOK
      <4>2. AnswerRegister \/ HandshakeResponse
        BY <1>6, <2>6, <3>1 DEF Client, RunSource, LaunchFails, SendFails, SendInitialized,
           SendDocument, StreamClosed, HandshakeTimeout, GiveUpAndStop, CollectMessage, Settle,
           Deadline, Close, Fail, Finish
      <4>3. UNCHANGED server \/ (Alive(proc) /\ server' = Received(proc, Message("reply")))
        BY <2>6, <4>2 DEF AnswerRegister, HandshakeResponse, Fail, Finish
      <4> QED
        BY <4>1, <4>3, LetterTypes, ReceivedKeeps
    <3>3. \A i \in Starts : Opened(i)' \subseteq Opened(i)
      BY <1>3, <2>6
    <3> QED
      BY <1>0, <2>1, <2>2, <2>3, <3>1, <3>2, <3>3 DEF IdInv
  <2> QED
    BY <2>4, <2>5, <2>6
<1> QED
  BY <1>5, <1>6

LEMMA ServerIds ==
  ASSUME LspTypeOK, ControlInv, IdInv, NEW i \in Starts, LeanServer(i)
  PROVE  IdInv'
<1>0. UNCHANGED <<proc, requestId, pc, local, queue, reader>>
  BY DEF LeanServer, client
<1>1. \A j \in Starts : Opened(j)' = Opened(j) /\ (server[j].answered => server'[j].answered)
  BY ServerSteps DEF Opened
<1>2. ASSUME NEW m \in InFlight' \cap Responses
      PROVE  /\ m.id <= requestId
             /\ pc = "hello" => m.id < local.id
             /\ pc = "handshake" /\ m.id = local.id => server'[proc].answered
  <2>1. CASE m \in InFlight
    BY <1>1, <1>2, <2>1 DEF IdInv, ControlInv, LspTypeOK
  <2>2. CASE m \notin InFlight
    <3> DEFINE Said == {Register}
                 \cup {Response(o.id) : o \in {o \in Opened(i) : server'[i].answered}}
                 \cup {Diagnostics(d) : d \in Documents(i)}
                 \cup {Progress(d, p) : d \in Documents(i), p \in BOOLEAN}
    <3>0. ~ UNCHANGED pipe
      BY <1>0, <1>2, <2>2 DEF InFlight
    <3>1. PICK e \in Said : e \in Sayings /\ Emit(i, e)
      BY <3>0, ServerSteps
    <3> HIDE DEF Said
    <3>2. m = e
      <4>1. ToSet(pipe'[i]) = ToSet(pipe[i]) \cup {e} /\ \A j \in Starts \ {i} : pipe'[j] = pipe[j]
        BY <3>1, EmitTyped
      <4>2. \A j \in Starts : ToSet(pipe'[j]) \subseteq ToSet(pipe[j]) \cup {e}
        BY <4>1
      <4>3. \E j \in Starts : m \in ToSet(pipe'[j]) /\ m \notin ToSet(pipe[j])
        BY <1>0, <1>2, <2>2 DEF InFlight
      <4> QED
        BY <4>2, <4>3
    <3>3. PICK o \in Opened(i) : m.id = o.id /\ server'[i].answered
      BY <1>2, <3>1, <3>2 DEF Said, Register, Response, Diagnostics, Progress, Responses
    <3> QED
      BY <3>3 DEF IdInv
  <2> QED
    BY <2>1, <2>2
<1> QED
  BY <1>0, <1>1, <1>2 DEF IdInv

LEMMA IdPreserved == LspTypeOK /\ ControlInv /\ IdInv /\ [LspNext]_lspVars => IdInv'
<1> SUFFICES ASSUME LspTypeOK, ControlInv, IdInv, [LspNext]_lspVars PROVE IdInv'
  OBVIOUS
<1>1. CASE Client
  BY <1>1, ClientIds
<1>2. ASSUME NEW i \in Starts, ReaderLoop(i) PROVE IdInv'
  <2>1. InFlight' \cap Responses \subseteq InFlight \cap Responses
    BY <1>2, ReaderSteps DEF Responses, EndOfStream, None
  <2> QED
    BY <1>2, <2>1, ReaderSteps DEF IdInv, Opened, client
<1>3. ASSUME NEW i \in Starts, LeanServer(i) PROVE IdInv'
  BY <1>3, ServerIds
<1>4. CASE UNCHANGED lspVars
  BY <1>4 DEF IdInv, InFlight, Opened, lspVars, client, outside
<1> QED
  BY <1>1, <1>2, <1>3, <1>4 DEF LspNext

-----------------------------------------------------------------------------
(* Versions.                                                               *)
LEMMA DocumentTypes ==
  ASSUME LspTypeOK, NEW i \in Starts, NEW d \in Documents(i)
  PROVE  d.version \in Nat /\ d.about \in Nat
<1>1. ToSet(server[i].inbox) \subseteq Letters
  BY SetOfSeq DEF LspTypeOK, Servers
<1> QED
  BY <1>1 DEF Documents, Letters, Notices, Openings, Contents

LEMMA ClientVersions ==
  ASSUME LspTypeOK, ControlInv, VersionInv, Client
  PROVE  VersionInv'
<1> USE DEF incarnation, call
<1>0. /\ docVersion \in Nat
      /\ \A m \in Reports : m.version \in Nat
      /\ InFlight' \subseteq InFlight
  BY ClientQuiet DEF LspTypeOK, Reports
<1>1. docVersion' \in Nat /\ docVersion <= docVersion'
  BY <1>0 DEF Client, RunSource, Launch, LaunchFails, SendFails, SendInitialize, SendInitialized,
     SendDocument, StreamClosed, AnswerRegister, HandshakeResponse, HandshakeTimeout,
     CollectMessage, Settle, Deadline, Close
<1>2. CASE pc' # "collect"
  <2>1. \A i \in Starts : Documents(i)' \subseteq Documents(i)
    BY <1>2, LettersSent
  <2>2. ASSUME NEW n \in Nat, n < docVersion PROVE n < docVersion'
    BY <1>0, <1>1, <2>2
  <2> QED
    BY <1>0, <1>2, <2>1, <2>2, DocumentTypes DEF VersionInv, Current
<1>3. CASE pc' = "collect" /\ SendDocument
  <2>1. /\ docVersion' = docVersion + 1 /\ request' = request
        /\ local' = [NoLocal EXCEPT !.version = docVersion]
    BY <1>3, FailTyped DEF SendDocument
  <2>2. local'.version = docVersion /\ local'.latest = None
    BY <2>1 DEF NoLocal
  <2>3. ASSUME NEW n \in Nat, n < docVersion PROVE n < docVersion' /\ n # local'.version
    BY <1>0, <2>1, <2>2, <2>3
  <2>4. ASSUME NEW m \in InFlight' \cap Reports PROVE Current(m)'
    BY <1>0, <2>3, <2>4 DEF VersionInv, Current
  <2>5. ASSUME NEW i \in Starts, NEW d \in Documents(i)' PROVE Current(d)'
    <3>1. CASE d \in Documents(i)
      BY <2>3, <3>1, DocumentTypes DEF VersionInv, Current
    <3>2. CASE d = Document(HowToSend)
      BY <1>0, <2>1, <3>2 DEF Current, Document
    <3> QED
      BY <2>5, <3>1, <3>2, LettersSent
  <2> QED
    BY <1>0, <2>1, <2>2, <2>4, <2>5 DEF VersionInv
<1>4. CASE pc' = "collect" /\ ~SendDocument
  <2>1. AnswerRegister \/ CollectMessage
    BY <1>4 DEF Client, RunSource, Launch, LaunchFails, SendFails, SendInitialize, SendInitialized,
       StreamClosed, HandshakeResponse, HandshakeTimeout, GiveUpAndStop, Settle, Deadline, Close,
       Fail, Finish
  <2>2. pc = "collect" /\ UNCHANGED <<docVersion, request>>
    BY <1>4, <2>1 DEF AnswerRegister, CollectMessage, Fail, Finish
  <2>3. /\ local'.version = local.version
        /\ local'.latest = local.latest \/ local'.latest.about = request
    <3>1. CASE UNCHANGED local
      BY <3>1
    <3>2. CASE CollectMessage
      <4>1. PICK m \in ToSet(queue) :
              /\ Polled(m)
              /\ local' =
                   IF ~Relevant(m) THEN local
                   ELSE IF m.kind = "progress" THEN [local EXCEPT !.processing = m.processing]
                   ELSE [local EXCEPT !.latest = m]
        BY <3>2 DEF CollectMessage
      <4>2. m \in Sayings /\ local \in Locals
        BY <4>1, TakeTyped DEF Polled, LspTypeOK
      <4>3. Relevant(m) => m \in InFlight \cap Reports /\ m.version = local.version
        BY <4>2 DEF InFlight, Relevant, Sayings, Register, Responses
      <4>4. Relevant(m) => m.about = request
        BY <2>2, <4>3 DEF VersionInv, Current
      <4> QED
        BY <4>1, <4>2, <4>4 DEF Locals
    <3> QED
      BY <1>4, <2>1, <3>1, <3>2 DEF AnswerRegister, Fail, Finish
  <2>4. \A i \in Starts : Documents(i)' \subseteq Documents(i)
    BY <1>4, LettersSent
  <2>5. ASSUME NEW m, Current(m) PROVE Current(m)'
    BY <2>2, <2>3, <2>5 DEF Current
  <2> QED
    BY <1>0, <2>2, <2>3, <2>4, <2>5 DEF VersionInv
<1> QED
  BY <1>2, <1>3, <1>4

LEMMA ServerVersions ==
  ASSUME LspTypeOK, VersionInv, NEW i \in Starts, LeanServer(i)
  PROVE  VersionInv'
<1>0. UNCHANGED <<docVersion, pc, local, request, queue, reader>>
  BY DEF LeanServer, client
<1>1. \A j \in Starts : Documents(j)' = Documents(j)
  BY ServerSteps DEF Documents
<1>2. ASSUME NEW m \in InFlight' \cap Reports PROVE Current(m)
  <2>1. CASE m \in InFlight
    BY <1>2, <2>1 DEF VersionInv
  <2>2. CASE m \notin InFlight
    <3> DEFINE Said == {Register}
                 \cup {Response(o.id) : o \in {o \in Opened(i) : server'[i].answered}}
                 \cup {Diagnostics(d) : d \in Documents(i)}
                 \cup {Progress(d, p) : d \in Documents(i), p \in BOOLEAN}
    <3>0. ~ UNCHANGED pipe
      BY <1>0, <1>2, <2>2 DEF InFlight
    <3>1. PICK e \in Said : e \in Sayings /\ Emit(i, e)
      BY <3>0, ServerSteps
    <3> HIDE DEF Said
    <3>2. m = e
      BY <1>0, <1>2, <2>2, <3>1, EmitTyped DEF InFlight
    <3>3. PICK d \in Documents(i) : m.version = d.version /\ m.about = d.about
      BY <1>2, <3>1, <3>2 DEF Said, Register, Response, Diagnostics, Progress, Reports
    <3> QED
      BY <3>3 DEF VersionInv, Current
  <2> QED
    BY <2>1, <2>2
<1> QED
  BY <1>0, <1>1, <1>2 DEF VersionInv, Current

LEMMA VersionPreserved == LspTypeOK /\ ControlInv /\ VersionInv /\ [LspNext]_lspVars => VersionInv'
<1> SUFFICES ASSUME LspTypeOK, ControlInv, VersionInv, [LspNext]_lspVars PROVE VersionInv'
  OBVIOUS
<1>1. CASE Client
  BY <1>1, ClientVersions
<1>2. ASSUME NEW i \in Starts, ReaderLoop(i) PROVE VersionInv'
  <2>1. InFlight' \cap Reports \subseteq InFlight \cap Reports
    BY <1>2, ReaderSteps DEF Reports, EndOfStream, None
  <2> QED
    BY <1>2, <2>1, ReaderSteps DEF VersionInv, Current, Documents, client
<1>3. ASSUME NEW i \in Starts, LeanServer(i) PROVE VersionInv'
  BY <1>3, ServerVersions
<1>4. CASE UNCHANGED lspVars
  BY <1>4 DEF VersionInv, Current, InFlight, Documents, lspVars, client, outside
<1> QED
  BY <1>1, <1>2, <1>3, <1>4 DEF LspNext

-----------------------------------------------------------------------------
(* Inboxes.                                                                *)
LEMMA ProtocolAppend ==
  ASSUME NEW in \in Seq(Letters), NEW x \in Letters, Protocol(in),
         \A k \in 1 .. Len(in) : in[k].method # "exit",
         x.method = "initialize" <=> in = <<>>,
         IsDocument(x) => \E j \in 1 .. Len(in) : in[j].method = "initialized",
         x.method = "didOpen" <=> IsDocument(x) /\ \A j \in 1 .. Len(in) : ~IsDocument(in[j]),
         IsDocument(x) => \A j \in 1 .. Len(in) : IsDocument(in[j]) => in[j].version < x.version
  PROVE  Protocol(Append(in, x))
<1>1. /\ Len(in) \in Nat /\ Len(Append(in, x)) = Len(in) + 1
      /\ \A k \in 1 .. Len(in) : Append(in, x)[k] = in[k]
      /\ Append(in, x)[Len(in) + 1] = x
      /\ in = <<>> <=> Len(in) = 0
  BY AppendProperties, LenProperties, EmptySeq
<1> DEFINE new == Append(in, x)
           n   == Len(in)
<1> HIDE DEF new, n
<1> SUFFICES ASSUME NEW k \in 1 .. n + 1
             PROVE  /\ new[k].method = "initialize" <=> k = 1
                    /\ IsDocument(new[k]) => \E j \in 1 .. k - 1 : new[j].method = "initialized"
                    /\ new[k].method = "didOpen" <=>
                         IsDocument(new[k]) /\ \A j \in 1 .. k - 1 : ~IsDocument(new[j])
                    /\ \A j \in 1 .. k - 1 :
                         /\ IsDocument(new[j]) /\ IsDocument(new[k]) => new[j].version < new[k].version
                         /\ new[j].method # "exit"
  BY <1>1 DEF Protocol, new, n
<1>2. /\ n \in Nat /\ \A j \in 1 .. n : new[j] = in[j]
      /\ new[n + 1] = x /\ (in = <<>> <=> n = 0)
  BY <1>1 DEF new, n
<1>3. CASE k \in 1 .. n
  <2>1. \A j \in 1 .. k - 1 : j \in 1 .. n
    BY <1>2, <1>3
  <2> QED
    BY <1>2, <1>3, <2>1 DEF Protocol, n
<1>4. CASE k = n + 1
  <2>1. 1 .. k - 1 = 1 .. n /\ new[k] = x /\ (k = 1 <=> n = 0)
    BY <1>2, <1>4
  <2> QED
    BY <1>2, <2>1 DEF n
<1> QED
  BY <1>2, <1>3, <1>4

LEMMA StateSteps ==
  ASSUME LspTypeOK, ControlInv, Client, NEW i \in Starts
  PROVE  /\ server'[i].state = "unborn" => server[i].state = "unborn"
         /\ server'[i].state = "alive" => server[i].state \in {"alive", "unborn"}
         /\ docVersion \in Nat /\ docVersion' \in Nat /\ docVersion <= docVersion'
<1> USE DEF incarnation, call
<1>1. docVersion' \in Nat /\ docVersion \in Nat /\ docVersion <= docVersion'
  BY DEF LspTypeOK, Client, RunSource, Launch, LaunchFails, SendFails, SendInitialize, SendInitialized,
     SendDocument, StreamClosed, AnswerRegister, HandshakeResponse, HandshakeTimeout,
     CollectMessage, Settle, Deadline, Close
<1>2. CASE Launch
  BY <1>1, <1>2, LaunchSteps DEF LspTypeOK, Servers
<1>3. CASE server' = ServerAfterShutdown
  BY <1>1, <1>3, ShutdownKeeps
<1>4. ASSUME NEW x \in Letters, Alive(proc), server' = Received(proc, x)
      PROVE  server'[i].state = server[i].state
  BY <1>4, ReceivedKeeps
<1>5. CASE UNCHANGED server
  BY <1>1, <1>5
<1>6. \/ Launch \/ server' = ServerAfterShutdown \/ UNCHANGED server
      \/ \E x \in Letters : Alive(proc) /\ server' = Received(proc, x)
  BY LetterTypes DEF Client, RunSource, LaunchFails, SendFails, SendInitialize, SendInitialized,
     SendDocument, HowToSend, StreamClosed, AnswerRegister, HandshakeResponse, HandshakeTimeout,
     GiveUpAndStop, CollectMessage, Settle, Deadline, Close, Fail, Shutdown
<1> QED
  BY <1>1, <1>2, <1>3, <1>4, <1>5, <1>6

(* A letter to the live server of the client.                              *)
LEMMA SentInbox ==
  ASSUME LspTypeOK, ControlInv, Client, NEW i \in Starts, i = proc, Alive(proc), Inbox(i),
         NEW x \in Letters, Sent(i, x), proc' = proc, pc' # "hello",
         x.method # "exit",
         x.method = "initialize" <=> pc = "hello",
         IsDocument(x) => running /\ x.version = docVersion /\ docVersion' = docVersion + 1,
         x.method = "didOpen" <=> IsDocument(x) /\ ~docOpen,
         running' => running \/ x.method = "initialized",
         docOpen' <=> docOpen \/ IsDocument(x)
  PROVE  Inbox(i)'
<1> DEFINE in  == server[i].inbox
           new == server'[i].inbox
           n   == Len(in)
<1>0. in \in Seq(Letters) /\ server[i].state = "alive"
  BY DEF LspTypeOK, Servers, Alive
<1>1. /\ new = Append(in, x) /\ n \in Nat /\ Len(new) = n + 1 /\ new # <<>>
      /\ \A k \in 1 .. n : new[k] = in[k]
      /\ new[n + 1] = x
  BY <1>0, AppendProperties, LenProperties DEF Sent
<1>2. /\ \A k \in 1 .. n + 1 : k \in 1 .. n \/ k = n + 1
      /\ \A k \in 1 .. n : k \in 1 .. n + 1
      /\ n + 1 \in 1 .. n + 1
  BY <1>1
<1>3. /\ Protocol(in) /\ \A k \in 1 .. n : in[k].method # "exit"
      /\ \A k \in 1 .. n : IsDocument(in[k]) => in[k].version < docVersion
      /\ pc = "hello" <=> in = <<>>
      /\ running => \E k \in 1 .. n : in[k].method = "initialized"
      /\ docOpen <=> \E k \in 1 .. n : IsDocument(in[k])
  BY <1>0 DEF Inbox
<1>4. Protocol(new)
  <2>1. /\ x.method = "initialize" <=> in = <<>>
        /\ IsDocument(x) => \E j \in 1 .. n : in[j].method = "initialized"
        /\ x.method = "didOpen" <=> IsDocument(x) /\ \A j \in 1 .. n : ~IsDocument(in[j])
        /\ IsDocument(x) => \A j \in 1 .. n : IsDocument(in[j]) => in[j].version < x.version
    BY <1>3
  <2>2. Protocol(Append(in, x))
    BY <1>0, <1>3, <2>1, ProtocolAppend
  <2> QED
    BY <1>1, <2>2
<1>5. server'[i].state # "unborn"
  BY <1>0, StateSteps
<1>6. \A k \in 1 .. n + 1 : new[k].method # "exit"
  BY <1>1, <1>2, <1>3
<1>7. ASSUME NEW k \in 1 .. n + 1, IsDocument(new[k]) PROVE new[k].version < docVersion'
  <2>1. CASE k \in 1 .. n
    <3>1. in[k] \in Letters /\ in[k] = new[k]
      BY <1>0, <1>1, <2>1, ElementOfSeq
    <3>2. in[k].version \in Nat
      BY <1>7, <3>1 DEF IsDocument, Letters, Notices, Openings, Contents
    <3>3. in[k].version < docVersion
      BY <1>3, <1>7, <2>1, <3>1
    <3> QED
      BY <3>1, <3>2, <3>3, StateSteps
  <2>2. CASE k = n + 1
    BY <1>1, <1>7, <2>2, StateSteps
  <2> QED
    BY <1>2, <2>1, <2>2
<1>8. running' => \E k \in 1 .. n + 1 : new[k].method = "initialized"
  BY <1>1, <1>2, <1>3
<1>9. docOpen' <=> \E k \in 1 .. n + 1 : IsDocument(new[k])
  BY <1>1, <1>2, <1>3
<1> HIDE DEF in, new, n
<1>10. new = server'[i].inbox
  BY DEF new
<1> QED
  BY <1>1, <1>4, <1>5, <1>6, <1>7, <1>8, <1>9, <1>10 DEF Inbox

LEMMA ClientInbox ==
  ASSUME LspTypeOK, ControlInv, InboxInv, Client, NEW i \in Starts
  PROVE  Inbox(i)'
<1>0. server[i].inbox \in Seq(Letters) /\ Inbox(i) /\ server[i].state \in {"unborn", "alive", "exited"}
  BY DEF LspTypeOK, Servers, InboxInv
<1>1. 0 \notin Starts /\ proc \in {0} \cup Starts
  BY DEF LspTypeOK, Starts
<1> DEFINE in == server[i].inbox
<1>2. CASE Steady(i)
  <2>1. server'[i].inbox = in
    BY <1>2 DEF Steady
  <2>2. ASSUME NEW k \in 1 .. Len(in), IsDocument(in[k]) PROVE in[k].version < docVersion'
    <3>1. in[k] \in Letters
      BY <1>0, ElementOfSeq
    <3>2. in[k].version \in Nat
      BY <2>2, <3>1 DEF IsDocument, Letters, Notices, Openings, Contents
    <3>3. in[k].version < docVersion
      BY <1>0, <2>2 DEF Inbox
    <3> QED
      BY <3>2, <3>3, StateSteps
  <2>3. CASE Launch /\ i = proc'
    <3>1. in = <<>> /\ pc' = "hello" /\ running' = FALSE /\ docOpen' = FALSE
      BY <1>0, <2>3, LaunchSteps DEF Inbox, Launch
    <3>2. 1 .. Len(in) = {}
      BY <3>1
    <3> QED
      BY <1>0, <2>1, <2>3, <3>1, <3>2 DEF Inbox
  <2>4. CASE ~(Launch /\ i = proc')
    <3>1. server'[i].state = "alive" => \A k \in 1 .. Len(in) : in[k].method # "exit"
      BY <1>0, StateSteps DEF Inbox
    <3>2. server'[i].state = "unborn" => in = <<>>
      BY <1>0, StateSteps DEF Inbox
    <3>3. i = proc' =>
            /\ pc' = "hello" <=> in = <<>>
            /\ running' => \E k \in 1 .. Len(in) : in[k].method = "initialized"
            /\ docOpen' <=> \E k \in 1 .. Len(in) : IsDocument(in[k])
      BY <1>0, <1>2, <2>4 DEF Steady, Inbox
    <3> QED
      BY <1>0, <2>1, <2>2, <3>1, <3>2, <3>3 DEF Inbox
  <2> QED
    BY <2>3, <2>4
<1>3. CASE SendInitialize /\ i = proc /\ Alive(proc)
             /\ Sent(i, [method |-> "initialize", id |-> local.id])
  <2>1. pc = "hello" /\ pc' = "handshake" /\ UNCHANGED <<proc, running, docOpen>>
    BY <1>3 DEF SendInitialize
  <2> QED
    BY <1>0, <1>3, <2>1, LetterTypes, SentInbox DEF IsDocument
<1>4. CASE SendInitialized /\ i = proc /\ Alive(proc) /\ Sent(i, Message("initialized"))
  <2>1. pc = "greet" /\ pc' = "send" /\ UNCHANGED <<proc, docOpen>>
    BY <1>4 DEF SendInitialized
  <2> QED
    BY <1>0, <1>4, <2>1, LetterTypes, SentInbox DEF IsDocument, Message
<1>5. CASE /\ SendDocument /\ i = proc /\ Alive(proc) /\ pc' = "collect" /\ docOpen' = TRUE
           /\ Sent(i, Document(HowToSend)) /\ UNCHANGED <<proc, running>>
  <2>1. pc = "send" /\ docVersion' = docVersion + 1 /\ running
    BY <1>5 DEF SendDocument, ControlInv
  <2>2. Document(HowToSend) \in Letters /\ IsDocument(Document(HowToSend))
    BY LetterTypes DEF HowToSend, IsDocument, Document
  <2>3. /\ Document(HowToSend).version = docVersion
        /\ Document(HowToSend).method = "didOpen" <=> ~docOpen
        /\ Document(HowToSend).method \notin {"initialize", "exit"}
    BY DEF HowToSend, Document
  <2> QED
    BY <1>0, <1>5, <2>1, <2>2, <2>3, SentInbox
<1>6. CASE /\ i = proc /\ Alive(proc) /\ Sent(i, Message("reply"))
           /\ UNCHANGED <<proc, running, docOpen>> /\ pc # "hello" /\ pc' # "hello"
  BY <1>0, <1>6, LetterTypes, SentInbox DEF IsDocument, Message
<1>7. CASE /\ i = proc /\ Alive(proc) /\ pc # "hello" /\ proc' = 0
           /\ Ended(i) /\ server'[i].state = "exited"
  <2>1. /\ Message("shutdown") \in Letters /\ Message("exit") \in Letters
        /\ ~IsDocument(Message("shutdown")) /\ ~IsDocument(Message("exit"))
        /\ Message("shutdown").method \notin {"initialize", "exit", "didOpen"}
        /\ Message("exit").method \notin {"initialize", "didOpen"}
    BY LetterTypes DEF IsDocument, Message
  <2>2. /\ Protocol(in) /\ in # <<>> /\ \A k \in 1 .. Len(in) : in[k].method # "exit"
        /\ \A k \in 1 .. Len(in) : IsDocument(in[k]) => in[k].version < docVersion
    BY <1>0, <1>7 DEF Inbox, Alive
  <2>3. ASSUME NEW q, q = Append(in, Message("shutdown")) PROVE Inbox(i)'
    <3>1. /\ q \in Seq(Letters) /\ q # <<>> /\ Len(in) \in Nat /\ Len(q) = Len(in) + 1
          /\ \A k \in 1 .. Len(in) : q[k] = in[k]
          /\ q[Len(in) + 1] = Message("shutdown")
      BY <1>0, <2>1, <2>3, AppendProperties, LenProperties
    <3>2. Protocol(q)
      BY <1>0, <2>1, <2>2, <2>3, ProtocolAppend
    <3>3. \A k \in 1 .. Len(in) + 1 : k \in 1 .. Len(in) \/ k = Len(in) + 1
      BY <3>1
    <3>4. \A k \in 1 .. Len(q) : /\ q[k].method # "exit"
                                 /\ IsDocument(q[k]) => q[k].version < docVersion
      BY <2>1, <2>2, <3>1, <3>3
    <3>5. Protocol(Append(q, Message("exit")))
      BY <2>1, <3>1, <3>2, <3>4, ProtocolAppend
    <3>6. server'[i].inbox = Append(q, Message("exit"))
      BY <1>7, <2>3 DEF Ended
    <3>7. /\ Len(server'[i].inbox) = Len(q) + 1 /\ Len(q) \in Nat
          /\ \A k \in 1 .. Len(q) : server'[i].inbox[k] = q[k]
          /\ server'[i].inbox[Len(q) + 1] = Message("exit")
      BY <2>1, <3>1, <3>6, AppendProperties, LenProperties
    <3>8. \A k \in 1 .. Len(q) + 1 : k \in 1 .. Len(q) \/ k = Len(q) + 1
      BY <3>7
    <3>9. ASSUME NEW k \in 1 .. Len(q) + 1, IsDocument(server'[i].inbox[k])
          PROVE  server'[i].inbox[k].version < docVersion'
      <4>1. k \in 1 .. Len(q) /\ server'[i].inbox[k] = q[k]
        BY <2>1, <3>7, <3>8, <3>9
      <4>2. q[k] \in Letters
        BY <3>1, <4>1, ElementOfSeq
      <4>3. q[k].version \in Nat /\ q[k].version < docVersion
        BY <3>4, <3>9, <4>1, <4>2 DEF IsDocument, Letters, Notices, Openings, Contents
      <4> QED
        BY <4>1, <4>3, StateSteps
    <3> QED
      BY <1>1, <1>7, <3>5, <3>6, <3>7, <3>9 DEF Inbox
  <2> QED
    BY <2>3
<1> QED
  BY <1>2, <1>3, <1>4, <1>5, <1>6, <1>7, InboxSteps

LEMMA InboxPreserved == LspTypeOK /\ ControlInv /\ InboxInv /\ [LspNext]_lspVars => InboxInv'
<1> SUFFICES ASSUME LspTypeOK, ControlInv, InboxInv, [LspNext]_lspVars PROVE InboxInv'
  OBVIOUS
<1>1. CASE Client
  BY <1>1, ClientInbox DEF InboxInv
<1>2. ASSUME NEW i \in Starts, ReaderLoop(i) PROVE InboxInv'
  <2>1. UNCHANGED <<proc, running, docOpen, docVersion, pc, server>>
    BY <1>2, ReaderSteps DEF client
  <2> QED
    BY <2>1 DEF InboxInv, Inbox
<1>3. ASSUME NEW i \in Starts, LeanServer(i), NEW j \in Starts PROVE Inbox(j)'
  <2>1. UNCHANGED <<proc, running, docOpen, docVersion, pc>>
    BY <1>3 DEF LeanServer, client
  <2>2. server'[j].inbox = server[j].inbox /\ server'[j].state \in {server[j].state, "exited"}
    BY <1>3, ServerSteps
  <2>3. Inbox(j)
    BY DEF InboxInv
  <2> QED
    BY <2>1, <2>2, <2>3 DEF Inbox
<1>4. CASE UNCHANGED lspVars
  BY <1>4 DEF InboxInv, Inbox, lspVars, client, outside
<1> QED
  BY <1>1, <1>2, <1>3, <1>4 DEF LspNext, InboxInv

-----------------------------------------------------------------------------
LEMMA LspInitially == LspInit => LspInv
<1> SUFFICES ASSUME LspInit PROVE LspInv
  OBVIOUS
<1>1. LspTypeOK
  BY LspTypeInitially
<1>2. ToSet(<<>>) = {} /\ Len(<<>>) = 0
  BY EmptySeq, SetOfSeq
<1>3. \A i \in Starts : /\ server[i].inbox = <<>> /\ server[i].state = "unborn"
                        /\ pipe[i] = <<>> /\ reader[i].hand = None
  BY DEF LspInit
<1>4. InFlight \subseteq {None}
  BY <1>2, <1>3 DEF LspInit, InFlight
<1>5. \A i \in Starts : Documents(i) = {} /\ Opened(i) = {}
  BY <1>2, <1>3 DEF Documents, Opened
<1>6. ControlInv
  BY <1>3 DEF LspInit, ControlInv, NoServerLeaked, Alive
<1>7. None \notin Reports /\ None \notin Responses
  BY DEF None, Reports, Responses
<1>8. VersionInv
  BY <1>4, <1>5, <1>7 DEF LspInit, VersionInv
<1>9. IdInv
  BY <1>4, <1>5, <1>7 DEF LspInit, IdInv
<1>10. \A i \in Starts : i # 0
  BY DEF Starts
<1>11. 1 .. 0 = {}
  OBVIOUS
<1>12. InboxInv
  BY <1>2, <1>3, <1>10, <1>11 DEF LspInit, InboxInv, Inbox, Protocol
<1> QED
  BY <1>1, <1>6, <1>8, <1>9, <1>12 DEF LspInv

(* The invariant holds throughout.                                         *)
THEOREM LspInvariant == LspSpec => []LspInv
<1>1. LspInv /\ [LspNext]_lspVars => LspInv'
  BY LspTypePreserved, ControlPreserved, VersionPreserved, IdPreserved, InboxPreserved DEF LspInv
<1> QED
  BY <1>1, LspInitially, PTL DEF LspSpec

(* No server is left running that the backend has forgotten, whether the   *)
(* request that used it was answered, timed out or failed.                 *)
THEOREM NoServerIsLeaked == LspSpec => []NoServerLeaked
<1>1. LspInv => NoServerLeaked
  BY DEF LspInv, ControlInv
<1> QED
  BY <1>1, LspInvariant, PTL

(* A backend that calls itself running has heard its own server's answer   *)
(* to initialize, not the late answer of a predecessor.                    *)
THEOREM RunningIsInitialized == LspSpec => []RunningMeansInitialized
<1>1. LspInv => RunningMeansInitialized
  BY DEF LspInv, ControlInv, RunningMeansInitialized
<1> QED
  BY <1>1, LspInvariant, PTL

(* What is believed while a request is served is about that request's      *)
(* document: no late output of an earlier document or server is taken.     *)
THEOREM AnswersAreOwn == LspSpec => []AnswerAboutThisRequest
<1>1. LspInv => AnswerAboutThisRequest
  BY DEF LspInv, VersionInv, AnswerAboutThisRequest
<1> QED
  BY <1>1, LspInvariant, PTL

(* Every server, of any incarnation, receives initialize first and once,   *)
(* its document opened once and then changed in growing versions, nothing  *)
(* before initialized and nothing after exit.                              *)
THEOREM ProtocolIsFollowed == LspSpec => []ProtocolFollowed
<1>1. ASSUME LspInv PROVE ProtocolFollowed
  <2>1. ASSUME NEW i \in Starts
        PROVE  DOMAIN server[i].inbox = 1 .. Len(server[i].inbox) /\ Protocol(server[i].inbox)
    <3>1. server[i].inbox \in Seq(Letters) /\ Protocol(server[i].inbox)
      BY <1>1 DEF LspInv, LspTypeOK, Servers, InboxInv, Inbox
    <3> QED
      BY <3>1, LenProperties
  <2> QED
    BY <2>1 DEF ProtocolFollowed, Protocol, IsDocument
<1> QED
  BY <1>1, LspInvariant, PTL

-----------------------------------------------------------------------------
(* The worker that the pool sees.                                          *)
LEMMA ShutdownAsWorker ==
  ASSUME LspTypeOK, Fail, pc # "idle"
  PROVE  AsWorker!Fail
<1>1. proc' = 0 /\ pc' = "idle" /\ result' = "backend_error"
  BY FailTyped
<1> QED
  BY <1>1 DEF AsWorker!Fail

(* A letter changes nothing the pool sees of the process.                  *)
LEMMA SameProcess ==
  ASSUME LspTypeOK, NEW x \in Letters, Alive(proc), server' = Received(proc, x), proc' = proc
  PROVE  Alive(proc)'
  BY ReceivedKeeps DEF Alive

LEMMA ClientAsWorker ==
  ASSUME LspTypeOK, ControlInv, Client
  PROVE  AsWorker!WorkerNext \/ UNCHANGED AsWorker!workerVars
<1> USE DEF incarnation, call
<1>1. CASE RunSource
  <2>1. pc = "idle" /\ pc' # "idle" /\ result' = "none" /\ proc' = proc /\ Alive(proc)' = Alive(proc)
    BY <1>1 DEF RunSource, Alive
  <2> QED
    BY <2>1 DEF AsWorker!WorkerNext, AsWorker!Begin
<1>2. CASE Launch
  <2>1. pc = "launch" /\ pc' = "hello" /\ result' = result /\ ~Alive(proc)
    BY <1>2 DEF Launch, ControlInv
  <2>2. proc' # 0 /\ Alive(proc)'
    BY <1>2, LaunchSteps DEF Alive, Starts
  <2> QED
    BY <2>1, <2>2 DEF AsWorker!WorkerNext, AsWorker!Spawn
<1>3. CASE Fail /\ pc # "idle"
  BY <1>3, ShutdownAsWorker DEF AsWorker!WorkerNext
<1>4. CASE /\ proc' = proc /\ Alive(proc)' = Alive(proc) /\ result' = result
           /\ pc # "idle" /\ pc' # "idle"
  BY <1>4 DEF AsWorker!workerVars
<1>5. CASE SendInitialize \/ SendInitialized
  <2>1. /\ Alive(proc) /\ proc' = proc /\ result' = result /\ pc # "idle" /\ pc' # "idle"
        /\ \E x \in Letters : server' = Received(proc, x)
    BY <1>5, LetterTypes DEF SendInitialize, SendInitialized
  <2>2. Alive(proc)'
    BY <2>1, SameProcess
  <2> QED
    BY <1>4, <2>1, <2>2
<1>6. CASE SendDocument /\ Alive(proc)
  <2>1. /\ proc' = proc /\ result' = result /\ pc # "idle" /\ pc' # "idle"
        /\ \E x \in Letters : server' = Received(proc, x)
    BY <1>6, LetterTypes DEF SendDocument, HowToSend
  <2>2. Alive(proc)'
    BY <1>6, <2>1, SameProcess
  <2> QED
    BY <1>4, <1>6, <2>1, <2>2
<1>7. CASE AnswerRegister /\ Alive(proc)
  <2>1. /\ proc' = proc /\ result' = result /\ pc # "idle" /\ pc' # "idle"
        /\ \E x \in Letters : server' = Received(proc, x)
    BY <1>7, LetterTypes DEF AnswerRegister, Take
  <2>2. Alive(proc)'
    BY <1>7, <2>1, SameProcess
  <2> QED
    BY <1>4, <1>7, <2>1, <2>2
<1>8. CASE HandshakeResponse \/ CollectMessage
  <2>1. \/ Fail /\ pc # "idle"
        \/ UNCHANGED <<proc, server, result>> /\ pc # "idle" /\ pc' # "idle"
    BY <1>8 DEF HandshakeResponse, CollectMessage
  <2> QED
    BY <1>3, <1>4, <2>1 DEF Alive
<1>9. CASE Settle \/ Deadline
  <2>1. /\ pc = "collect" /\ pc' = "idle" /\ result' \in {"diagnostics", "timeout"} /\ proc' = proc
        /\ UNCHANGED server \/ (Alive(proc) /\ \E x \in Letters : server' = Received(proc, x))
    BY <1>9, LetterTypes DEF Settle, Deadline, Finish
  <2>2. Alive(proc)' = Alive(proc)
    BY <2>1, SameProcess DEF Alive
  <2>3. proc # 0
    BY <2>1 DEF ControlInv
  <2> QED
    BY <2>1, <2>2, <2>3 DEF AsWorker!WorkerNext, AsWorker!Answer
<1>10. CASE Close
  <2>1. pc = "idle" /\ pc' = "idle" /\ proc' = 0 /\ result' = result
    BY <1>10 DEF Close, Shutdown
  <2> QED
    BY <2>1 DEF AsWorker!WorkerNext, AsWorker!Close
<1> QED
  BY <1>1, <1>2, <1>3, <1>5, <1>6, <1>7, <1>8, <1>9, <1>10 DEF Client, LaunchFails, SendFails,
     SendDocument, StreamClosed, AnswerRegister, HandshakeTimeout, GiveUpAndStop, Take

(* The backend is a worker as the pool expects one: it implements the      *)
(* abstract worker, by which the pool's model uses its workers.            *)
THEOREM BackendIsWorker == LspSpec => WorkerContract
<1>1. LspInit => AsWorker!WorkerInit
  BY DEF LspInit, AsWorker!WorkerInit
<1>2. ASSUME LspInv, [LspNext]_lspVars PROVE [AsWorker!WorkerNext]_(AsWorker!workerVars)
  <2>1. CASE Client
    BY <1>2, <2>1, ClientAsWorker DEF LspInv
  <2>2. ASSUME NEW i \in Starts, ReaderLoop(i) PROVE UNCHANGED AsWorker!workerVars
    <3>1. UNCHANGED <<proc, pc, result, server>>
      BY <1>2, <2>2, ReaderSteps DEF LspInv, client
    <3> QED
      BY <3>1 DEF AsWorker!workerVars, Alive
  <2>3. ASSUME NEW i \in Starts, LeanServer(i)
        PROVE  AsWorker!Die \/ UNCHANGED AsWorker!workerVars
    <3>1. UNCHANGED <<proc, pc, result>> /\ proc \in {0} \cup Starts
      BY <1>2, <2>3 DEF LspInv, LspTypeOK, LeanServer, client
    <3>2. \/ server'[proc].state = server[proc].state \/ proc = 0
          \/ server[proc].state = "alive" /\ server'[proc].state = "exited"
      BY <1>2, <2>3, <3>1, ServerSteps DEF LspInv
    <3>3. CASE Alive(proc)' = Alive(proc)
      BY <3>1, <3>3 DEF AsWorker!workerVars
    <3>4. CASE Alive(proc)' # Alive(proc)
      <4>1. proc # 0 /\ Alive(proc) /\ ~Alive(proc)'
        BY <3>1, <3>2, <3>4 DEF Alive
      <4> QED
        BY <3>1, <4>1 DEF AsWorker!Die
    <3> QED
      BY <3>3, <3>4
  <2>4. CASE UNCHANGED lspVars
    BY <2>4 DEF AsWorker!workerVars, lspVars, client, outside, Alive
  <2> QED
    BY <1>2, <2>1, <2>2, <2>3, <2>4 DEF LspNext, AsWorker!WorkerNext
<1> QED
  BY <1>1, <1>2, LspInvariant, PTL DEF LspSpec, WorkerContract, AsWorker!WorkerSpec

=============================================================================
