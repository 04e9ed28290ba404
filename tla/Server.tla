------------------------------ MODULE Server ------------------------------
(***************************************************************************)
(* The network side of ChainDB: the main thread of ChainDB::run, the       *)
(* server thread of Server::process with its REP socket and stop flag,     *)
(* the signal handler, and clients that each make single-shot calls with   *)
(* a timeout (Client::sendMessage).                                        *)
(*                                                                         *)
(* The handler is abstracted to what the loop sees of it: a response, or   *)
(* nullptr when Handler::makeResponse cannot serialize it (a get_blocks    *)
(* response past protobuf's 2 GiB limit).  What the handler does to the    *)
(* chains is the Handler module's business.                                *)
(*                                                                         *)
(* A request is identified by the client and the number of its call: each *)
(* sendMessage opens its own REQ socket, so the pair names the socket the  *)
(* reply is routed back to.  A closed socket's request stays queued (the   *)
(* default linger delivers it); a reply to a closed socket is dropped.     *)
(***************************************************************************)
EXTENDS Naturals, FiniteSets

CONSTANTS
    Clients,        \* client processes
    MaxCalls,       \* calls each client makes
    RequestKinds,   \* request kinds, as far as the loop tells them apart
    OversizeKinds,  \* kinds whose response may fail to serialize
    MaxSignals,     \* SIGINT/SIGTERM deliveries in a behaviour
    NoMsg

VARIABLES
    app,        \* main thread: "boot" (no signal handler yet), "init" (in
                \* initialize, after initializeSignalHandler), "ready"
                \* (initialize succeeded; run() before _server is set),
                \* "created", "running" (in join), "exited" (the process
                \* is done, or run returned)
    flag,       \* Server::_isStopped: TRUE while the server should run
    srv,        \* server thread: "none", "setup" (socket and bind),
                \* "check" (loop condition), "poll", "reply", "exited"
    rep,        \* REP socket: "recv" (may receive) or "send" (owes a reply)
    current,    \* the request the server thread received last
    resp,       \* the handler's result for current: "msg" or "null"
    inbox,      \* requests queued at the REP socket
    wire,       \* replies on their way to a REQ socket
    client,     \* [st: "idle" / "waiting", calls: calls made so far]
    signals,    \* signals delivered so far
    stopCalled  \* ChainDB::stop reached _server->stop()

vars == <<app, flag, srv, rep, current, resp, inbox, wire, client, signals, stopCalled>>

Msgs == [client : Clients, call : 1 .. MaxCalls, kind : RequestKinds]

(***************************************************************************)
(* Main thread and signal handler (ChainDB.cpp).                           *)
(***************************************************************************)

\* ChainDB::initialize up to line 66: initializeSignalHandler installs
\* signalHandler for SIGINT and SIGTERM.
InstallSignalHandler ==
    /\ app = "boot"
    /\ app' = "init"
    /\ UNCHANGED <<flag, srv, rep, current, resp, inbox, wire, client, signals, stopCalled>>

\* The rest of ChainDB::initialize: parseArgs, daemonize, the logger and
\* the random generator.  A bad argument or a random source that is not
\* ready makes initialize return false, and the process ends.
Initialize ==
    /\ app = "init"
    /\ app' \in {"ready", "exited"}
    /\ UNCHANGED <<flag, srv, rep, current, resp, inbox, wire, client, signals, stopCalled>>

\* _server = new Server(...): the constructor sets the flag.
CreateServer ==
    /\ app = "ready"
    /\ app' = "created"
    /\ flag' = TRUE
    /\ UNCHANGED <<srv, rep, current, resp, inbox, wire, client, signals, stopCalled>>

\* _server->start(): the server thread begins in Server::process.
StartServer ==
    /\ app = "created"
    /\ app' = "running"
    /\ srv' = "setup"
    /\ UNCHANGED <<flag, rep, current, resp, inbox, wire, client, signals, stopCalled>>

\* _server->join() returns once the thread has left process().
Join ==
    /\ app = "running"
    /\ srv = "exited"
    /\ app' = "exited"
    /\ UNCHANGED <<flag, srv, rep, current, resp, inbox, wire, client, signals, stopCalled>>

\* Server::stop with test_and_set in place of clear.
ServerStopSets == flag' = TRUE

\* Server::stop: _isStopped.clear().
ServerStop == flag' = FALSE

\* SIGINT/SIGTERM.  Before the handler is installed the default action
\* ends the process.  After it, signalHandler calls ChainDB::stop, which
\* does nothing while _server is still null.
Signal ==
    /\ app # "exited"
    /\ signals < MaxSignals
    /\ signals' = signals + 1
    /\ CASE app = "boot" -> app' = "exited" /\ UNCHANGED <<flag, stopCalled>>
         [] app \in {"init", "ready"} -> UNCHANGED <<app, flag, stopCalled>>
         [] OTHER -> ServerStop /\ stopCalled' = TRUE /\ UNCHANGED app
    /\ UNCHANGED <<srv, rep, current, resp, inbox, wire, client>>

(***************************************************************************)
(* Server thread (Server::process).                                        *)
(***************************************************************************)

\* zmq_ctx_new, zmq_socket and zmq_bind on tcp://*:<port>.  When one of
\* them fails (the port is taken) process() returns before its loop.
Setup ==
    /\ srv = "setup"
    /\ srv' \in {"check", "exited"}
    /\ UNCHANGED <<app, flag, rep, current, resp, inbox, wire, client, signals, stopCalled>>

\* while (_isStopped.test_and_set()): read the flag and set it.
LoopCheck ==
    /\ srv = "check"
    /\ srv' = IF flag THEN "poll" ELSE "exited"
    /\ flag' = TRUE
    /\ UNCHANGED <<app, rep, current, resp, inbox, wire, client, signals, stopCalled>>

\* zmq_poll reports POLLIN only when a request is queued and the REP socket
\* is not waiting to send a reply.
Readable == rep = "recv" /\ inbox # {}

\* zmq_poll times out after ZMQ_POOL_TIMEOUT ms with nothing to read.
PollTimeout ==
    /\ srv = "poll"
    /\ ~Readable
    /\ srv' = "check"
    /\ UNCHANGED <<app, flag, rep, current, resp, inbox, wire, client, signals, stopCalled>>

\* Handler::makeResponse: SerializeToString fails for an oversize response
\* and the handler returns nullptr.
HandlerResponse(kind) == IF kind \in OversizeKinds THEN {"msg", "null"} ELSE {"msg"}

\* zmq_msg_recv of one queued request, then _handler.handleMessage(req).
Receive(m) ==
    /\ srv = "poll"
    /\ Readable
    /\ m \in inbox
    /\ inbox' = inbox \ {m}
    /\ rep' = "send"
    /\ current' = m
    /\ resp' \in HandlerResponse(m.kind)
    /\ srv' = "reply"
    /\ UNCHANGED <<app, flag, wire, client, signals, stopCalled>>

\* A REP socket routes a reply to the socket the request came from; ZMQ
\* drops it when that socket is closed.
Deliver(m) ==
    wire' = IF client[m.client].st = "waiting" /\ client[m.client].calls = m.call
            THEN wire \cup {m} ELSE wire

\* The reply is closed without being sent.
ReplyDropsResponse ==
    /\ srv = "reply"
    /\ srv' = "check"
    /\ UNCHANGED <<app, flag, rep, current, resp, inbox, wire, client, signals, stopCalled>>

\* if (resp) { zmq_msg_send } -- nothing is sent for a null response.
Reply ==
    /\ srv = "reply"
    /\ srv' = "check"
    /\ IF resp = "msg"
       THEN rep' = "recv" /\ Deliver(current)
       ELSE UNCHANGED <<rep, wire>>
    /\ UNCHANGED <<app, flag, current, resp, inbox, client, signals, stopCalled>>

\* zmq_poll, zmq_msg_init, zmq_msg_recv or zmq_msg_init_size fails: the
\* loop breaks and the thread leaves process().
ServerFault ==
    /\ srv \in {"poll", "reply"}
    /\ srv' = "exited"
    /\ UNCHANGED <<app, flag, rep, current, resp, inbox, wire, client, signals, stopCalled>>

(***************************************************************************)
(* Clients (Client::sendMessage).                                          *)
(***************************************************************************)

\* The request goes out on the socket of the previous call.
ClientSendReusesSocket(c, k) ==
    /\ client[c].st = "idle"
    /\ client[c].calls < MaxCalls
    /\ inbox' = inbox \cup {[client |-> c, call |-> client[c].calls, kind |-> k]}
    /\ client' = [client EXCEPT ![c] = [st |-> "waiting", calls |-> @.calls + 1]]
    /\ UNCHANGED <<app, flag, srv, rep, current, resp, wire, signals, stopCalled>>

\* A fresh REQ socket connects and sends the request.
ClientSend(c, k) ==
    /\ client[c].st = "idle"
    /\ client[c].calls < MaxCalls
    /\ inbox' = inbox \cup {[client |-> c, call |-> client[c].calls + 1, kind |-> k]}
    /\ client' = [client EXCEPT ![c] = [st |-> "waiting", calls |-> @.calls + 1]]
    /\ UNCHANGED <<app, flag, srv, rep, current, resp, wire, signals, stopCalled>>

\* zmq_poll reports the reply and zmq_msg_recv takes it.
ClientReceive(c) ==
    /\ client[c].st = "waiting"
    /\ \E m \in wire :
          /\ m.client = c /\ m.call = client[c].calls
          /\ wire' = wire \ {m}
    /\ client' = [client EXCEPT ![c].st = "idle"]
    /\ UNCHANGED <<app, flag, srv, rep, current, resp, inbox, signals, stopCalled>>

\* zmq_poll times out: the socket is closed, a reply still on its way is
\* lost, the request itself may still be served.
ClientTimeout(c) ==
    /\ client[c].st = "waiting"
    /\ client' = [client EXCEPT ![c].st = "idle"]
    /\ wire' = {m \in wire : m.client # c}
    /\ UNCHANGED <<app, flag, srv, rep, current, resp, inbox, signals, stopCalled>>

(***************************************************************************)
(* Specification.                                                          *)
(***************************************************************************)

Init ==
    /\ app = "boot"
    /\ flag = FALSE
    /\ srv = "none"
    /\ rep = "recv"
    /\ current = NoMsg
    /\ resp = "msg"
    /\ inbox = {}
    /\ wire = {}
    /\ client = [c \in Clients |-> [st |-> "idle", calls |-> 0]]
    /\ signals = 0
    /\ stopCalled = FALSE

\* The process has exited and every client has given up or been answered.
Terminated ==
    /\ app = "exited"
    /\ \A c \in Clients : client[c].st = "idle"
    /\ UNCHANGED vars

Next ==
    \/ InstallSignalHandler \/ Initialize
    \/ CreateServer \/ StartServer \/ Join \/ Signal
    \/ Setup \/ LoopCheck \/ PollTimeout \/ Reply \/ ServerFault
    \/ \E m \in inbox : Receive(m)
    \/ \E c \in Clients :
          \/ \E k \in RequestKinds : ClientSend(c, k)
          \/ ClientReceive(c)
          \/ ClientTimeout(c)
    \/ Terminated

\* The main thread and the server thread are always scheduled; ZMQ fair
\* queuing receives every queued request the socket keeps offering.
Fairness ==
    /\ WF_vars(InstallSignalHandler) /\ WF_vars(Initialize)
    /\ WF_vars(CreateServer) /\ WF_vars(StartServer) /\ WF_vars(Join)
    /\ WF_vars(Setup) /\ WF_vars(LoopCheck) /\ WF_vars(PollTimeout) /\ WF_vars(Reply)
    /\ \A m \in Msgs : SF_vars(Receive(m))

Spec == Init /\ [][Next]_vars /\ Fairness

(***************************************************************************)
(* Properties.                                                             *)
(***************************************************************************)

\* The type invariant.
TypeOK ==
    /\ app \in {"boot", "init", "ready", "created", "running", "exited"}
    /\ flag \in BOOLEAN
    /\ srv \in {"none", "setup", "check", "poll", "reply", "exited"}
    /\ rep \in {"recv", "send"}
    /\ current \in Msgs \cup {NoMsg}
    /\ resp \in {"msg", "null"}
    /\ inbox \subseteq Msgs
    /\ wire \subseteq Msgs
    /\ client \in [Clients -> [st : {"idle", "waiting"}, calls : 0 .. MaxCalls]]
    /\ signals \in 0 .. MaxSignals
    /\ stopCalled \in BOOLEAN

\* spec.md C11 cooperative shutdown: once ChainDB::stop has cleared the
\* flag of a constructed server, the server thread leaves its loop and run()
\* returns, however many requests keep arriving (the flag is read, and
\* re-set, by test_and_set at every iteration).
StopHonoured == stopCalled ~> app = "exited"

\* spec.md 5: the server honours the stop flag raised by the signal handler
\* for SIGINT/SIGTERM: every delivered stop signal ends run().
SignalHonoured == signals > 0 ~> app = "exited"

\* spec.md C11 strict request/reply: every request queued at the server's
\* socket is eventually received, unless the server thread has left its
\* loop or the process has ended (initialize failed, or a signal arrived
\* before the handler was installed); i.e. the REP socket never stays
\* waiting for a reply that is never sent.
RequestsEventuallyServed ==
    \A m \in Msgs : m \in inbox ~> (m \notin inbox \/ srv = "exited" \/ app = "exited")


=============================================================================
