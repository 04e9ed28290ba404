-------------------------------- MODULE Cli --------------------------------
(***************************************************************************)
(* The chaindb command-line client (cli/src/Application.cpp) talking to    *)
(* the server's request handler.  One invocation of the binary is: the     *)
(* Application constructor's defaults, initialize() (parseArgs over argv,  *)
(* then a Client with the timeout in ms), run() (the first request flag    *)
(* set wins), and processRequest: one single-shot sendMessage that returns *)
(* the reply, or nothing when zmq_poll times out.  The user may run the    *)
(* binary again; a request whose client gave up stays queued at the        *)
(* server and is still served.                                             *)
(*                                                                         *)
(* Command-line words are strings; what std::stoi reads from a word is     *)
(* IntPrefix(word): an int, NoInt (no digits: invalid_argument) or         *)
(* Overflow (digits past INT_MAX: out_of_range).                           *)
(***************************************************************************)
EXTENDS Integers, Sequences, TLC

CONSTANTS ChainIds, Payloads, PrivateKeys, Nonces, MaxBlocks, DBVersion,
          GenesisRounds, NoDB, Missing, Idle, Passwords, ServerPassword,
          NoPassword, NoAuth, HashBytes, MaxDataLength, DataLength(_),
          NoResponse

CONSTANTS
    Argvs,          \* command lines a user runs (argv without argv[0])
    IntPrefix(_),   \* the number std::stoi reads from a word
    NoInt,          \* IntPrefix of a word without leading digits
    Overflow,       \* IntPrefix of digits outside int
    Aborted,        \* the process ended by std::terminate (SIGABRT)
    MaxInvocations  \* times the binary is run in a behaviour

VARIABLES db, pending, reply, tampers, request, response, before

VARIABLES
    pc,         \* "idle" (no process), "run" (initialized), "wait" (in
                \* sendMessage), "exited"
    opts,       \* the Application's option fields, by command-line key
    timeoutMs,  \* the Client's _timeout
    exitCode,   \* main's return: 0, -1, or Aborted
    queue,      \* requests queued at the server, with their invocation
    received,   \* the reply sendMessage got, or NoResponse
    serving,    \* the invocation whose request the server is handling
    runs,       \* invocations so far
    lost        \* the request of the current invocation died with the
                \* server before it was answered (history, for CliTerminates)

H == INSTANCE Handler

handlerVars == <<db, pending, reply, tampers, request, response, before>>
cliVars == <<pc, opts, timeoutMs, exitCode, queue, received, serving, runs, lost>>
vars == <<handlerVars, cliVars>>

(***************************************************************************)
(* Application state and argument parsing.                                 *)
(***************************************************************************)

\* The types of the HandlerMap of Application::initialize.
HandlerMap ==
    [k \in {"--ping", "--create-chain", "--remove-chain", "--add-block",
            "--get-block", "--get-blocks", "--verify-chain", "--get-header",
            "--get-keys", "--get-info"} |-> "bool"]
    @@ [k \in {"--port", "--timeout", "--chain-id", "--block-id"} |-> "int"]
    @@ [k \in {"--addr", "--password", "--data"} |-> "string"]

\* The Application's option fields: the ten request flags are bools, port,
\* timeout and the two ids ints, address, password and data strings.
IsOptions(o) ==
    /\ DOMAIN o = DOMAIN HandlerMap
    /\ \A k \in DOMAIN o :
          CASE HandlerMap[k] = "bool" -> o[k] \in BOOLEAN
            [] HandlerMap[k] = "int" -> o[k] \in Int
            [] OTHER -> o[k] \in STRING

\* Application::Application: the defaults of every option.
Defaults ==
    [k \in DOMAIN HandlerMap |->
        CASE HandlerMap[k] = "bool" -> FALSE
          [] k = "--addr" -> "127.0.0.1"
          [] k = "--port" -> 8888
          [] k \in {"--timeout", "--chain-id", "--block-id"} -> 1
          [] k = "--password" -> ""
          [] k = "--data" -> "{}"]

\* std::stoi: the leading number, or the exception it throws.
Stoi(w) ==
    [thrown |-> CASE IntPrefix(w) = NoInt -> "invalid_argument"
                  [] IntPrefix(w) = Overflow -> "out_of_range"
                  [] OTHER -> "none",
     value |-> IntPrefix(w)]

(***************************************************************************)
(* IApplication::parseArgs: key/value pairs, left to right.  A key with no *)
(* value or an unknown key prints the help and fails, an int value without *)
(* digits fails, and out_of_range is not caught: it leaves main through    *)
(* std::terminate.  (The "Type is not supported" branch cannot be taken:   *)
(* every handler is a bool, int or string.)                                *)
(***************************************************************************)
RECURSIVE ParseArgs(_, _)
ParseArgs(args, o) ==
    IF args = <<>> THEN [status |-> "ok", opts |-> o]
    ELSE IF Len(args) = 1 \/ args[1] \notin DOMAIN HandlerMap
    THEN [status |-> "error", opts |-> o]
    ELSE LET k == args[1]
             v == args[2]
             rest == SubSeq(args, 3, Len(args))
         IN  CASE HandlerMap[k] = "bool" ->
                    ParseArgs(rest, [o EXCEPT ![k] = (v = "true")])
               [] HandlerMap[k] = "string" ->
                    ParseArgs(rest, [o EXCEPT ![k] = v])
               [] Stoi(v).thrown = "invalid_argument" -> [status |-> "error", opts |-> o]
               [] Stoi(v).thrown = "out_of_range" -> [status |-> "abort", opts |-> o]
               [] OTHER -> ParseArgs(rest, [o EXCEPT ![k] = Stoi(v).value])

TIMEOUT_MS == 1000

\* main returning 1 for a failure.
ExitCodeOne(ok) == IF ok THEN 0 ELSE 1

\* main: -1 when initialize() or run() returns false, else 0.
ExitCode(ok) == IF ok THEN 0 ELSE -1

(***************************************************************************)
(* Requests (Application::ping ... getChainInfo, setAuthData).             *)
(***************************************************************************)

\* The request flags in the order Application::run tests them, with the
\* request kind each one sends.
RunOrder ==
    <<"--ping", "--create-chain", "--remove-chain", "--add-block",
      "--get-block", "--get-blocks", "--verify-chain", "--get-header",
      "--get-keys", "--get-info">>

KindOf ==
    [f \in {RunOrder[i] : i \in 1 .. Len(RunOrder)} |->
        CASE f = "--ping" -> "ping"
          [] f = "--create-chain" -> "createChain"
          [] f = "--remove-chain" -> "removeChain"
          [] f = "--add-block" -> "addBlock"
          [] f = "--get-block" -> "getBlock"
          [] f = "--get-blocks" -> "getBlocks"
          [] f = "--verify-chain" -> "verifyChain"
          [] f = "--get-header" -> "getChainHeader"
          [] f = "--get-keys" -> "getChainKeys"
          [] f = "--get-info" -> "getChainInfo"]

\* The position in RunOrder of the first flag set, 0 when none is.
FirstFlag(o) ==
    IF \E i \in 1 .. Len(RunOrder) : o[RunOrder[i]]
    THEN CHOOSE i \in 1 .. Len(RunOrder) :
            o[RunOrder[i]] /\ \A j \in 1 .. i - 1 : ~o[RunOrder[j]]
    ELSE 0

\* setAuthData on req.mutable_auth_data(): the AuthData is present from
\* mutable_auth_data() on, and its hash is set only for a non-empty
\* password.  ping() never calls it.
AuthData(o, kind) ==
    CASE kind = "ping" -> NoAuth
      [] o["--password"] = "" -> [length |-> 0, hash |-> ""]
      [] OTHER -> [length |-> HashBytes, hash |-> H!PasswordHash(o["--password"])]

\* The request the handler function for kind builds from the options.
MakeRequest(o, kind) ==
    [kind |-> kind, auth |-> AuthData(o, kind), chain |-> o["--chain-id"],
     data |-> IF kind \in {"createChain", "addBlock"} THEN o["--data"] ELSE Missing,
     block |-> IF kind = "getBlock" THEN o["--block-id"] ELSE 0]

(***************************************************************************)
(* The CLI process.                                                        *)
(***************************************************************************)

\* main: a new Application, then initialize(): parseArgs, and on success
\* new Client(addr, port, _timeout * TIMEOUT_MS).  A failed parse returns
\* -1 from main; out_of_range escapes and aborts the process.
Invoke(argv) ==
    /\ pc \in {"idle", "exited"}
    /\ runs < MaxInvocations
    /\ LET r == ParseArgs(argv, Defaults)
       IN  /\ opts' = r.opts
           /\ IF r.status = "ok"
              THEN /\ pc' = "run"
                   /\ timeoutMs' = r.opts["--timeout"] * TIMEOUT_MS
                   /\ UNCHANGED exitCode
              ELSE /\ pc' = "exited"
                   /\ exitCode' = IF r.status = "error" THEN ExitCode(FALSE) ELSE Aborted
                   /\ UNCHANGED timeoutMs
    /\ runs' = runs + 1
    /\ received' = NoResponse
    /\ lost' = FALSE
    /\ UNCHANGED <<queue, serving, handlerVars>>

\* run(): with no request flag it returns true and main returns 0;
\* otherwise the request of the first flag is serialized and sent on a
\* fresh REQ socket, and sendMessage polls for the reply.
Run ==
    /\ pc = "run"
    /\ IF FirstFlag(opts) = 0
       THEN /\ pc' = "exited"
            /\ exitCode' = ExitCode(TRUE)
            /\ UNCHANGED queue
       ELSE /\ pc' = "wait"
            /\ queue' = Append(queue, [req |-> MakeRequest(opts, KindOf[RunOrder[FirstFlag(opts)]]),
                                       inv |-> runs])
            /\ UNCHANGED exitCode
    /\ UNCHANGED <<opts, timeoutMs, received, serving, runs, lost, handlerVars>>

\* zmq_poll reports the reply: ParseFromString succeeds, processRequest and
\* run return true, main returns 0 whatever the status.
Receive ==
    /\ pc = "wait"
    /\ received # NoResponse
    /\ pc' = "exited"
    /\ exitCode' = ExitCode(TRUE)
    /\ UNCHANGED <<opts, timeoutMs, queue, received, serving, runs, lost, handlerVars>>

\* zmq_poll returns with no reply after timeoutMs (a negative timeout,
\* read by zmq_poll as a long, waits forever): sendMessage returns nullptr
\* and main returns -1.  The socket is closed; a later reply is dropped.
GiveUp ==
    /\ pc = "wait"
    /\ received = NoResponse
    /\ timeoutMs >= 0
    /\ pc' = "exited"
    /\ exitCode' = ExitCode(FALSE)
    /\ UNCHANGED <<opts, timeoutMs, queue, received, serving, runs, lost, handlerVars>>

(***************************************************************************)
(* The server side: requests served in arrival order by the handler.       *)
(***************************************************************************)

\* The REP socket routes the reply to the socket of invocation inv, which
\* takes it only while that invocation is still polling.
Deliver(inv) ==
    received' = IF pc = "wait" /\ inv = runs /\ response' # NoResponse
                THEN response' ELSE received

\* A server that handles the request and sends no reply.
ServeWithoutReply ==
    /\ queue # <<>>
    /\ H!HandleMessage(Head(queue).req)
    /\ queue' = Tail(queue)
    /\ serving' = Head(queue).inv
    /\ UNCHANGED <<pc, opts, timeoutMs, exitCode, received, runs, lost>>

\* The server thread receives the oldest queued request and runs
\* Handler::handleMessage on it.
Serve ==
    /\ queue # <<>>
    /\ H!HandleMessage(Head(queue).req)
    /\ queue' = Tail(queue)
    /\ serving' = Head(queue).inv
    /\ Deliver(Head(queue).inv)
    /\ UNCHANGED <<pc, opts, timeoutMs, exitCode, runs, lost>>

\* The header write of a createChain and its answer.
Finish ==
    /\ H!FinishCreateChain
    /\ Deliver(serving)
    /\ UNCHANGED <<pc, opts, timeoutMs, exitCode, queue, serving, runs, lost>>

\* The server dies inside createChain; the requests queued in its socket
\* die with it.  A CLI still polling without a reply had its request
\* queued or in the handler: it is lost.
ServerCrash ==
    /\ H!CrashInCreateChain
    /\ queue' = <<>>
    /\ lost' = (lost \/ (pc = "wait" /\ received = NoResponse))
    /\ UNCHANGED <<pc, opts, timeoutMs, exitCode, received, serving, runs>>

Init ==
    /\ H!Init
    /\ pc = "idle"
    /\ opts = Defaults
    /\ timeoutMs = 1 * TIMEOUT_MS
    /\ exitCode = 0
    /\ queue = <<>>
    /\ received = NoResponse
    /\ serving = 0
    /\ runs = 0
    /\ lost = FALSE

\* The user stops running the binary once the server has served everything.
Done ==
    /\ pc \in {"idle", "exited"}
    /\ runs = MaxInvocations
    /\ queue = <<>>
    /\ pending = Idle
    /\ UNCHANGED vars

\* The CLI polls for ever: its request died with the server and zmq_poll
\* never times out.  The process hangs; nothing changes again.
Hung ==
    /\ pc = "wait"
    /\ received = NoResponse
    /\ \A i \in 1 .. Len(queue) : queue[i].inv # runs
    /\ pending = Idle
    /\ ~ENABLED GiveUp
    /\ UNCHANGED vars

Next ==
    \/ \E argv \in Argvs : Invoke(argv)
    \/ Run \/ Receive \/ GiveUp
    \/ Serve \/ Finish \/ ServerCrash
    \/ Done \/ Hung

\* The CLI process and the server thread keep running, and zmq_poll returns
\* once its timeout has passed.  The user starting the binary and the
\* server dying are the environment and get no fairness.
Fairness ==
    /\ WF_vars(Run) /\ WF_vars(Receive) /\ WF_vars(GiveUp)
    /\ WF_vars(Serve) /\ WF_vars(Finish)

Spec == Init /\ [][Next]_vars /\ Fairness

(***************************************************************************)
(* Properties.                                                             *)
(***************************************************************************)

\* The type invariant: every option field keeps the type Application.h
\* gives it, whatever command line parseArgs read.
CliTypeOK ==
    /\ pc \in {"idle", "run", "wait", "exited"}
    /\ IsOptions(opts)
    /\ timeoutMs \in Int
    /\ exitCode \in {0, -1, Aborted}
    /\ \A i \in 1 .. Len(queue) : queue[i].inv \in 1 .. MaxInvocations
    /\ received = NoResponse \/ received \in [kind : H!Kinds, status : H!Codes]
    /\ runs \in 0 .. MaxInvocations
    /\ lost \in BOOLEAN

\* spec.md 6 (authentication envelope) and scenario S2: a client holding
\* the server's password is authorized -- no reply the CLI receives for an
\* invocation run with --password equal to the server's is NOT_AUTHORIZED,
\* whichever request flag it was run with.
CliAuthAccepted ==
    received # NoResponse /\ opts["--password"] = ServerPassword
        => received.status # "NOT_AUTHORIZED"

\* spec.md 4.C12: sendMessage returns the reply, or nothing once the
\* timeout has passed.  Every invocation that sent a request exits, by its
\* reply or by giving up, for every --timeout -- with one exception: a
\* negative --timeout reaches zmq_poll as a negative long and waits for
\* ever, so an invocation whose request died with the server never exits
\* (Hung).  For a negative timeout the exit rests on the server: the
\* request is served in its turn and the reply, including createChain's
\* after its header write, is sent back to this invocation.
CliTerminates ==
    pc = "wait" ~> (pc = "exited" \/ (lost /\ timeoutMs < 0))

=============================================================================
