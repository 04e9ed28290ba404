# ChainDB: TLA+ models

ChainDB (`src/`) is a single-process server that keeps many independent,
signed, hash-linked chains of data blocks, one LevelDB store per chain. This
directory holds TLA+ models of its storage core, request handler, server
loop and command-line client, and the TLC configurations that
check them. `PROJECT.json` lists every component, run, mutant, source mapping,
finding and hazard. Run a check with `tlc -workers 2 -config <cfg> <MC module>`.
The MC module of each cfg is given in the tables below.

## 1. The system

| Part | Source | State | Operations |
|---|---|---|---|
| Crypto primitives | `src/src/Crypto/SHA256.cpp`, `ECDSA.cpp`, `Random.cpp` | none (OpenSSL/libsecp256k1 contexts) | getHash, getHashN, generatePrivateKey, createPublicKey, getSignature, verifySignature, random bytes |
| Storage adapter | `src/src/Storage/Storage.cpp` | one LevelDB directory `<root>/<id>.blockchain` | create (exclusive), open, close, get, set (one atomic WriteBatch), remove (DestroyDB) |
| Block | `src/src/Storage/Block.cpp` | record hash, prevHash, nonce, data, signature | pack/unpack, generateNonce |
| Chain + header | `src/src/Storage/Chain.cpp` | key `header` (version, index, data, sk, pk) and keys `block_<i>` | create, addBlock, getBlock, getBlocks, getHeader (two variants), remove |
| Manager | `src/src/Storage/Manager.cpp` | root path only; everything else is on disk | createChain, addBlock, getBlock, getBlocks, removeChain, verifyChain, getChainHeader, getChainInfo |
| Handler | `src/src/Handler.cpp` | salted password hash | decode request, check password, check payload length, dispatch, encode response |
| Server | `src/src/Network/Server/Server.cpp` | ZMQ REP socket, stop flag | loop: poll, recv, handle, send |
| Client | `src/src/Network/Client/Client.cpp` | REQ socket per call | send, poll with timeout, recv |
| Application | `src/src/ChainDB.cpp`, `System/*` | `_server` pointer, signal handler | parse args, daemonize, run, stop on SIGINT/SIGTERM |
| CLI client | `src/cli/src/Application.cpp`, `src/src/System/IApplication.cpp` | option fields, one Client | parseArgs, build one request (with the salted password hash), send it, exit 0 or -1 |

How they interact: a client sends one protobuf request over ZMQ. The server
thread handles one request at a time: `Handler::handleMessage` checks the
password, then calls one `Manager` method. The Manager opens the chain's store
through `Chain`/`Storage`, reads the header and blocks, computes hashes and
signatures with the crypto primitives, writes, and closes the store. Requests
never overlap, so every Manager call runs to completion before the next one
starts. Concurrency comes from three things around that loop: the signal
handler thread, the client's timeout, and anything else that touches the disk
(corruption, or a crash of the process between two writes).

### What is hard here
- `Chain::create` makes two disk writes: create the store, then write the
  header. A failure or crash between them leaves a store without a header.
- `Chain::addBlock` must write the new index and the new block together. It
  uses one write batch (`Chain.cpp:217`).
- `Manager::addBlock` reads the header and the last block in one open of the
  store, then `Chain::addBlock` re-reads the header in another. This is safe
  only because a single thread serves requests.
- `Manager::verifyChain` must detect every change to a stored chain (spec P6).
  It recomputes the link hashes itself and trusts the header's index.
- Only the private `Chain::getHeader(storage)` checks `DB_VERSION`.
  The public `getHeader()` does not.
- Server: if the handler returns no response, the REP socket is never
  answered. A stop signal can arrive before `_server` exists. The client
  times out while the server may still be working.

## 2. Modules

| Module | Models | Status |
|---|---|---|
| `ChainCrypto` | SHA-256 as a free term constructor (no collisions); `HashN` (RECURSIVE) for getHashN; signatures as (message, signer) terms that only the private key's owner can make | modelled |
| `AppendOnlyLog` | the abstract promise: each chain id is absent or a sequence of payloads that is created empty, grows by one at its end, and is removed whole | abstract spec |
| `ChainStore` | Storage, Chain, Block and Manager together. `db[c]` is the content of chain c's store (`NoDB` or a function from keys to records). `pending` is a createChain between its two writes. `reply` is the answer produced by the current step. `tampers` counts corruptions made behind the server's back | modelled |
| `MC_ChainStore` | model values and the tamper kinds that verifyChain is expected to detect | MC |
| `Handler` | `Handler::handleMessage` on top of `ChainStore` (`Store == INSTANCE ChainStore`). It covers decode failure, the password check, the length checks, and the ten dispatch arms. `request` is the request being served. `response` is the (kind, status) answer of this step. `before` is the tenant-visible log when the request arrived | modelled |
| `MC_Handler` | payload lengths: d1 is exactly MAX_DATA_LENGTH bytes, d2 is one byte more | MC |
| `Server` | main thread of `ChainDB::run`, the signal handler, `Server::process` with its REP socket and stop flag, and clients (`Client::sendMessage`) with timeouts. The handler is abstracted to "a response, or nullptr" | modelled |
| `MC_Server` | instantiation for TLC | MC |
| `Cli` | the chaindb CLI binary, invoked again and again, composed with `Handler` (`H == INSTANCE Handler`). `opts` are the Application's option fields, `pc` the process's phase, `queue` the requests waiting at the server, `received` the reply the running invocation got | modelled |
| `MC_Cli` | the command lines users run and what `std::stoi` reads from each word | MC |

How the `ChainStore` actions correspond to the code:
- `CreateChain(c, d)`: `Manager::createChain` up to and including
  `Storage::create`. A key generation failure or an existing store answers
  ERROR.
- `CreateChainWriteHeader`: the header write in `Chain::create`, which either
  succeeds or fails.
- `Crash`: the process dies between those two writes.
- `AddBlock(c, d)`: the whole `Manager::addBlock`. It reads the header without
  a version check and chooses the genesis or last-block prev hash. It draws a
  nonce, computes the body hash, signature and block hash, and calls
  `Chain::addBlock`, which re-reads the header with the version check and
  writes the index and the block in one batch. Nonce, signing or write
  failures answer ERROR and leave the store as it was.
- `RemoveChain`: `Manager::removeChain` through `Chain::remove` and
  `StorageRemove` (DestroyDB): the store is deleted and the answer is
  SUCCESS, or DestroyDB fails, the store stays and the answer is ERROR.
- `GetBlock` (ids 0 to MaxBlocks+1, so both out-of-range
  branches are included), `GetBlocks`, `GetChainInfo` (also stands for
  getChainHeader) and `VerifyChainRequest`: one action per Manager method.
- `Tamper(c)`: the environment overwrites one field of one record with other
  bytes of the same width, or cuts a byte off a block's prev_hash. The kinds
  of tampering that are enabled are a constant.

The record types follow the declarations: `HeaderRecords` is the field
list of `Chain::Header` (`Chain.h`), `IsBlockRecord` that of
`Block::Container` (`Block.h`). `GenerateNonce` is `Block::generateNonce`:
a value of `Nonces`, or Missing when `RAND_bytes` fails. `StorageOpen`,
`StorageGet` and `StorageSet` are the `Storage` calls that `Chain` makes.

A stored record is its encoding: `PackBlock`/`PackHeader` store the fields
together with the length each fixed-width bytes field has on the wire, and
`UnpackBlock`/`UnpackHeader` (`Container::unpack`, `Header::unpack`) give
Missing when one of hash, prev_hash, nonce, signature (or, for the header,
one of the two keys) has another length. `ReadHeader` and `ReadBlock` go
through them, so every read path of Chain sees the check.

The data is abstracted: payloads, keys and nonces are model values, and
hashes and signatures are terms. The byte layout of protobuf is left out. All
control is kept: every early return of these functions is either a guard or
an ERROR disjunct.

How the `Handler` actions correspond to the code:
- `HandleMessage(req)`: `handleMessage` for one request. The steps are:
  decode failure answers DATA_ERROR; the password block answers
  NOT_AUTHORIZED (`Authorized`, `CheckAuth`); otherwise `Dispatch` calls
  the `HandleX` operator of the request's kind. Each `HandleX` calls the
  `ChainStore` action of its Manager method and turns its SUCCESS/ERROR into
  the response. createChain and addBlock check the length first.
- `FinishCreateChain`: the header write of a createChain, and the answer
  that comes after it.
- `CrashInCreateChain`: the process dies between the two writes, so the
  request gets no answer.

How the `Server` actions correspond to the code:
- `InstallSignalHandler` and `Initialize`: `ChainDB::initialize`. It
  installs the handler first (line 66). Then parseArgs or the random
  generator may fail, and the process ends.
- `CreateServer`, `StartServer`, `Join`: lines 96-98 of `ChainDB::run`.
  The constructor sets the flag.
- `Setup`: the start of `Server::process`. When the context, the socket or
  the bind fails, the thread returns before its loop.
- `Signal`: before the handler is installed, the default action ends the
  process. After that it is `signalHandler` → `ChainDB::stop`. That is a
  no-op while `_server` is null; otherwise it runs `Server::stop`, which
  clears the flag.
- `LoopCheck`: the `while (_isStopped.test_and_set())` condition. It reads
  the flag and sets it again.
- `PollTimeout`, `Receive(m)` (recv, then the handler's result),
  `Reply` (send only when the result is not null), and `ServerFault` (one of
  the `break` paths): the rest of the loop.
- The REP socket's state `rep` is "send" from a receive to its reply.
  While it is "send", `zmq_poll` never reports a request.
- `ClientSend`, `ClientReceive`, `ClientTimeout`: one `sendMessage` call.
  Each call opens its own REQ socket, named by (client, call number). A
  timed-out call's request stays queued, and a reply to a closed socket is
  dropped.

How the `Cli` actions correspond to the code:
- `Invoke(argv)`: one start of the binary. `main` constructs the Application
  (`Defaults`) and calls `initialize`: `ParseArgs` (RECURSIVE, one key/value
  pair per call, the three handler types of `HandlerMap`, `Stoi` with
  `invalid_argument` returning -1 and `out_of_range` escaping to
  `std::terminate`), then the Client with `_timeout * TIMEOUT_MS`.
- `Run`: `Application::run`. The first flag in `RunOrder` that is "true"
  picks the request; `MakeRequest` and `AuthData` build it as the
  `ping`..`getChainInfo` methods and `setAuthData` do (no auth_data for ping,
  an empty one for an empty password). No flag: exit 0.
- `Receive` (reply parsed, exit 0 whatever the status) and `GiveUp`
  (`zmq_poll` timed out, exit -1; a negative timeout never times out).
  `ExitCode` is `main`'s -1/0.
- `Hung`: the invocation's request died with the server, and its negative
  timeout never expires. The process waits for ever; the state stutters.
- `Serve`, `Finish`, `ServerCrash`: the server takes the oldest queued
  request and runs `Handler::handleMessage` on it, finishes a createChain,
  or dies inside one (its queued requests die with it; `lost` records that
  the polling invocation's request died). `Deliver` hands the
  answer to the invocation that sent it if it is still polling.

Composition: `ChainStore` EXTENDS `ChainCrypto`. `Handler` INSTANCEs
`ChainStore` with tampering disabled, and `Cli` INSTANCEs `Handler`. `Server` is independent of the other
two. It sees only whether a handler result is a message or nullptr, and it
models the serialization failure that `Handler` leaves out (the model's
chains are far below 2 GiB). `ChainStore` refines
`AppendOnlyLog` through `Log == INSTANCE AppendOnlyLog WITH logs <- LogOf`.
`LogOf` maps a store that has a header to the sequence of its payloads, and
any other store to absent.

## 3. Runs

All runs use one chain id, payloads {d1,d2}, keys {k1,k2}, nonces {n1,n2},
MaxBlocks = 3, DBVersion = 0 and GenesisRounds = 2 (the round count of spec.md 9(b); the default argument of getHashN is in SHA256.h, which is not in the repository).
Two payloads and two nonces make blocks with equal data distinct, so a
wrong-link or swapped-argument bug changes a hash that a property compares.
Three blocks make both prev-hash branches (block 1 from genesis, blocks 2..3
from the previous block) run more than once, and they reach the capacity edge.
Chains do not interact except through the shared server thread, which the
model makes atomic. A second chain id multiplies the state space without
adding any new interleaving, so the runs use one.

| Run | cfg | Expect | What it shows |
|---|---|---|---|
| store_core | `ChainStore_core.cfg` | pass | With failures and crashes, every stored chain stays linked and signed (`ChainLinked`), blocks are never rewritten and the index grows by at most one (`AppendOnly`), the store refines the append-only log (`RefinesAppendOnlyLog`), and verifyChain answers SUCCESS exactly for intact chains (`VerifyAgreesWithChain`). |
| store_tamper | `ChainStore_tamper.cfg` | pass | One corruption of a block's hash, nonce, data or signature, of the header's data or key, a raised index, or a prev_hash one byte short, is detected by verifyChain when it touches what verifyChain reads. A corrupted header data or key of a chain with no blocks is read by nothing that verifyChain checks, so it still verifies; the chain counts as intact there too, since no block hashes over the changed seed. The last is caught only by the length check of `Container::unpack`. |
| store_blind_verify | `ChainStore_blind.cfg` | violation | A corrupted stored prev_hash, or a header index lowered over the last block, passes verifyChain. Both corruptions are enabled; TLC reports whichever it reaches first. Leave one kind in `TamperKinds` to see the other. |
| store_version | `ChainStore_version.cfg` | violation | getChainInfo answers SUCCESS for a store of another version. |
| store_partial_create | `ChainStore_partial.cfg` | violation | A failed createChain leaves a store without a header. |
| handler_core | `Handler_core.cfg` (MC_Handler) | pass | With a server password set, no request with a missing, wrong or one-byte-short hash changes a store or gets a SUCCESS that discloses chain content (`AuthEnforced`). No payload over MAX_DATA_LENGTH reaches the disk (`PayloadsWithinLimit`). Every answer matches the change of the tenant's log since the request arrived (`AnswerMatchesLog`): SUCCESS addBlock appended exactly that payload, and ERROR changed nothing visible. |
| server_stop | `Server_stop.cfg` (MC_Server) | pass | Once ChainDB::stop reaches a constructed server, run() returns (`StopHonoured`), even when the REP socket is stuck. |
| server_serve | `Server_serve.cfg` (MC_Server) | pass | When every response serializes, every queued request is eventually received, including an abandoned one, unless the process or its server thread has ended (`RequestsEventuallyServed`). |
| server_stuck | `Server_stuck.cfg` (MC_Server) | violation | One null response leaves the REP socket owing a reply, and no later request is ever received. |
| server_early_signal | `Server_signal.cfg` (MC_Server) | violation | A stop signal before `_server` is assigned is lost, and the server runs forever. |
| cli_ping | `Cli_ping.cfg` (MC_Cli) | violation | `chaindb-cli --ping true --password p1` against a server with password p1 is answered NOT_AUTHORIZED (`CliAuthAccepted`). |
| cli_session | `Cli_session.cfg` (MC_Cli) | pass | Over three invocations (a zero timeout that may give up at once and leave its request queued, a `--timeout -1`, runs that send nothing), every invocation that sent a request exits, except one with a negative timeout whose request died with the server (`CliTerminates`; `lost` records that death). TLC reaches that exception (`Hung`). For the negative timeout the exit rests on the server: the request must be served in turn and its reply sent back, which a server that handles a request without replying breaks. Every option keeps the type `Application.h` gives it (`CliTypeOK`). |

Handler bounds: one chain, MaxBlocks = 2, passwords {p1,p2} with p1 the
server's, and hashes of the right size or one byte short. That is enough to
reach the create-then-append path, both addBlock branches, and every dispatch
arm with every authentication outcome. Server bounds: one client making two
calls and one signal. With two calls, a request from a timed-out call can sit
in the queue next to a new call. The one signal can arrive in every phase of
start-up and of the loop. A second client adds only more fair-queuing
orders, and the loop treats all clients alike.

CLI bounds: two invocations against a server with password p1, one chain.
The command lines are a ping and requests with the right password, a wrong
one, a zero timeout, a word without digits for an int option, an int past
INT_MAX, a key with no value, and no arguments. They take every branch of
`ParseArgs` and every exit of the process; two invocations let a request
abandoned by the first still be served during the second. The session run
(`MCSessionArgvs`) uses three invocations with distinct request kinds. One
of them polls for zero seconds, so a late answer to it can meet a later
invocation that is still polling.

Every property of a passing run has a mutant in `PROJECT.json`. A mutant is a
plausible bug in a mapped definition (swapped arguments, a wrong prev hash,
an extra hash round, an off-by-one link in verify, a batch without the header,
a non-exclusive create, an unpack that skips the prev_hash length check), and TLC finds the
property violated under that mutant.

### Findings
1. `Manager::verifyChain` never compares the stored `prev_hash`
   (`Manager.cpp:229`). It also trusts `header.index` (`Chain.cpp:283`), so
   dropping the last blocks by lowering the index is not detected. spec.md
   P6/I6 say every changed byte must be detected. (Run store_blind_verify.)
2. The public `Chain::getHeader()` skips the `DB_VERSION` check
   (`Chain.cpp:311`). getChainInfo, getChainHeader and getChainKeys serve a
   store of another version. verifyChain and addBlock still refuse it.
3. `Chain::create` writes the header after creating the store
   (`Chain.cpp:175`). When that write fails, the chain id is blocked until
   removeChain (spec.md 4.C9 says no partial directory is left).
4. `Server::process` sends nothing when the handler returns nullptr
   (`Server.cpp:123`). The REP socket then never reports another request,
   so one oversize get_blocks response silences the server for good.
5. `ChainDB::stop` drops a signal that arrives before `_server` is
   assigned (`ChainDB.cpp:108`). The handler is installed at line 66, so a
   SIGTERM during start-up is lost.
6. `Application::ping` never calls `setAuthData` (`Application.cpp:142`),
   while the handler checks the password before every request kind. So the
   CLI cannot ping a server that has a password, even with the right one;
   spec.md S2 says that ping is answered SUCCESS.

## 4. Fairness

The storage and handler runs check safety and refinement only, so they assume
no fairness. In those runs the server never has to serve any request.
Deadlock is checked: a store at capacity can still be read or removed, so
every state has a successor.

The server runs check liveness, under this fairness:
- Weak fairness for every step of the main thread (install the handler,
  initialize, create, start, join) and of the server thread (setup, loop
  check, poll timeout, reply). These are
  dedicated OS threads that never block except in `zmq_poll`, which returns
  within 5 ms.
- Strong fairness for receiving each particular request. ZMQ fair-queues
  the incoming pipes, so a request that is offered again and again is
  eventually taken.
- No fairness for clients, signals or ZMQ faults. They are the environment.

The CLI runs assume weak fairness for the CLI process's steps (`Run`,
`Receive`, `GiveUp`) and the server's (`Serve`, `Finish`). The process
runs until it exits, and `zmq_poll` returns once its timeout has passed.
Starting the binary and the server dying get no fairness.

After run() has returned and every client has finished, the system stops.
`Terminated` makes that state stutter explicitly, so deadlock checking stays
on.

## 5. Not modelled, and the plan

- A failing `zmq_msg_send` (`Server.cpp:135`): on a REP socket, a blocking
  send fails only when interrupted (EINTR) or when the context terminates.
  Both happen only at shutdown, which the stop flag then completes.
- Response bytes and message texts: `Handler` keeps only a response's kind
  and status.
- The timeout race is modelled, but no property claims that a timed-out
  addBlock was not applied. spec.md 5 allows that outcome: requests cannot be
  cancelled.
- The byte layout of protobuf: records keep their fields and the lengths of
  the fixed-width fields, which is all `unpack` checks. A record that does
  not parse at all is not among the corruptions.
- An int option past INT_MAX aborts the CLI instead of exiting -1. This is
  in the model (`Invoke` ends with exit code `Aborted`), but no property
  states the exit-code contract of spec.md 6.
- A server that is down when the CLI connects. ZeroMQ queues the request in
  the REQ socket's pipe. `zmq_ctx_destroy` (`Client.cpp:133`) then waits,
  with the default infinite linger, for the request to be sent, so the CLI
  hangs past its timeout. The model's server is always listening.
- The CLI's `--chain-id`/`--block-id` are ints passed to `size_t`
  parameters; a negative id would wrap. The wire type of those fields is in
  a `.proto` file that is not part of the repository, so the model keeps
  the ids the command lines give (all non-negative).
- `Storage::remove` interrupted half way (LevelDB internals) and profiling.
- A `getHash`/`getHashN` failure inside verifyChain (an OpenSSL allocation
  error, `Manager.cpp:221,255`): verifyChain of an intact chain always
  answers SUCCESS in the model.
- What the server's arguments, daemonizing and the logger contain. Process
  I/O with no shared state: `Initialize` keeps only whether they succeed.
- What a server whose bind failed reports. `ChainDB::run` returns true,
  and the server's `main` is not in the repository.
