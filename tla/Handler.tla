------------------------------ MODULE Handler ------------------------------
(***************************************************************************)
(* Handler::handleMessage on top of the storage core: decode the request,  *)
(* check the password, check the payload length, call the Manager and      *)
(* answer with a status.  The server thread runs one request at a time,    *)
(* so a request is one step, except createChain, whose answer comes from   *)
(* the second of its two disk writes (ChainStore!CreateChainWriteHeader).  *)
(*                                                                         *)
(* request is the request being served, response the answer this step      *)
(* produces (NoResponse when it produces none), before the tenant-visible  *)
(* content of the disk when the request arrived.                           *)
(***************************************************************************)
EXTENDS Naturals, Sequences

CONSTANTS ChainIds, Payloads, PrivateKeys, Nonces, MaxBlocks, DBVersion,
          GenesisRounds, NoDB, Missing, Idle

CONSTANTS
    Passwords,      \* passwords a client may hash into auth_data
    ServerPassword, \* the server's --password, or NoPassword
    NoPassword,     \* empty --password: authentication disabled
    NoAuth,         \* a request without auth_data
    HashBytes,      \* sizeof(SHA256::Hash::Value)
    MaxDataLength,  \* MAX_DATA_LENGTH
    DataLength(_),  \* byte length of a payload
    NoResponse

VARIABLES db, pending, reply, tampers, request, response, before

Store == INSTANCE ChainStore WITH TamperKinds <- {}, MaxTampers <- 0

storeVars == <<db, pending, reply, tampers>>
vars == <<db, pending, reply, tampers, request, response, before>>

\* The oneof arms of Service::IPC::Request, "none" for an empty oneof, and a
\* frame ParseFromString rejects.
Kinds == {"ping", "createChain", "removeChain", "addBlock", "getBlock",
          "getBlocks", "verifyChain", "getChainHeader", "getChainKeys",
          "getChainInfo", "none", "undecodable"}

Codes == {"SUCCESS", "ERROR", "DATA_ERROR", "NOT_SUPPORTED", "NOT_AUTHORIZED"}

\* SHA256::getHash({PASSWORD_SALT, password}).
PasswordHash(p) == Store!Hash(<<"EMPTY_SALT/", p>>)

\* auth_data.password_hash as a client can send it: of the right size or
\* one byte short.
AuthInputs ==
    {NoAuth} \cup [length : {HashBytes, HashBytes - 1},
                   hash : {PasswordHash(p) : p \in Passwords}]

Requests ==
    [kind : Kinds, auth : AuthInputs, chain : ChainIds,
     data : Payloads \cup {Missing}, block : 0 .. MaxBlocks + 1]

(***************************************************************************)
(* Operations.                                                             *)
(***************************************************************************)

\* makeStatus without the status: a response whose status was never set.
AnswerWithoutStatus(req, status) == response' = [kind |-> req.kind]

\* Handler::makeStatus / makeResponse: the response to req with a status.
Answer(req, status) == response' = [kind |-> req.kind, status |-> status]

\* Handler::checkAuth with the memcmp left out.
CheckAuthLengthOnly(auth) == auth.length = HashBytes

\* Handler::checkAuth: a hash of the right size equal to the salted hash of
\* the server's password.
CheckAuth(auth) ==
    /\ auth.length = HashBytes
    /\ auth.hash = PasswordHash(ServerPassword)

\* The password block of handleMessage.
Authorized(req) ==
    \/ ServerPassword = NoPassword
    \/ req.auth # NoAuth /\ CheckAuth(req.auth)

\* The Manager's SUCCESS / ERROR becomes the response's status.
AnswerStore(req) == Answer(req, reply'.status)

\* A payload check of handleCreateChainRequest / handleAddBlockRequest.
TooLong(req) == DataLength(req.data) > MaxDataLength

HandlePing(req) == Answer(req, "SUCCESS") /\ UNCHANGED storeVars

\* Without the data length check.
HandleCreateChainNoLengthCheck(req) ==
    /\ Store!CreateChain(req.chain, req.data)
    /\ IF reply'.op = "createChain" THEN AnswerStore(req)
                                    ELSE response' = NoResponse

\* Answers only when createChain failed before Storage::create; otherwise
\* the answer comes with the header write.
HandleCreateChain(req) ==
    IF TooLong(req)
    THEN Answer(req, "DATA_ERROR") /\ UNCHANGED storeVars
    ELSE /\ Store!CreateChain(req.chain, req.data)
         /\ IF reply'.op = "createChain" THEN AnswerStore(req)
                                         ELSE response' = NoResponse

HandleRemoveChain(req) == Store!RemoveChain(req.chain) /\ AnswerStore(req)

\* Answers SUCCESS without looking at what Manager::addBlock returned.
HandleAddBlockIgnoresResult(req) ==
    IF TooLong(req)
    THEN Answer(req, "DATA_ERROR") /\ UNCHANGED storeVars
    ELSE Store!AddBlock(req.chain, req.data) /\ Answer(req, "SUCCESS")

HandleAddBlock(req) ==
    IF TooLong(req)
    THEN Answer(req, "DATA_ERROR") /\ UNCHANGED storeVars
    ELSE Store!AddBlock(req.chain, req.data) /\ AnswerStore(req)

HandleGetBlock(req) == Store!GetBlock(req.chain, req.block) /\ AnswerStore(req)

HandleGetBlocks(req) == Store!GetBlocks(req.chain) /\ AnswerStore(req)

HandleVerifyChain(req) == Store!VerifyChainRequest(req.chain) /\ AnswerStore(req)

\* getChainHeader, getChainKeys and getChainInfo all read the header through
\* Chain::getHeader() and fail only when it is missing.
HandleGetChainHeader(req) == Store!GetChainInfo(req.chain) /\ AnswerStore(req)

HandleGetChainKeys(req) == Store!GetChainInfo(req.chain) /\ AnswerStore(req)

HandleGetChainInfo(req) == Store!GetChainInfo(req.chain) /\ AnswerStore(req)

\* The dispatch chain of handleMessage, after authentication.
Dispatch(req) ==
    \/ req.kind = "ping" /\ HandlePing(req)
    \/ req.kind = "createChain" /\ HandleCreateChain(req)
    \/ req.kind = "removeChain" /\ HandleRemoveChain(req)
    \/ req.kind = "addBlock" /\ HandleAddBlock(req)
    \/ req.kind = "getBlock" /\ HandleGetBlock(req)
    \/ req.kind = "getBlocks" /\ HandleGetBlocks(req)
    \/ req.kind = "verifyChain" /\ HandleVerifyChain(req)
    \/ req.kind = "getChainHeader" /\ HandleGetChainHeader(req)
    \/ req.kind = "getChainKeys" /\ HandleGetChainKeys(req)
    \/ req.kind = "getChainInfo" /\ HandleGetChainInfo(req)
    \/ req.kind = "none" /\ Answer(req, "NOT_SUPPORTED") /\ UNCHANGED storeVars

\* Handler::handleMessage for one request while no createChain is half done.
HandleMessage(req) ==
    /\ pending = Idle
    /\ request' = req
    /\ before' = Store!LogOf
    /\ \/ /\ req.kind = "undecodable"
          /\ Answer(req, "DATA_ERROR") /\ UNCHANGED storeVars
       \/ /\ req.kind # "undecodable" /\ ~Authorized(req)
          /\ Answer(req, "NOT_AUTHORIZED") /\ UNCHANGED storeVars
       \/ /\ req.kind # "undecodable" /\ Authorized(req)
          /\ Dispatch(req)

\* The header write of a createChain in flight, and its answer.
FinishCreateChain ==
    /\ Store!CreateChainWriteHeader
    /\ Answer(request, reply'.status)
    /\ UNCHANGED <<request, before>>

\* The process dies between the two writes of createChain; nobody answers.
CrashInCreateChain ==
    /\ Store!Crash
    /\ response' = NoResponse
    /\ UNCHANGED <<request, before>>

Init ==
    /\ Store!Init
    /\ request = [kind |-> "none", auth |-> NoAuth, chain |-> CHOOSE c \in ChainIds : TRUE,
                  data |-> Missing, block |-> 0]
    /\ response = NoResponse
    /\ before = Store!LogOf

\* Requests carry only the fields their kind reads.
Next ==
    \/ FinishCreateChain
    \/ CrashInCreateChain
    \/ \E a \in AuthInputs, c \in ChainIds :
          LET Req(k, d, i) == [kind |-> k, auth |-> a, chain |-> c, data |-> d, block |-> i]
          IN  \/ \E k \in Kinds \ {"createChain", "addBlock", "getBlock"} :
                    HandleMessage(Req(k, Missing, 0))
              \/ \E k \in {"createChain", "addBlock"}, d \in Payloads :
                    HandleMessage(Req(k, d, 0))
              \/ \E i \in 0 .. MaxBlocks + 1 : HandleMessage(Req("getBlock", Missing, i))

Spec == Init /\ [][Next]_vars

(***************************************************************************)
(* Properties.                                                             *)
(***************************************************************************)

\* The type invariant: the store keeps its type, and every response names
\* its request's kind and carries one of the five status codes (spec.md
\* C10: every response carries a status).
TypeOK ==
    /\ Store!TypeOK
    /\ request \in Requests
    /\ response = NoResponse \/ response \in [kind : Kinds, status : Codes]
    /\ before \in [ChainIds -> {NoDB} \cup Seq(Payloads)]

\* Requests whose SUCCESS answer discloses what a chain holds.
Disclosing ==
    {"addBlock", "getBlock", "getBlocks", "verifyChain", "getChainHeader",
     "getChainKeys", "getChainInfo"}

\* The request holds the server's salted password hash, or the server has
\* no password.
CarriesPassword(req) ==
    \/ ServerPassword = NoPassword
    \/ req.auth = [length |-> HashBytes, hash |-> PasswordHash(ServerPassword)]

\* When the server has a password, no request without
\* SHA256(PASSWORD_SALT ++ password) changes a chain's store or gets a
\* SUCCESS answer about a chain's content (handleMessage's auth block runs
\* before every dispatch, including the second step of createChain).
AuthEnforced ==
    [][(db' # db \/ (response' # NoResponse /\ response'.status = "SUCCESS"
                                           /\ response'.kind \in Disclosing))
         => CarriesPassword(request')]_vars

\* spec.md C10 length limits: no payload longer than MAX_DATA_LENGTH
\* reaches a header or a block on disk, by either createChain or addBlock.
PayloadsWithinLimit ==
    \A c \in ChainIds :
        LET h == Store!ReadHeader(db[c])
        IN  h # Missing =>
               /\ DataLength(h.data) <= MaxDataLength
               /\ \A i \in 1 .. h.index :
                     DataLength(db[c][Store!BlockKey(i)].fields.data) <= MaxDataLength

\* What a tenant's log should be after a request answered with status.
Effect(req, log, status) ==
    IF status # "SUCCESS" THEN log
    ELSE CASE req.kind = "createChain" -> [log EXCEPT ![req.chain] = <<>>]
           [] req.kind = "addBlock" ->
                 [log EXCEPT ![req.chain] = IF @ = NoDB THEN @ ELSE Append(@, req.data)]
           [] req.kind = "removeChain" -> [log EXCEPT ![req.chain] = NoDB]
           [] OTHER -> log

\* The answer a client gets tells it what happened to the chains: after a
\* SUCCESS createChain the chain exists and is empty, after a SUCCESS
\* addBlock its payload is the chain's new last block, after a SUCCESS
\* removeChain the chain is gone, and after any other answer (an ERROR
\* included, even a createChain that left a store behind) no chain a tenant
\* can see differs from when the request arrived.
AnswerMatchesLog ==
    [][response' # NoResponse =>
          Store!LogOf' = Effect(request', before', response'.status)]_vars


=============================================================================
