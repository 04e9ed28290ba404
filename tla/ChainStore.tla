----------------------------- MODULE ChainStore -----------------------------
(***************************************************************************)
(* The storage side of ChainDB: Storage (one LevelDB store per chain),     *)
(* Chain (header + block records in that store) and Manager (key minting,  *)
(* hash chaining, signing, verification), as the single server thread      *)
(* runs them.                                                              *)
(*                                                                         *)
(* db[c] is the on-disk store of chain c (the directory                    *)
(* <root>/<c>.blockchain): NoDB when the directory does not exist, else a  *)
(* function from the store's keys to the record under each key, Missing    *)
(* where there is none.  Each manager call runs to completion on the       *)
(* server thread and touches the disk in one atomic write batch, so it is  *)
(* one step; the only call that writes twice is createChain (the store is   *)
(* created, then the header written), so it is two steps, and a crash or   *)
(* a failed write can fall between them.                                   *)
(*                                                                         *)
(* reply is the answer the step hands back to the request handler, NoReply *)
(* for a step that answers nothing (the first half of createChain, a crash, *)
(* a corruption of the disk).                                              *)
(***************************************************************************)
EXTENDS Naturals, Sequences, TLC, ChainCrypto

CONSTANTS
    ChainIds,       \* chain ids requests name
    Payloads,       \* payloads of createChain / addBlock requests
    PrivateKeys,    \* keys Secp256k1::generatePrivateKey can return
    Nonces,         \* values Block::generateNonce can return
    MaxBlocks,      \* bound on a chain's length (the model's, not the code's)
    DBVersion,      \* DB_VERSION of the running build
    GenesisRounds,  \* round count getHashN uses for the genesis hash
    TamperKinds,    \* the ways the disk may be corrupted behind the server
    MaxTampers,     \* how many corruptions a behaviour may contain
    NoDB,           \* the store's directory does not exist
    Missing,        \* Storage::get finds no record / an operation fails
    Idle            \* no createChain in flight

ASSUME MaxBlocks \in Nat \ {0} /\ GenesisRounds \in Nat \ {0}
ASSUME MaxTampers \in Nat

VARIABLES db, pending, reply, tampers

vars == <<db, pending, reply, tampers>>

(***************************************************************************)
(* Keys of a chain's store (DB_HEADER_KEY and Chain::makeBlockName).  The *)
(* block keys reach one past MaxBlocks so that a header whose index was    *)
(* corrupted upwards names a key that has no record.                       *)
(***************************************************************************)
HeaderKey == <<"header", 0>>
BlockKey(i) == <<"block", i>>
BlockIds == 1 .. MaxBlocks + 1
StoreKeys == {HeaderKey} \cup {BlockKey(i) : i \in BlockIds}

Statuses == {"SUCCESS", "ERROR"}
Reply(op, c, status) == [op |-> op, chain |-> c, status |-> status]
NoReply == [op |-> "none", chain |-> Missing, status |-> "NONE"]

(***************************************************************************)
(* Record encoding (Block::Container::pack/unpack, Chain::Header::pack/    *)
(* unpack).  A stored record is its protobuf message: the fields, and the  *)
(* byte length each fixed-width bytes field carries on the wire.  pack     *)
(* writes every fixed field at its type's width; unpack rejects a record   *)
(* whose field has another length.  The header's version, index and data   *)
(* are not checked.                                                        *)
(***************************************************************************)
\* The fields of Chain::Header (version and index are size_t).
HeaderRecords ==
    [version : Nat, index : Nat, data : Payloads, privateKey : PrivateKeys,
     publicKey : {PublicKey(k) : k \in PrivateKeys}]

\* The fields of Block::Container: hash, prev_hash and signature are hash
\* and signature terms, the nonce one of the values generateNonce draws,
\* the data a payload.
IsBlockRecord(b) ==
    /\ DOMAIN b = {"hash", "prevHash", "nonce", "data", "signature"}
    /\ b.nonce \in Nonces
    /\ b.data \in Payloads

BlockWidths == [hash |-> 32, prevHash |-> 32, nonce |-> 8, signature |-> 64]
HeaderWidths == [privateKey |-> 32, publicKey |-> 33]

Pack(rec, widths) == [fields |-> rec, size |-> widths]

\* Block::Container::pack.
PackBlock(b) == Pack(b, BlockWidths)

\* Block::Container::unpack without the prev_hash length check.
UnpackBlockSkipsPrevHash(enc) ==
    IF \E f \in DOMAIN BlockWidths \ {"prevHash"} : enc.size[f] # BlockWidths[f]
    THEN Missing ELSE enc.fields

\* Block::Container::unpack: nullptr unless hash, prev_hash, nonce and
\* signature have their widths.
UnpackBlock(enc) ==
    IF \E f \in DOMAIN BlockWidths : enc.size[f] # BlockWidths[f]
    THEN Missing ELSE enc.fields

\* Chain::Header::pack.
PackHeader(h) == Pack(h, HeaderWidths)

\* Chain::Header::unpack: nullptr unless both keys have their widths.
UnpackHeader(enc) ==
    IF \E f \in DOMAIN HeaderWidths : enc.size[f] # HeaderWidths[f]
    THEN Missing ELSE enc.fields

(***************************************************************************)
(* Storage: one LevelDB handle per call.  DB::Open with create_if_missing  *)
(* and error_if_exists creates an empty store and fails if one exists;     *)
(* without them it fails when the directory does not exist.  get answers   *)
(* nullptr (Missing) when the key has no record; set writes all its pairs  *)
(* in one synced WriteBatch.                                               *)
(***************************************************************************)
StorageCreateNotExclusive(kv) ==
    IF kv = NoDB THEN [k \in StoreKeys |-> Missing] ELSE kv
StorageCreate(kv) ==
    IF kv = NoDB THEN [k \in StoreKeys |-> Missing] ELSE Missing

StorageOpen(kv) == kv # NoDB

StorageGet(kv, key) == IF StorageOpen(kv) THEN kv[key] ELSE Missing

\* pairs is the KeyValueList as a function from key to record.
StorageSet(kv, pairs) == IF StorageOpen(kv) THEN pairs @@ kv ELSE Missing

(***************************************************************************)
(* Chain: header and block access.  A missing key and a record unpack      *)
(* rejects both fail the operation.                                        *)
(***************************************************************************)

\* Chain::getHeader(): open, get "header", unpack.  No version check.
ReadHeader(kv) ==
    LET v == StorageGet(kv, HeaderKey)
    IN  IF v = Missing THEN Missing ELSE UnpackHeader(v)

\* Storage::get of block_<i>, then Container::unpack.
ReadBlock(kv, i) ==
    LET v == StorageGet(kv, BlockKey(i))
    IN  IF v = Missing THEN Missing ELSE UnpackBlock(v)

\* Chain::getHeader(storage): as above, and refuse another DB_VERSION.
CheckedHeader(kv) ==
    LET h == ReadHeader(kv)
    IN  IF h # Missing /\ h.version = DBVersion THEN h ELSE Missing

\* Chain::getBlock: 0 and indices past header.index are rejected.
ChainGetBlock(kv, i) ==
    LET h == CheckedHeader(kv)
    IN  IF h = Missing \/ i = 0 \/ h.index < i THEN Missing
        ELSE ReadBlock(kv, i)

\* Chain::getBlocks: blocks 1..header.index in order; any missing one fails.
ChainGetBlocks(kv) ==
    LET h == CheckedHeader(kv)
    IN  IF h = Missing \/ \E i \in 1 .. h.index : ReadBlock(kv, i) = Missing
        THEN Missing
        ELSE [i \in 1 .. h.index |-> ReadBlock(kv, i)]

ChainAddBlockWithoutHeader(kv, block) ==
    LET h == CheckedHeader(kv)
    IN  IF h = Missing THEN Missing
        ELSE StorageSet(kv, BlockKey(h.index + 1) :> PackBlock(block))

\* Chain::addBlock: re-read the header, bump its index and write the new
\* header and block_<index> in one batch.  Missing when it fails.
ChainAddBlock(kv, block) ==
    LET h == CheckedHeader(kv)
    IN  IF h = Missing THEN Missing
        ELSE StorageSet(kv, (HeaderKey :> PackHeader([h EXCEPT !.index = h.index + 1]))
                            @@ (BlockKey(h.index + 1) :> PackBlock(block)))

(***************************************************************************)
(* Manager.                                                                *)
(***************************************************************************)

\* Chain::Header(version, data, sk, pk): a new header has index 0.
NewHeader(d, sk) ==
    [version |-> DBVersion, index |-> 0, data |-> d,
     privateKey |-> sk, publicKey |-> PublicKey(sk)]

PrevHashAlwaysGenesis(kv, h) == GenesisHash(h, GenesisRounds)

\* Manager::addBlock step 2: the genesis hash for the first block, else the
\* hash stored in block header.index (read through Chain::getBlock).
PrevHash(kv, h) ==
    IF h.index = 0 THEN GenesisHash(h, GenesisRounds)
    ELSE LET last == ChainGetBlock(kv, h.index)
         IN  IF last = Missing THEN Missing ELSE last.hash

NewBlockSwappedArgs(prev, nonce, d, sk) ==
    LET sig == Sign(BodyHash(prev, nonce, d), sk)
    IN  [hash |-> BlockHash(prev, nonce, d, sig), prevHash |-> nonce,
         nonce |-> prev, data |-> d, signature |-> sig]

\* Manager::addBlock steps 4-7: sign the body hash, then hash the whole.
NewBlock(prev, nonce, d, sk) ==
    LET sig == Sign(BodyHash(prev, nonce, d), sk)
    IN  [hash |-> BlockHash(prev, nonce, d, sig), prevHash |-> prev,
         nonce |-> nonce, data |-> d, signature |-> sig]

\* Block::generateNonce: NONCE_LENGTH bytes from RAND_bytes, or nullptr
\* (Missing) when RAND_bytes fails.
GenerateNonce == Nonces \cup {Missing}

\* Manager::addBlock: the store after appending d with nonce n, or Missing.
\* The header it chains from is read without the version check; the write
\* itself goes through Chain::addBlock, which re-reads it with the check.
ManagerAddBlock(kv, d, n) ==
    LET h == ReadHeader(kv)
    IN  IF h = Missing THEN Missing
        ELSE LET prev == PrevHash(kv, h)
             IN  IF prev = Missing \/ n = Missing THEN Missing
                 ELSE ChainAddBlock(kv, NewBlock(prev, n, d, h.privateKey))

VerifyChainPrevOffByOne(kv) ==
    LET h == ReadHeader(kv)
        blocks == ChainGetBlocks(kv)
    IN  /\ h # Missing
        /\ blocks # Missing
        /\ \A i \in 1 .. Len(blocks) :
              LET b == blocks[i]
                  prev == IF i = 1 THEN GenesisHash(h, GenesisRounds)
                          ELSE blocks[i].hash
              IN  /\ Verify(BodyHash(prev, b.nonce, b.data), h.publicKey, b.signature)
                  /\ BlockHash(prev, b.nonce, b.data, b.signature) = b.hash

\* Manager::verifyChain: recompute every block's prev hash from the header
\* or the previous block, check its signature and its hash.  The stored
\* prevHash field is never read.
VerifyChain(kv) ==
    LET h == ReadHeader(kv)
        blocks == ChainGetBlocks(kv)
    IN  /\ h # Missing
        /\ blocks # Missing
        /\ \A i \in 1 .. Len(blocks) :
              LET b == blocks[i]
                  prev == IF i = 1 THEN GenesisHash(h, GenesisRounds)
                          ELSE blocks[i - 1].hash
              IN  /\ Verify(BodyHash(prev, b.nonce, b.data), h.publicKey, b.signature)
                  /\ BlockHash(prev, b.nonce, b.data, b.signature) = b.hash

Status(ok) == IF ok THEN "SUCCESS" ELSE "ERROR"

(***************************************************************************)
(* Actions.  Every request action requires that no createChain is half     *)
(* done: the server thread finishes one request before the next.           *)
(***************************************************************************)

Init ==
    /\ db = [c \in ChainIds |-> NoDB]
    /\ pending = Idle
    /\ reply = NoReply
    /\ tampers = 0

\* Manager::createChain up to Storage::create: mint the key pair, create the
\* store.  A key generation failure or an existing store answers ERROR.
CreateChain(c, d) ==
    /\ pending = Idle
    /\ \/ \E sk \in PrivateKeys :
             LET s == StorageCreate(db[c])
             IN  \/ /\ s # Missing
                    /\ db' = [db EXCEPT ![c] = s]
                    /\ pending' = [chain |-> c, header |-> NewHeader(d, sk)]
                    /\ reply' = NoReply
                 \/ /\ s = Missing
                    /\ reply' = Reply("createChain", c, "ERROR")
                    /\ UNCHANGED <<db, pending>>
       \/ /\ reply' = Reply("createChain", c, "ERROR")
          /\ UNCHANGED <<db, pending>>
    /\ UNCHANGED tampers

\* Chain::create, second half: storage.set({header}).  When the write fails
\* the created store stays behind without a header.
CreateChainWriteHeader ==
    /\ pending # Idle
    /\ \/ /\ db' = [db EXCEPT ![pending.chain] =
                                  StorageSet(@, HeaderKey :> PackHeader(pending.header))]
          /\ reply' = Reply("createChain", pending.chain, "SUCCESS")
       \/ /\ reply' = Reply("createChain", pending.chain, "ERROR")
          /\ UNCHANGED db
    /\ pending' = Idle
    /\ UNCHANGED tampers

\* The server process dies while createChain is half done; the disk keeps
\* what Storage::create wrote.  The restarted server has nothing in flight.
Crash ==
    /\ pending # Idle
    /\ pending' = Idle
    /\ reply' = NoReply
    /\ UNCHANGED <<db, tampers>>

\* The model's bound on a chain's length.
BelowCapacity(kv) ==
    LET h == ReadHeader(kv) IN IF h = Missing THEN TRUE ELSE h.index < MaxBlocks

\* Manager::addBlock.  Besides the failures ManagerAddBlock returns (a
\* missing header or last block, no nonce), signing or the batch write can
\* fail, leaving the store as it was and answering ERROR.
AddBlock(c, d) ==
    /\ pending = Idle
    /\ BelowCapacity(db[c])
    /\ \E n \in GenerateNonce :
          LET new == ManagerAddBlock(db[c], d, n)
          IN  \/ /\ new # Missing
                 /\ db' = [db EXCEPT ![c] = new]
                 /\ reply' = Reply("addBlock", c, "SUCCESS")
              \/ /\ reply' = Reply("addBlock", c, "ERROR")
                 /\ UNCHANGED db
    /\ UNCHANGED <<pending, tampers>>

\* Storage::remove: DestroyDB deletes the store (a missing directory counts
\* as success), or fails and leaves it as it was.
StorageRemove(kv) == {NoDB, kv}

\* Manager::removeChain (Chain::remove): SUCCESS when DestroyDB succeeded,
\* ERROR when it failed.
RemoveChain(c) ==
    /\ pending = Idle
    /\ \E new \in StorageRemove(db[c]) :
          /\ db' = [db EXCEPT ![c] = new]
          /\ reply' = Reply("removeChain", c, Status(new = NoDB))
    /\ UNCHANGED <<pending, tampers>>

\* Manager::getBlock for a requested block id (0 and too-large ids included).
GetBlock(c, i) ==
    /\ pending = Idle
    /\ reply' = Reply("getBlock", c, Status(ChainGetBlock(db[c], i) # Missing))
    /\ UNCHANGED <<db, pending, tampers>>

\* Manager::getBlocks.
GetBlocks(c) ==
    /\ pending = Idle
    /\ reply' = Reply("getBlocks", c, Status(ChainGetBlocks(db[c]) # Missing))
    /\ UNCHANGED <<db, pending, tampers>>

\* Manager::getChainInfo and Manager::getChainHeader (both Chain::getHeader()).
GetChainInfo(c) ==
    /\ pending = Idle
    /\ reply' = Reply("getChainInfo", c, Status(ReadHeader(db[c]) # Missing))
    /\ UNCHANGED <<db, pending, tampers>>

\* Manager::verifyChain.
VerifyChainRequest(c) ==
    /\ pending = Idle
    /\ reply' = Reply("verifyChain", c, Status(VerifyChain(db[c])))
    /\ UNCHANGED <<db, pending, tampers>>

(***************************************************************************)
(* Corruption of a stored chain behind the server's back (spec.md P6):     *)
(* one field of one record is overwritten with other bytes of its width,   *)
(* or a fixed-width field of a block loses a byte.                         *)
(***************************************************************************)
StoredBlockIds(kv) == {j \in BlockIds : kv[BlockKey(j)] # Missing}
FlipBlockField(kv, f) ==
    { [kv EXCEPT ![BlockKey(i)].fields[f] = Flip(@)] : i \in StoredBlockIds(kv) }
ShortenBlockField(kv, f) ==
    { [kv EXCEPT ![BlockKey(i)].fields[f] = Flip(@), ![BlockKey(i)].size[f] = @ - 1] :
          i \in StoredBlockIds(kv) }
FlipHeader(kv, f) == {[kv EXCEPT ![HeaderKey].fields[f] = Flip(@)]}
SetIndex(kv, i) == {[kv EXCEPT ![HeaderKey].fields.index = i]}

Corrupted(kv, kind) ==
    LET h == kv[HeaderKey].fields
    IN  CASE kind = "blockHash"      -> FlipBlockField(kv, "hash")
          [] kind = "blockPrevHash"  -> FlipBlockField(kv, "prevHash")
          [] kind = "blockNonce"     -> FlipBlockField(kv, "nonce")
          [] kind = "blockData"      -> FlipBlockField(kv, "data")
          [] kind = "blockSignature" -> FlipBlockField(kv, "signature")
          [] kind = "headerData"     -> FlipHeader(kv, "data")
          [] kind = "headerKey"      -> FlipHeader(kv, "privateKey")
          [] kind = "indexGrow"      -> SetIndex(kv, h.index + 1)
          [] kind = "indexShrink"    -> IF h.index > 0 THEN SetIndex(kv, h.index - 1) ELSE {}
          [] kind = "version"        -> {[kv EXCEPT ![HeaderKey].fields.version = DBVersion + 1]}
          [] kind = "prevHashWidth"  -> ShortenBlockField(kv, "prevHash")

Tamper(c) ==
    /\ tampers < MaxTampers
    /\ ReadHeader(db[c]) # Missing
    /\ ReadHeader(db[c]).index < MaxBlocks + 1
    /\ \E kind \in TamperKinds :
          \E new \in Corrupted(db[c], kind) : db' = [db EXCEPT ![c] = new]
    /\ tampers' = tampers + 1
    /\ reply' = NoReply
    /\ UNCHANGED pending

Next ==
    \/ CreateChainWriteHeader
    \/ Crash
    \/ \E c \in ChainIds :
          \/ \E d \in Payloads : CreateChain(c, d) \/ AddBlock(c, d)
          \/ RemoveChain(c)
          \/ \E i \in 0 .. MaxBlocks + 1 : GetBlock(c, i)
          \/ GetBlocks(c)
          \/ GetChainInfo(c)
          \/ VerifyChainRequest(c)
          \/ Tamper(c)

Spec == Init /\ [][Next]_vars

(***************************************************************************)
(* Properties.                                                             *)
(***************************************************************************)

HeaderOK(h) ==
    /\ h \in HeaderRecords
    /\ h.index \in 0 .. MaxBlocks
    /\ h.publicKey = PublicKey(h.privateKey)

\* The type invariant: every store maps every key to Missing or to an
\* encoded header or block whose fields are drawn from the model's sets.
TypeOK ==
    /\ \A c \in ChainIds :
          \/ db[c] = NoDB
          \/ /\ DOMAIN db[c] = StoreKeys
             /\ \/ db[c][HeaderKey] = Missing
                \/ /\ HeaderOK(db[c][HeaderKey].fields)
                   /\ DOMAIN db[c][HeaderKey].size = DOMAIN HeaderWidths
             /\ \A i \in BlockIds :
                   \/ db[c][BlockKey(i)] = Missing
                   \/ /\ IsBlockRecord(db[c][BlockKey(i)].fields)
                      /\ DOMAIN db[c][BlockKey(i)].size = DOMAIN BlockWidths
    /\ pending = Idle \/ (pending.chain \in ChainIds /\ HeaderOK(pending.header))
    /\ reply.status \in Statuses \cup {"NONE"}
    /\ tampers \in 0 .. MaxTampers

\* spec.md I1 and I3-I5 (P2-P5) and 4.C6 of one store, stated over the
\* stored records: the header has this build's version, block_i exists
\* exactly for i in 1..header.index, every fixed-width field has its width,
\* block 1 links to the genesis hash and block i to block i-1 through its
\* stored prev_hash, every signature verifies under the header's public key
\* and every stored hash is the hash of its block.
Intact(kv) ==
    LET e == IF kv = NoDB THEN Missing ELSE kv[HeaderKey]
        h == e.fields
    IN  /\ e # Missing
        /\ e.size = HeaderWidths
        /\ h.version = DBVersion
        /\ \A i \in BlockIds : kv[BlockKey(i)] # Missing <=> i <= h.index
        /\ \A i \in 1 .. h.index :
              LET b == kv[BlockKey(i)].fields
              IN  /\ kv[BlockKey(i)].size = BlockWidths
                  /\ b.prevHash = IF i = 1 THEN GenesisHash(h, GenesisRounds)
                                  ELSE kv[BlockKey(i - 1)].fields.hash
                  /\ Verify(BodyHash(b.prevHash, b.nonce, b.data),
                            h.publicKey, b.signature)
                  /\ b.hash = BlockHash(b.prevHash, b.nonce, b.data, b.signature)

\* Every store that has a header holds a well-formed, correctly linked and
\* signed chain, whatever sequence of creates, appends (through either
\* prev-hash branch of Manager::addBlock), failures, crashes and removes
\* produced it.
ChainLinked ==
    \A c \in ChainIds : ReadHeader(db[c]) # Missing => Intact(db[c])

\* spec.md 4.C9 createChain: a failed createChain leaves no partial store on
\* disk; every existing store has a header, except the one a createChain in
\* flight is about to write it to.
NoHeaderlessStore ==
    \A c \in ChainIds :
        (db[c] # NoDB /\ (pending = Idle \/ pending.chain # c)) =>
            db[c][HeaderKey] # Missing

\* spec.md I6: Manager::verifyChain answers SUCCESS exactly when the stored
\* chain satisfies I1 and I3-I5.
VerifyAgreesWithChain ==
    [][reply'.op = "verifyChain" =>
         (reply'.status = "SUCCESS" <=> Intact(db'[reply'.chain]))]_vars

\* spec.md I2 and the lifecycle: while a store exists its blocks are never
\* rewritten or dropped, and its header index moves up by at most one per
\* step (Chain::addBlock's batch writes the header and exactly the next
\* block).
AppendOnly ==
    [][\A c \in ChainIds :
         (db[c] # NoDB /\ db'[c] # NoDB) =>
            /\ \A i \in BlockIds :
                  db[c][BlockKey(i)] # Missing =>
                     db'[c][BlockKey(i)] = db[c][BlockKey(i)]
            /\ (ReadHeader(db[c]) # Missing /\ ReadHeader(db'[c]) # Missing) =>
                  ReadHeader(db'[c]).index \in
                      {ReadHeader(db[c]).index, ReadHeader(db[c]).index + 1}]_vars

\* spec.md 3: refusing a store of another DB_VERSION is mandatory; every
\* SUCCESS answer about an existing chain comes from a store of this
\* build's version.
VersionEnforced ==
    [][(reply'.status = "SUCCESS" /\
        reply'.op \in {"addBlock", "getBlock", "getBlocks", "getChainInfo", "verifyChain"})
         => ReadHeader(db[reply'.chain]).version = DBVersion]_vars

\* The tenant-visible content of the disk: a chain with a header is the
\* sequence of its blocks' payloads; no store, or a store without header,
\* is no chain.
LogOf ==
    [c \in ChainIds |->
        IF ReadHeader(db[c]) = Missing THEN NoDB
        ELSE [i \in 1 .. ReadHeader(db[c]).index |-> db[c][BlockKey(i)].fields.data]]

Log == INSTANCE AppendOnlyLog WITH logs <- LogOf, Absent <- NoDB

\* The storage layer implements the append-only log of AppendOnlyLog.
RefinesAppendOnlyLog == Log!Spec

=============================================================================
