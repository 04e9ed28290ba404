---------------------------- MODULE ChainCrypto ----------------------------
(***************************************************************************)
(* The cryptographic primitives of ChainDB as symbolic terms.              *)
(*                                                                         *)
(* SHA-256 is modelled as a free constructor: Hash(parts) is equal to      *)
(* Hash(parts2) only when the part sequences are equal, i.e. the model     *)
(* assumes no collisions.  SHA256::getHash hashes the plain concatenation  *)
(* of its parts; keeping the parts as a tuple is faithful because every    *)
(* call site concatenates fixed-width fields (32-byte hashes, 8-byte       *)
(* nonces, 32/33-byte keys, 64-byte signatures) with at most one           *)
(* variable-length payload, so the concatenation determines the parts.     *)
(*                                                                         *)
(* An ECDSA signature is modelled as the pair (message, public key of the  *)
(* signer): it verifies under pk exactly when it was produced by the       *)
(* private key behind pk over that message (unforgeability).               *)
(***************************************************************************)
EXTENDS Naturals, Sequences

\* SHA256::getHash: one digest over the concatenation of the parts.
Hash(parts) == [sha256 |-> parts]

\* SHA256::getHashN: h := getHash(input); then n - 1 more rounds h := getHash({h}).
RECURSIVE HashN(_, _)
HashN(parts, n) ==
    IF n <= 1 THEN Hash(parts)
              ELSE Hash(<<HashN(parts, n - 1)>>)

\* Secp256k1::createPublicKey: the compressed public key of a private key.
PublicKey(sk) == [pubOf |-> sk]

\* Secp256k1::getSignature: deterministic (RFC 6979) signature of hash by sk.
Sign(hash, sk) == [signed |-> hash, by |-> PublicKey(sk)]

\* Secp256k1::verifySignature: true iff sig was made over hash by pk's key.
Verify(hash, pk, sig) == sig = [signed |-> hash, by |-> pk]

(***************************************************************************)
(* The three digests of the chaining protocol (Manager::addBlock and       *)
(* Manager::verifyChain compute them identically).                         *)
(***************************************************************************)

\* The virtual prev_hash of block 1: getHashN({data, sk, pk}) with the
\* default round count.
GenesisHash(header, rounds) ==
    HashN(<<header.data, header.privateKey, header.publicKey>>, rounds)

\* What is signed: getHash({prevHash, nonce, data}).
BodyHash(prevHash, nonce, data) == Hash(<<prevHash, nonce, data>>)

\* The block's identity: getHash({prevHash, nonce, data, signature}).
BlockHash(prevHash, nonce, data, sig) == Hash(<<prevHash, nonce, data, sig>>)

(***************************************************************************)
(* A stored value overwritten by different bytes of the same width: a      *)
(* value no legitimate computation produces.                               *)
(***************************************************************************)
Flip(v) == [flipped |-> v]

=============================================================================
