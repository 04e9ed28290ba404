\* One corruption: a stored block's prev_hash field overwritten, or the
\* header's block index lowered over the last block.
CONSTANTS
    ChainIds = {c1}
    Payloads = {d1, d2}
    PrivateKeys = {k1, k2}
    Nonces = {n1, n2}
    MaxBlocks = 3
    DBVersion = 0
    GenesisRounds = 2
    TamperKinds = {"blockPrevHash", "indexShrink"}
    MaxTampers = 1
    NoDB = NoDB
    Missing = Missing
    Idle = Idle

SPECIFICATION Spec

PROPERTY VerifyAgreesWithChain
