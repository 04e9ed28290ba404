\* One corruption of a block field, the header payload or key, or a raised header index, at any point of the run.
CONSTANTS
    ChainIds = {c1}
    Payloads = {d1, d2}
    PrivateKeys = {k1, k2}
    Nonces = {n1, n2}
    MaxBlocks = 3
    DBVersion = 0
    GenesisRounds = 2
    TamperKinds <- DetectedTamperKinds
    MaxTampers = 1
    NoDB = NoDB
    Missing = Missing
    Idle = Idle

SPECIFICATION Spec

PROPERTY VerifyAgreesWithChain
