\* Creates with crashes and failed writes, no corruption.
CONSTANTS
    ChainIds = {c1}
    Payloads = {d1, d2}
    PrivateKeys = {k1, k2}
    Nonces = {n1, n2}
    MaxBlocks = 3
    DBVersion = 0
    GenesisRounds = 2
    TamperKinds = {}
    MaxTampers = 0
    NoDB = NoDB
    Missing = Missing
    Idle = Idle

SPECIFICATION Spec

INVARIANT NoHeaderlessStore
