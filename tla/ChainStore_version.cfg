\* A store whose header carries another DB_VERSION (written by another build).
CONSTANTS
    ChainIds = {c1}
    Payloads = {d1, d2}
    PrivateKeys = {k1, k2}
    Nonces = {n1, n2}
    MaxBlocks = 3
    DBVersion = 0
    GenesisRounds = 2
    TamperKinds = {"version"}
    MaxTampers = 1
    NoDB = NoDB
    Missing = Missing
    Idle = Idle

SPECIFICATION Spec

PROPERTY VersionEnforced
