\* Every request kind, with and without a valid password hash, payloads at
\* and over MAX_DATA_LENGTH, on one chain with failures and crashes.
CONSTANTS
    ChainIds = {c1}
    Payloads <- MCPayloads
    PrivateKeys = {k1, k2}
    Nonces = {n1, n2}
    MaxBlocks = 2
    DBVersion = 0
    GenesisRounds = 2
    NoDB = NoDB
    Missing = Missing
    Idle = Idle
    Passwords = {p1, p2}
    ServerPassword = p1
    NoPassword = NoPassword
    NoAuth = NoAuth
    HashBytes = 32
    MaxDataLength = 8192
    DataLength <- MCDataLength
    NoResponse = NoResponse

SPECIFICATION Spec

INVARIANT TypeOK
INVARIANT PayloadsWithinLimit
PROPERTY AuthEnforced
PROPERTY AnswerMatchesLog
