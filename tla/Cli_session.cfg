\* Two runs of the CLI against a server with a password, the first of
\* which may give up at once and leave its request queued.
CONSTANTS
    ChainIds = {1}
    Payloads <- MCPayloads
    PrivateKeys = {k1}
    Nonces = {n1}
    MaxBlocks = 2
    DBVersion = 0
    GenesisRounds = 2
    NoDB = NoDB
    Missing = Missing
    Idle = Idle
    Passwords = {"p1", "p2"}
    ServerPassword = "p1"
    NoPassword = ""
    NoAuth = NoAuth
    HashBytes = 32
    MaxDataLength = 8192
    DataLength <- MCDataLength
    NoResponse = NoResponse
    Argvs <- MCSessionArgvs
    IntPrefix <- MCIntPrefix
    NoInt = NoInt
    Overflow = Overflow
    Aborted = Aborted
    MaxInvocations = 3

SPECIFICATION Spec

INVARIANT CliTypeOK
PROPERTY CliTerminates
