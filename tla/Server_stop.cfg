\* One client making two calls (the second while the first, timed out,
\* may still be queued), one stop signal at any time, get_blocks responses
\* that may fail to serialize.
CONSTANTS
    Clients = {a}
    MaxCalls = 2
    RequestKinds = {"getBlocks", "other"}
    MaxSignals = 1
    NoMsg = NoMsg
    OversizeKinds = {"getBlocks"}

SPECIFICATION Spec

INVARIANT TypeOK
PROPERTY StopHonoured
