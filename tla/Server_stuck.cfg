\* As Server_stop.cfg: is every queued request eventually received?
CONSTANTS
    Clients = {a}
    MaxCalls = 2
    RequestKinds = {"getBlocks", "other"}
    MaxSignals = 1
    NoMsg = NoMsg
    OversizeKinds = {"getBlocks"}

SPECIFICATION Spec

PROPERTY RequestsEventuallyServed
