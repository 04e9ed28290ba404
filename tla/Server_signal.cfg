\* As Server_stop.cfg: does every stop signal end the server?
CONSTANTS
    Clients = {a}
    MaxCalls = 2
    RequestKinds = {"getBlocks", "other"}
    MaxSignals = 1
    NoMsg = NoMsg
    OversizeKinds = {"getBlocks"}

SPECIFICATION Spec

PROPERTY SignalHonoured
