SPECIFICATION Spec
CONSTANTS
    Threads = {t1}
    Messages = {m1, m2}
    MsgLen = 2
    HighWaterMark = 3
    ThreadCalls = {"send", "shutdown"}
    OwnerCalls = {}
    ServerMayDie = FALSE
    MaxQueued = 3
    NoMessage = NoMessage
INVARIANT
    ShutdownLosesNothing
CHECK_DEADLOCK FALSE
