SPECIFICATION Spec
CONSTANTS
    Threads = {t1}
    Messages = {m1}
    MsgLen = 2
    HighWaterMark = 2
    ThreadCalls = {"send", "shutdown", "startRead", "stopRead"}
    OwnerCalls = {"startRead", "stopRead"}
    ServerMayDie = TRUE
    MaxQueued = 2
    NoMessage = NoMessage
INVARIANTS
    FinBehindData
CHECK_DEADLOCK FALSE
