SPECIFICATION Spec
CONSTANTS
    Threads = {t1}
    Messages = {m1, m2}
    MsgLen = 2
    HighWaterMark = 3
    ThreadCalls = {"send"}
    OwnerCalls = {"send", "shutdown", "forceClose", "forceCloseWithDelay"}
    ServerMayDie = FALSE
    MaxQueued = 3
    NoMessage = NoMessage
INVARIANTS
    StreamIntact
    WritingIffBuffered
    NoAssertionFails
    UpThenDownOnce
PROPERTIES
    DownIsLast
    ShutdownCompletes
\* a connection that is destroyed has nothing left to do
CHECK_DEADLOCK FALSE
