SPECIFICATION ThreadSpec
CONSTANTS
    Threads = {main, other}
    Functors = {f1, f2}
    NoCallback = NoCallback
    Creator = main
INVARIANTS
    NoLostWakeup
PROPERTIES
    FunctorsAreFifo
    QueuedIsRun
    DestructorJoinsRunningLoop
\* every thread may be done, or the loop may wait for events that never come
CHECK_DEADLOCK FALSE
