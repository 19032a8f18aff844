SPECIFICATION ServerSpec
CONSTANTS
    MaxThreads = 2
    MaxConnections = 5
    MaxOpen = 3
INVARIANTS
    LifeCycleKept
    LoopsShared
PROPERTIES
    BacklogDrains
    DownIsGone
\* a server without peers waits for ever
CHECK_DEADLOCK FALSE
