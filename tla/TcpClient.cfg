SPECIFICATION TcpClientSpec
CONSTANTS
    EnableRetry = TRUE
    MaxFails = 3
    MaxConnections = 2
    MaxConnects = 2
INVARIANTS
    FaultsNeedEarlyCalls
    StopIsFinal
PROPERTIES
    ConnectsInTheEnd
\* a client that is stopped or destroyed has nothing left to do
CHECK_DEADLOCK FALSE
