SPECIFICATION ProtocolsSpec
CONSTANTS
    KPrePrePend = 2
    InitialSize = 2
    ExtraSize = 3
    Base = 4
    MaxBytes = 4
    Methods = {"GET", "POST", "HEAD"}
    Lengths <- MCLengths
    MaxRequests = 2
    Clients = {c1, c2}
    KHeaderLen = 2
    MaxLength = 2
    MessageSizes = {0, 1, 3}
    MaxMessages = 3
    Peers = {p1, p2}
    IdleSeconds = 3
SYMMETRY ClientSymmetry
INVARIANTS
    BufferKeepsBytes
    HttpAnswersInOrder
    ChatInOrder
PROPERTIES
    IdleClosedInTime
CHECK_DEADLOCK FALSE
