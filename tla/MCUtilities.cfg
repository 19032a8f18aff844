SPECIFICATION UtilitiesSpec
CONSTANTS
    NumWorkers = 2
    Producers = {p1, p2}
    MaxQueueSize = 2
    MaxTasks = 4
    MaxSizes = {1, 2, 3, 5, 7, 250}
    Callers = {c1, c2}
    MaxSlots = 2
    RollSize = 4
    FlushInterval = 1
    CheckEveryN = 2
    RollPerSeconds = 2
    BufferSize = 4
    MaxLines = 5
    MaxTime = 4
    FirstDate <- MCFirstDate
    LastYear = 2104
    ZoneFiles <- MCZoneFiles
    ZoneTimes = {0, 1, 2, 3, 4, 5, 6, 7, 8, 9, 10, 11, 12, 13, 14, 15, 16, 17, 18, 19, 20, 21, 22, 23, 24, 25, 26, 27, 28, 29, 30, 31, 32, 33, 34, 35, 36, 37, 38, 39, 40, 41, 42, 43, 44}
    Bytes = {0, 1, 62, 63, 170, 251, 255}
    MaxInput = 5
    LineLength = 4
    BufferBytes = 4
    FileSizes = {0, 3, 4, 9}
    MaxReadSizes = {1, 4, 8, 10}
INVARIANTS
    ObjectsBounded
    SlotsCalled
    LogAssertionsHold
    DatesMatchCalendar
    LocalTimesReturn
    DecodeInvertsEncode
    FileReadWhole
PROPERTIES
    TasksAreFifo
    PoolKeepsWorking
    LogIsFifo
    LineIsFlushed
\* every one of them may be done or stopped
CHECK_DEADLOCK FALSE
