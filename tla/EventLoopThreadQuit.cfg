SPECIFICATION ThreadSpec
CONSTANTS
    Threads = {main}
    Functors = {f1}
    NoCallback = NoCallback
    Creator = main
PROPERTY
    DestructorEnds
CHECK_DEADLOCK FALSE
