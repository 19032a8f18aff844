SPECIFICATION Spec
CONSTANTS
    Channels = {c1, c2, c3}
    Fds = {d1, d2}
    NoChannel = NoChannel
    InitEventListSize = 1
INVARIANTS
    IndexMeansPlace
    NoDanglingChannel
    NoAssertionFails
