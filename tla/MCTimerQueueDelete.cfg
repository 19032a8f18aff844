SPECIFICATION Spec
CONSTANTS
    repeating = repeating
    oneShot = oneShot
    another = another
    Timers = {repeating, oneShot, another}
    NoTimer = NoTimer
    Interval <- MCInterval
    Delays = {0, 2}
    MaxPending = 2
INVARIANT
    DestructorDeletesOnce
