CONSTANTS
    one = one  other = other  t1 = t1  t2 = t2  t3 = t3
    Actors = {one, other}
    Timers = {t1, t2, t3}
    Owner <- OwnerOf
    Intervals = {0, 2}
    Horizon = 4
    MaxMessages = 2
    Careful = TRUE
SPECIFICATION FairSpec
INVARIANTS NoAssertionFails TimersAgree Sorted
PROPERTY EveryTimerIsCalled
CHECK_DEADLOCK FALSE
