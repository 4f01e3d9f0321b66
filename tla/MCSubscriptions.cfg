CONSTANTS
    here = here  there = there  near = near  far = far  plain = plain  board = board
    Supervisors = {here, there}
    Actors = {near, far}
    Addresses = {plain, board}
    Home <- HomeOf
    Owner <- OwnerOf
    Subscribes <- Both
    Later <- LocalLater
    Publishes <- ToBoard
    Budget <- FewSends
    Linked = TRUE
    Tagged = {there}
SPECIFICATION FairSpec
INVARIANT NoAssertionFails
PROPERTIES OwedIsHandled NothingStays SupervisorsEnd
CHECK_DEADLOCK FALSE
