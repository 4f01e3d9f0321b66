CONSTANTS
    Pings = 2
    News = 1
    Early = FALSE
SPECIFICATION FairSpec
INVARIANT RefsAreHeld
PROPERTIES ImplementsInbox Terminates
CHECK_DEADLOCK FALSE
