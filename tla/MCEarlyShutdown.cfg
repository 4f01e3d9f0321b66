CONSTANTS
    root = root
    a = a
    b = b
    Actors <- All
    Root <- root
    Parent <- FlatParent
    Supervisors <- JustRoot
    SyncStart <- None
    ShutdownSelf <- JustRoot
    Linkers <- None
    Holders <- None
    Subscribers <- JustA
    InitExpires <- None
    ShutdownExpires <- None
    Quitters <- JustA
    MaxShutdowns = 1
SPECIFICATION Spec
CHECK_DEADLOCK FALSE
INVARIANT NoAssertionFails
