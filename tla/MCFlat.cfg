CONSTANTS
    root = root
    a = a
    b = b
    Actors <- All
    Root <- root
    Parent <- FlatParent
    Supervisors <- JustRoot
    SyncStart <- None
    ShutdownSelf <- JustRoot
    Linkers <- JustA
    Holders <- JustB
    Subscribers <- None
    InitExpires <- JustA
    ShutdownExpires <- JustB
    Quitters <- All
    MaxShutdowns = 1
SPECIFICATION Spec
CHECK_DEADLOCK FALSE
INVARIANTS
    NoAssertionFails
PROPERTIES
    FollowsLifecycle
    InitializationSettles
