CONSTANTS
    root = root
    a = a
    b = b
    Actors <- All
    Root <- root
    Parent <- DeepParent
    Supervisors <- RootAndA
    SyncStart <- JustA
    ShutdownSelf <- JustRoot
    Linkers <- JustB
    Holders <- JustB
    Subscribers <- JustB
    InitExpires <- JustB
    ShutdownExpires <- None
    Quitters <- All
    MaxShutdowns = 2
SPECIFICATION Spec
CHECK_DEADLOCK FALSE
INVARIANTS
    ForgottenLeavesNoRequest
    ConfirmationsAreTrue
    ChildrenStartAfterSupervisor
PROPERTIES
    WaitsForChildren
    ShutdownCompletes
