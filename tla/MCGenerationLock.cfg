SPECIFICATION FairSpec
CONSTANTS
    o1 = o1
    o2 = o2
    o3 = o3
    proc1 = proc1
    proc2 = proc2
    Owner <- MCOwner
    Process <- MCProcess
    ProcessOf <- MCProcessOf
    Thread <- MCOwner
    Layout <- MCLayout
    MaxInode = 2
    MaxDepth = 2
INVARIANTS
    MutualExclusion
    RegistryIsExact
PROPERTIES
    ParentIsReleased
CHECK_DEADLOCK FALSE
