SPECIFICATION FairSpec
CONSTANTS
    MaxIdle = 2
    MaxCalls = 2
INVARIANTS
    ExitFollowsClose
PROPERTIES
    ShutdownIsBounded
    OutlivesNoClient
CHECK_DEADLOCK FALSE
