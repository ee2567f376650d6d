SPECIFICATION Spec
CONSTANTS
    t1 = t1
    t2 = t2
    None = None
    Thread <- MCThread
    MaxRefresh = 1
INVARIANT StoreOutlivesReads
CHECK_DEADLOCK FALSE
