SPECIFICATION FairSpec
CONSTANTS
    t1 = t1
    t2 = t2
    None = None
    Thread <- MCThread
    MaxRefresh = 2
INVARIANTS
    FreshReads
    ReadsOpenStore
    PairedWhenQuiet
PROPERTY StaleStoreCloses
CHECK_DEADLOCK FALSE
