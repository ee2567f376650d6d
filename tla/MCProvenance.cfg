SPECIFICATION PSpec
CONSTANTS
    fw = fw
    v1 = v1
    v2 = v2
    Docs = Docs
    None = None
    Framework = fw
    Repo <- MCRepo
    Revision <- MCRevision
    RevisionOf <- MCRevisionOf
    Release <- MCRelease
INVARIANTS
    StampMatchesMap
    PublishedPinIsAnswered
