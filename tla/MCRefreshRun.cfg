SPECIFICATION Spec
CONSTANTS
    r1 = r1
    r2 = r2
    v1 = v1
    v2 = v2
    w1 = w1
    d1 = d1
    d2 = d2
    Docs = Docs
    None = None
    Repo <- TwoRepos
    Revision <- MCRevision
    RevisionOf <- MCRevisionOf
SYMMETRY RevisionSymmetry
INVARIANTS
    SkippedAreWhole
    DocsMarkerIsHonest
    CleanRunHeals
PROPERTY MarkerOutlivesRecords
