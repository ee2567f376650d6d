SPECIFICATION Spec
CONSTANTS
    c1 = c1
    c2 = c2
    Latest = Latest
    None = None
    Branch = {1, 2}
    Commit <- MCCommit
    Tag <- MCTag
    PreRelease = {2}
    MaxTags = 2
    MaxChanges = 2
    Unfit = {3}
SYMMETRY CommitSymmetry
INVARIANTS
    LabelsAreTrue
    HeadIsFollowed
    RecoveredIsWhole
PROPERTIES
    LatestIsNewest
