SPECIFICATION Spec
CONSTANTS
    a = a
    b = b
    MaxFiles = 4
    MaxLens = 5
    MaxLines = 5
    MaxRecords = 2
    MaxRstLines = 4
    Versions <- MCVersions
    Jobs <- MCJobs
    Content <- MCContent
    CharsPerToken = 2
    MaxTokens = 3
    OverlapTokens = 1
INVARIANTS
    ChunkIdsDiffer
    NothingIsLost
    
    ChunksAreTheText
    OnlyNamedIsDeprecated
    StillThereIsNotRemoved
CHECK_DEADLOCK FALSE
