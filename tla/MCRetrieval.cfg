SPECIFICATION QuerySpec
CONSTANTS
    r1 = r1
    r2 = r2
    A = A
    B = B
    C = C
    One = 1220000
    RrfK = 60
    MaxSameSource = 2
    MaxConcepts = 3
    MinCandidates = 4
    TopN = 2
    MaxLimit = 4
    SnippetCandidates = 2
    Request <- MCRequest
    Scenarios <- MCScenarios
    Text <- MCText
    Chunk <- MCChunk
    Releases <- MCReleases
INVARIANTS
    LimitOnlyTruncates
    ConceptsAreServed
    SpreadWherePossible
    AnswerSaysWhatItIs
CHECK_DEADLOCK FALSE
