SPECIFICATION Spec
CONSTANTS
    a1 = a1
    a2 = a2
    b1 = b1
    repoA = repoA
    repoB = repoB
    Record <- MCRecord
    Owner <- MCOwner
    OwnerOf <- MCOwnerOf
INVARIANTS
    VectorsBacked
    AdviceWorks
    ReaderSeesWholeIndex
PROPERTY KeepsItsPromise
