SPECIFICATION FairSpec
CONSTANTS
    NumProcs = 3
    Rows = 6
    MaxIter = 2
INVARIANTS
    ErrorOfTheGrid
PROPERTIES
    KeepsPromise
    SummaryPrinted
