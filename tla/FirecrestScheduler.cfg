SPECIFICATION Spec
CONSTANTS
    Tests = {t1, t2}
    Compiled = {t1}
    Leftover = {t1}
    MaxJobs = 3
    MaxLost = 1
INVARIANTS
    ResultIsOwn
    OnlyCurrentJob
    NoCancelledResult
