SPECIFICATION FairSpec
CONSTANTS
    Tests = {t1, t2}
    Compiled = {t1}
    Leftover = {}
    MaxJobs = 3
    MaxLost = 0
PROPERTY
    SessionEnds
