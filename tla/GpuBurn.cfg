SPECIFICATION FairSpec
CONSTANT NumDevices = 2
INVARIANTS
    HoldOffUntilAllGo
    VerdictHonest
PROPERTIES
    ResultsPrinted
    BurnersStop
