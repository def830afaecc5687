SPECIFICATION FairSpec
CONSTANTS
    Nodes <- SingleNodes
    Feats <- SingleFeats
    Parts <- SingleParts
    Gpus <- SingleGpus
    DefaultPart = "normal"
    Excluded = {"group1", "group2"}
    UserInput = TRUE
    UserNames = {}
    DetectContainers = TRUE
    DetectDevices = TRUE
    CompulsoryOptions = FALSE
    Wait = TRUE
    RelativePrefix = TRUE
    Banner = TRUE
    ErrorLine <- OneType
    CommandsFail = TRUE
INVARIANTS
    TmpDirKept
PROPERTIES
    Terminates
    KeepsPromise
