SPECIFICATION Spec
CONSTANTS
    Nodes <- SeparateNodes
    Feats <- SeparateFeats
    Parts <- SeparateParts
    Gpus <- SeparateGpus
    DefaultPart = "normal"
    Excluded = {"group1", "group2"}
    UserInput = FALSE
    UserNames = {}
    DetectContainers = TRUE
    DetectDevices = TRUE
    CompulsoryOptions = TRUE
    Wait = TRUE
    RelativePrefix = FALSE
    Banner = TRUE
    ErrorLine = {}
    CommandsFail = TRUE
INVARIANTS
    IInv
    NamesUnique
    OneWriter
    ReadsOwnJob
    DetectedOnOwnTypeIfHomogeneous
    CwdRestored
    NoOrphanJob
