SPECIFICATION Spec
CONSTANTS
    Partitions <- MCPartitions
    SystemOf <- MCSystemOf
    HasUenv = {"daint:normal"}
    BaseEnvirons <- MCBaseEnvirons
    Uenvs <- MCUenvs
    Paths = {"sqfs"}
    NoUenv = "no uenv"
    Lists <- MCLists
    HandLists <- MCHandLists
    Keys <- MCKeys
    Broken = {"bad"}
    Pretty <- MCPretty
    MaxChanges = 3
INVARIANTS
    EnvironmentsBacked
    NothingHidden
    AcceptedLoads
