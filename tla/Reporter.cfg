SPECIFICATION Spec
CONSTANTS
    Partitions <- MCPartitions
    SystemOf <- MCSystemOf
    HasUenv <- MCPartitions
    BaseEnvirons <- MCBaseEnvirons
    Systems = {"daint", "eiger"}
    Host = "eiger"
    Images <- MCImages
    Deployed <- MCDeployed
    Recipes <- MCRecipes
    Unreadable <- MCUnreadable
    RecipeEnvs <- MCRecipeEnvs
    Tests <- MCTests
    Valid <- MCValid
    Selected <- MCSelected
    AskLists <- MCAskLists
    Matrices <- MCMatrices
    MaxChanges = 1
INVARIANTS
    CellsTrue
    TotalsRight
    EligibleMeansDeployed
