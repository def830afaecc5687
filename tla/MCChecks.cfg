SPECIFICATION MCSpec
CONSTANTS
  Topologies <- MCTopologies
  Cases <- MCCases
  Reports <- MCReports
  MaxExtra = 1
  Class <- MCClass
  Roots <- MCRoots
  Parts <- MCParts
  Environs <- MCEnvirons
  MaxEnvirons = 2
  Names <- MCSystems
  Selected <- create_checks
INVARIANTS
  PassMeansPlaced
  FailMeansMisplaced
  FaultFound
  NothingUnset
  ReferencedRuns
  NothingLost
