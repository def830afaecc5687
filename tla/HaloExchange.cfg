CONSTANTS
  CommSize = 6
  Lines <- MCLines
  NCALLS = 2
  EagerLimit = 1
SPECIFICATION Spec
INVARIANTS
  MatchedAsMeant
  ReceivesApart
PROPERTIES
  PrintedWhenFinished
  EveryLinePrinted
