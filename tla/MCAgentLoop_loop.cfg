CONSTANTS
  MaxTurns = 3
  MaxCalls = 1
  MaxNoTool = 2
  MaxWaits = 1
  MaxParallel = 2
  MaxRan = 2
  MaxBoots = 2
SPECIFICATION FairSpec
INVARIANTS TypeOK TurnBudget CallBudget WallEnds
PROPERTIES VerdictKept EndsWhenTold
CHECK_DEADLOCK FALSE
