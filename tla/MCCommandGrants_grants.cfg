CONSTANTS
  c1 = c1
  c2 = c2
  c3 = c3
  r1 = r1
  r2 = r2
  r3 = r3
  r4 = r4
  RunController = RunController
  UpdateCodeWorldModel = UpdateCodeWorldModel
  Calls = {c1, c2}
  Names = {RunController, UpdateCodeWorldModel}
  Requests = {r1, r2, r4}
  Anonymous = {r2}
  NameOf <- MCNameOf
  NoCall = NoCall
  MaxParallel = 2
  MaxErrors = 1
SPECIFICATION FairSpec
INVARIANTS GrantBudget OneWhileSequential
PROPERTIES HonestServed ClaimEnds
CHECK_DEADLOCK FALSE
