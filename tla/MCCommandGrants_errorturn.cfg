CONSTANTS
  c1 = c1
  c2 = c2
  c3 = c3
  r1 = r1
  r2 = r2
  r3 = r3
  r4 = r4
  RunController = RunController
  UpdateCodeWorldModel = UpdateCodeWorldModel
  Calls = {c1, c2}
  Names = {RunController, UpdateCodeWorldModel}
  Requests = {r1, r2, r3}
  Anonymous = {}
  NameOf <- MCNameOf
  NoCall = NoCall
  MaxParallel = 1
  MaxErrors = 1
SPECIFICATION Spec
INVARIANTS OneSinceLastStart
CHECK_DEADLOCK FALSE
