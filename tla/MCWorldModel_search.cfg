SPECIFICATION Spec
CONSTANTS
  s1 = s1
  s2 = s2
  s3 = s3
  dark = dark
  light = light
  won = won
  left = left
  right = right
  None = None
  States <- MCStates
  Observations <- MCObservations
  Actions <- MCActions
  DoneObs = {won}
  ActionsFor <- MCActionsFor
  Models <- MCModels
  Utilities <- MCUtilities
  UpperBound = 2
  Logs <- MCLogs
  MaxEvidence = 1
  MaxCalls = 17
  MaxNodes = 5
  MaxDepth = 3
CHECK_DEADLOCK FALSE
INVARIANTS
  TypeOK
  VerdictTrue
  LiveTrue
  PlanTrue
  ProvenOptimal
