CONSTANTS
  MaxSubmissions = 2
  Versions = {stub, good, gone}
  FirstVersion = stub
  Winning = {good}
  Missing = {gone}
  Episodes = 2
SPECIFICATION FairSpec
INVARIANTS TypeOK SubmissionsOrdered OfficialResult
PROPERTIES SolvedIsEarned SubmissionsAnswered
CHECK_DEADLOCK FALSE
