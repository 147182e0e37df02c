CONSTANTS
  q1 = q1
  q2 = q2
  q3 = q3
  q4 = q4
  q5 = q5
  q6 = q6
  id1 = id1
  id3 = id3
  NoRid = NoRid
  NoRequest = NoRequest
  Collector = Collector
  NoCommand = NoCommand
  Rids = {id1, id3}
  RidOf <- MCRidOf
  SingleInstance = TRUE
  UsesModel = FALSE
  Deterministic = TRUE
  Prefill = TRUE
  MaxActions = 2
  Requests = {q1, q2, q3}
  NameOf <- VanillaNames
  MaxBoots = 2
  MaxFaults = 1
SPECIFICATION Spec
INVARIANTS TypeOK RecordedWithinBudget NothingInFlight CollectionContinues RequestExecutedOnce OneLateAction
PROPERTIES HistorySpec
CHECK_DEADLOCK FALSE
