CONSTANTS
  q1 = q1
  q2 = q2
  q3 = q3
  q4 = q4
  q5 = q5
  q6 = q6
  id1 = id1
  id3 = id3
  NoRid = NoRid
  NoRequest = NoRequest
  Collector = Collector
  NoCommand = NoCommand
  Rids = {id1, id3}
  RidOf <- MCRidOf
  SingleInstance = TRUE
  UsesModel = TRUE
  Deterministic = TRUE
  Prefill = FALSE
  MaxActions = 2
  Requests = {q1, q2, q3}
  NameOf <- ModelNames
  MaxBoots = 2
  MaxFaults = 0
SPECIFICATION Spec
INVARIANTS SizesCoverAccepted
CHECK_DEADLOCK FALSE
