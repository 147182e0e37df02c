CONSTANTS
  q1 = q1
  q2 = q2
  q3 = q3
  q4 = q4
  q5 = q5
  q6 = q6
  id1 = id1
  id3 = id3
  NoRid = NoRid
  NoRequest = NoRequest
  Collector = Collector
  NoCommand = NoCommand
  Rids = {id1, id3}
  RidOf <- MCRidOf
  SingleInstance = FALSE
  UsesModel = TRUE
  Deterministic = FALSE
  Prefill = FALSE
  MaxActions = 2
  Requests = {q3, q4, q1}
  NameOf <- ModelNames
  MaxBoots = 1
  MaxFaults = 1
SPECIFICATION FairSpec
PROPERTIES StopReasonKept ShutdownCloses CommandsAnswered
CHECK_DEADLOCK FALSE
