CONSTANTS
  Count = 3
  MaxWorkers = 2
  MaxLaunches = 2
  MaxInterrupts = 2
  MaxFiles = 1
SPECIFICATION FairSpec
INVARIANTS TypeOK ReportTrue CutAfterTwo
PROPERTIES FinalKept NothingStarts ForceEnds StopEnds
CHECK_DEADLOCK FALSE
