CONSTANTS
  Count = 3
  MaxWorkers = 3
  MaxLaunches = 1
  MaxInterrupts = 0
  MaxFiles = 0
SPECIFICATION Spec
INVARIANTS ToolsFinish
CHECK_DEADLOCK FALSE
