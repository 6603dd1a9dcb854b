SPECIFICATION Spec
CONSTANTS
  Settings <- DisableOnly
  MayRefuse = {}
  MaxOut = 1
  MaxCeData = 0
  MaxSeveral = 0
  Handles = {}
  Threads = {"app", "handler"}
  EarlyTester = FALSE
INVARIANTS
  StoppedAfterDisable
CHECK_DEADLOCK FALSE
