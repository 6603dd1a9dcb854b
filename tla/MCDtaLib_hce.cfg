SPECIFICATION Spec
CONSTANTS
  Settings <- HceOnly
  MayRefuse = {}
  MaxOut = 1
  MaxCeData = 3
  MaxSeveral = 0
  Handles = {}
  Threads = {"app", "handler"}
  EarlyTester = FALSE
PROPERTIES CallbackReturns
CHECK_DEADLOCK FALSE
