SPECIFICATION Spec
CONSTANTS
  Settings <- ReaderOrSelect
  MayRefuse = {"Select"}
  MaxOut = 1
  MaxCeData = 0
  MaxSeveral = 1
  Handles = {}
  Threads = {"app", "handler", "integration"}
  EarlyTester = FALSE
INVARIANTS
  TypeOK StoppedIsKnown NoForgottenContact
CHECK_DEADLOCK FALSE
