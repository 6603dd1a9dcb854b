SPECIFICATION Spec
CONSTANTS
  Settings <- ListenOrLlcp
  MayRefuse = {"Connect","RegisterAid","DeregisterAid","ConfigureUiccListen"}
  MaxOut = 1
  MaxCeData = 1
  MaxSeveral = 0
  Handles = {"h1","h2"}
  Threads = {"app", "handler"}
  EarlyTester = FALSE
INVARIANTS
  DiscoveryResumes NothingLeftInQueue NoLeakedConnection LlcpResumes
CHECK_DEADLOCK FALSE
