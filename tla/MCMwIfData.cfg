SPECIFICATION Spec
CONSTANTS
  Testers <- EveryTester
  Builds = {TRUE, FALSE}
  MwQLength = 4
  DtaQLength = 3
  MaxOut = 2
  MaxContacts = 3
  MaxFragments = 2
INVARIANTS TypeOK NeverMixed EndIsNoticed
CHECK_DEADLOCK FALSE
