SPECIFICATION Spec
CONSTANTS
  MaxLives = 2
  MayFail = {"EnableRefused", "EnableAbandoned", "DisableRefused", "DisableAbandoned"}
INVARIANTS
  TypeOK SessionOpen NothingAfterTearDown OwnSemaphoreLives
PROPERTIES
  JoinReturns
CHECK_DEADLOCK FALSE
