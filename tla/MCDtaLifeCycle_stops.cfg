SPECIFICATION Spec
CONSTANTS
  MaxLives = 3
  MayFail = {"EnableRefused", "DisableRefused", "DisableAbandoned"}
INVARIANTS
  SessionOpen NothingAfterTearDown
CHECK_DEADLOCK FALSE
