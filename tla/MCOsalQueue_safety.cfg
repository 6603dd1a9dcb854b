SPECIFICATION Spec
CONSTANTS
  p1 = p1
  p2 = p2
  c1 = c1
  o1 = o1
  o2 = o2
  o3 = o3
  Pushers = {p1, p2}
  Pullers = {c1}
  Flushers = {c1}
  Objs = {o1, o2, o3}
  QLength = 1
  Modes = {"NO_OVERWRITE", "OVERWRITE_OLDEST", "OVERWRITE_NEWEST"}
  PushTimeouts = {0, 100}
  PullTimeouts = {0, 5000}
  Interruptible = TRUE
  NULL = NULL
  Junk = Junk
  NoThread = NoThread
SYMMETRY Symmetry
INVARIANTS TypeOK MutualExclusion TokenConservation TokensBackedByObjects
CHECK_DEADLOCK FALSE
