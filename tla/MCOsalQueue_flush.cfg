SPECIFICATION Spec
CONSTANTS
  p1 = p1
  f1 = f1
  o1 = o1
  o2 = o2
  Pushers = {p1}
  Pullers = {}
  Flushers = {f1}
  Objs = {o1, o2}
  QLength = 2
  Modes = {"NO_OVERWRITE"}
  PushTimeouts = {0}
  PullTimeouts = {0}
  Interruptible = FALSE
  NULL = NULL
  Junk = Junk
  NoThread = NoThread
INVARIANTS FlushFreesFlushedObject
CHECK_DEADLOCK FALSE
