SPECIFICATION FairSpec
CONSTANTS
  p1 = p1
  c1 = c1
  c2 = c2
  o1 = o1
  o2 = o2
  o3 = o3
  o4 = o4
  Pushers = {p1}
  Pullers = {c1, c2}
  Flushers = {}
  Objs = {o1, o2, o3, o4}
  QLength = 2
  Modes = {"NO_OVERWRITE"}
  PushTimeouts = {0}
  PullTimeouts = {0}
  Interruptible = FALSE
  NULL = NULL
  Junk = Junk
  NoThread = NoThread
INVARIANTS SingleOwner LockHeldOnlyInside
PROPERTIES EveryObjectPulled EveryPushReturns FifoSpec
