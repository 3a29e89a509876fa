CONSTANTS
  t1 = t1
  t2 = t2
  m = m
  Targets <- MCTargets
  Copied <- MCCopied
  OptingOut = {m}
  Replying = {t1}
  Workers = {w1, w2}
  MaxRequests = 2
  MaxFaults = 1
  None = None
SPECIFICATION Spec
SYMMETRY Symmetry
INVARIANTS SentIsMailed ActionTellsItsOwn OptOutHonoured MemoryAgrees
CHECK_DEADLOCK FALSE
