SPECIFICATION FairSpec
CONSTANTS
  Messages = {m1}
  Copies = {c1, c2, c3, c4}
  Workers = {w1, w2}
  MaxRetries = 1
  HasRetryExchange = TRUE
  HasDLQ = FALSE
  CanClose = TRUE
  MaxFaults = 1
  None = None
INVARIANTS
  NothingLost
  RetriesBounded
  SettledExactlyOnce
PROPERTIES
  EventuallySettled
  Resumes
  AtLeastOnce
CHECK_DEADLOCK FALSE
