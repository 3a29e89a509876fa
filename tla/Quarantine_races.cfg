SPECIFICATION FairSpec
CONSTANTS
  Analysers = {a1, a2}
  Promoters = {p1, p2}
  Languages = {en, fr}
  English = en
  Failures <- Retried
  MaxFaults = 2
  MaxRequests = 2
  Queued = Queued
  Acked = Acked
INVARIANTS
  QuarantineHolds
  PublishedInFull
  PublishedOncePerOverlap
PROPERTIES
  EventuallyPublished
CHECK_DEADLOCK FALSE
