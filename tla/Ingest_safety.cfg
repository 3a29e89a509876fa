SPECIFICATION Spec
CONSTANTS
  Requests = {r1, r2}
  Sources = {s1, s2}
  Payloads = {p1, p2}
  BadImages = {p2}
  Failures <- FailureKinds
  MaxFaults = 2
  MaxRequests = 4
  None = None
SYMMETRY Interchangeable
INVARIANTS
  OnePayloadAccepted
  AcceptedIsQueued
PROPERTY
  IngestedOnce
CHECK_DEADLOCK FALSE
