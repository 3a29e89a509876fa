SPECIFICATION Spec
CONSTANTS
  Requests = {r1}
  Sources = {s1}
  Payloads = {p1, p2}
  BadImages = {}
  Failures = {"publish"}
  MaxFaults = 1
  MaxRequests = 2
  None = None
INVARIANTS
  RetrySafe
CHECK_DEADLOCK FALSE
