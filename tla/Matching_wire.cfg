SPECIFICATION Spec
CONSTANTS
  Requests = {r1}
  Users = {u1}
  Photos = {p1, p2}
  Protocol = "wire"
  Limit = 1
  Failures = {}
  MaxFaults = 0
  MaxRequests = 2
  None = None
INVARIANTS
  Traced
CHECK_DEADLOCK FALSE
