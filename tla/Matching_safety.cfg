SPECIFICATION Spec
CONSTANTS
  Requests = {r1, r2}
  Users = {u1, u2}
  Photos = {p1, p2}
  Protocol = "legacy"
  Limit = 2
  Failures = {"mark", "respond", "submit", "strand", "answer", "body", "latest", "publish", "cluster", "read", "crash"}
  MaxFaults = 2
  MaxRequests = 3
  None = None
SYMMETRY Interchangeable
INVARIANTS
  Traced
  OneReportPerPhoto
  ClustersGrowForward
CHECK_DEADLOCK FALSE
