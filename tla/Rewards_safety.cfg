SPECIFICATION Spec
CONSTANTS
  u1 = u1
  u2 = u2
  u3 = u3
  Users = {u1, u2, u3}
  Referrer <- Chain
  Newcomers = {u2}
  Unmatched = {u3}
  Redemptions = {r1, r2}
  Disbursals = {d1, d2}
  BatchSize = 2
  Failures = {"award", "mark", "funds", "receiver", "events", "record", "crash"}
  MaxFaults = 1
  MaxEarned = 2
  MaxRuns = 3
  None = None
INVARIANTS
  NoneLost
  RecordedIsPaid
  NoneOverpaid
  SharedOnce
CHECK_DEADLOCK FALSE
