SPECIFICATION FairSpec
CONSTANTS
  Fetchers = {provisioned, agent}
  Provisioned = {provisioned}
  Workers = {w1, w2}
  MinuteCaps = {1, 2}
  DayCaps = {2}
  NewMinuteCap = 1
  NewDayCap = 2
  MaxBatch = 1
  MaxRegistrations = 1
  Hour = 1
  Day = 2
  LastMinute = 1
  MaxActs = 1
  MaxFaults = 1
  None = None
INVARIANTS
  QuotaHeld
PROPERTIES
  NoneUninvited
  Served
CHECK_DEADLOCK FALSE
