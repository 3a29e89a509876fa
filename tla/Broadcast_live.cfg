SPECIFICATION FairSpec
CONSTANTS
  f1 = f1
  p1 = p1
  Clients = {f1, p1}
  HubOf <- HubOfClient
  MaxSeq = 3
  Unlisted = {2}
  HubCap = 1
  SendCap = 1
  Stored0 = 1
  MaxFaults = 1
INVARIANTS
  QueuesClosedOnce
  NoGapWhileConnected
  StreamInOrder
  CursorBehindBroadcast
PROPERTIES
  ReadIsBroadcast
CHECK_DEADLOCK FALSE
