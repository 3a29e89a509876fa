SPECIFICATION OneLoopAtATime
CONSTANTS
  b1 = b1
  b2 = b2
  p1 = p1
  p2 = p2
  e1 = e1
  e2 = e2
  Branded = {b1, b2}
  Brandless = {p1, p2}
  Emails = {e1, e2}
  OptingOut = {e2}
  Found <- FoundContacts
  a1 = a1
  a2 = a2
  Areas = {a1, a2}
  AreasOf <- AreasOfOne
  ContactsOf <- OverlappingAreas
  NoArea = NoArea
  Nowhere = {}
  ThrottleDays = 1
  MaxDaily = 2
  MaxDeferrals = 1
  BaseHours = 6
  MaxBackoffHours = 24
  MaxRetries = 1
  MaxFaults = 1
INVARIANTS
  PesteredOnlyIfSlipped
  ToldOnceUnlessBotched
  PushHonest
PROPERTIES
  BrandlessSettled
  BrandedNotified
CHECK_DEADLOCK FALSE
