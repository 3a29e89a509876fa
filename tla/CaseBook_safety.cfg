CONSTANTS
  Cases = {c1, c2}
  Reports = {r1}
  Contacts = {phone, mail}
  ByMail = {mail}
  Workers = {w1, w2}
  MaxRequests = 4
  None = None
SPECIFICATION Spec
SYMMETRY Symmetry
INVARIANTS OwnTargetsOnly OnePendingPerContact OutcomeHasTask
CHECK_DEADLOCK FALSE
