SPECIFICATION Spec
CONSTANTS
  t1 = t1
  t2 = t2
  w1 = w1
  w2 = w2
  owner = owner
  clerk = clerk
  e1 = e1
  e2 = e2
  p1 = p1
  p2 = p2
  Tasks = {t1, t2}
  People = {w1, w2}
  MaxRows = 2
  Phones = {owner, clerk, w1}
  Owners = {owner}
  Roster <- MCRoster
  Payments = {p1, p2}
  MaxRuns = 3
  MaxDay = 2
  Payees = {w1}
  MaxEntries = 2
  Environments <- MCEnvironments
SYMMETRY TaskSymmetry
INVARIANTS SentAsApproved LedgerFollowsRows EvidenceBeforeDraft PaidOnce
PROPERTIES RolesFromSuperadmin
CHECK_DEADLOCK FALSE
