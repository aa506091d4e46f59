SPECIFICATION Spec
CONSTANTS
  m1 = m1  m2 = m2  l1 = l1  l2 = l2  l3 = l3  e1 = e1  e2 = e2
  f1 = f1  f2 = f2  g1 = g1  g2 = g2  c1 = c1  w1 = w1  w2 = w2
  None = None  Signature = Signature  Heading = Heading  NoProgram = NoProgram
  Vessels = {m1, m2, l1, l2, l3}
  Escorts = {e1, e2}
  Phones = {f1, f2, g1, g2}
  LastDay = 4
  MaxPrograms = 6
  MaxEntries = 8
  Clients = {c1}
  Today = 2
  Rate = 2
  Conveyances = {3}
  Workers = {w1, w2}
  MaxRequests = 3
  MaxLighters = 6
  Likeness <- MCLikeness
  Environments <- MCEnvironments
CHECK_DEADLOCK FALSE
INVARIANTS PayFollowsDates SupersededIsGone BackfilledOnce
PROPERTY ConfirmedIsKept
