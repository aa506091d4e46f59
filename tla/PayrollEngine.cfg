SPECIFICATION Spec
CONSTANTS
  c1 = c1  c2 = c2  c3 = c3  p1 = p1  k1 = k1  i1 = i1  x1 = x1  r1 = r1
  e1 = e1  e2 = e2  e3 = e3  f1 = f1  f2 = f2  n1 = n1  n2 = n2
  sync = sync  trigger = trigger  scan = scan  post = post
  v1 = v1  v2 = v2  w1 = w1  w2 = w2  a1 = a1  a2 = a2
  NoTs = NoTs  NoRow = NoRow  NoPhone = NoPhone  NoName = NoName  NoEmp = NoEmp
  Rows <- MCRows
  Replayed = {r1}
  TsOf <- MCTsOf
  HasText <- MCRows
  Loops = {sync, trigger}
  Scans = {scan}
  Posts = {post}
  SyncBatch = 1
  GapLimit = 2
  Emps <- MCEmps
  Phones = {f1, f2}
  Names = {n1, n2}
  Likeness <- MCLikeness
  WbomPhones = {f2}
  Admins = {a1}
  Bodies <- MCBodies
  TextOf <- MCTextOf
  FromMe = {p1, k1, i1, x1, r1}
  Trusted = {p1, k1, i1, x1}
  Answers <- MCAnswers
  Reviewers = {v1, v2}
  Clerks = {w1, w2}
  Amounts = {3}
  MaxAttempts = 5
  MaxRequeues = 1
  Environments <- MCEnvironments
INVARIANTS BookedOnce LedgerAgrees MoneyVisible PaidIsListed Reconciles
PROPERTY StoredIsSettled
