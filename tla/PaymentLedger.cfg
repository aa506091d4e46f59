SPECIFICATION Spec
CONSTANTS
  d1 = d1
  d2 = d2
  x1 = x1
  x2 = x2
  h1 = h1
  h2 = h2
  e1 = e1
  boss = boss
  NoDraft = NoDraft
  Drafts = {d1, d2, x1, x2}
  Escorts = {d1}
  Advances = {d2}
  Employees = {e1}
  Amounts = {1}
  Admins = {boss}
  Handlers = {h1, h2}
  DedupMax = 2
  MaxCommands = 3
INVARIANTS SentIsRecorded CountersBalance BooksAgree
SYMMETRY HandlerSymmetry
CHECK_DEADLOCK FALSE
