SPECIFICATION FairSpec
CONSTANTS
  p1 = p1
  p2 = p2
  r1 = r1
  r2 = r2
  alert1 = alert1
  alert2 = alert2
  bridge1 = bridge1
  bridge2 = bridge2
  NoRow = NoRow
  Bridges = {bridge1, bridge2}
  Via <- ViaDef
  AlertOf <- AlertDef
  MaxAttempts = 2
  Rows = {r1, r2, alert1, alert2}
  Procs = {p1, p2}
  Stubbed = {p2}
  Threshold = 2
  Environments <- MCEnvironments
INVARIANTS DeliveredOnce
PROPERTIES ImplementsClaimQueue RowSettles
CHECK_DEADLOCK FALSE
