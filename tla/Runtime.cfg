SPECIFICATION RuntimeSpec
CONSTANTS
  a1 = a1
  a2 = a2
  b1 = b1
  pa = pa
  pb = pb
  n1 = n1
  n2 = n2
  m1 = m1
  x1 = x1
  x2 = x2
  r1 = r1
  c1 = c1
  loop = loop
  endpoint = endpoint
  health_loop = health_loop
  NoTask = NoTask
  NoNode = NoNode
  Tasks = {a1, a2, b1}
  Procs = {pa, pb}
  ProcOf <- TwoProcs
  MaxWrites = 2
  Clients = {c1}
  CoreProc = pa
  MaxDrops = 1
  Notices = {n1, n2}
  Copies = {m1}
  Probers = {health_loop, loop, endpoint}
  RETRY_MAX_ATTEMPTS = 2
  Cycles = {loop, endpoint}
  NodeIds = {x1, x2}
  Rows = {r1}
  SweepEvery = 2
  MAX_ATTEMPTS = 3
  MaxDbErrors = 1
  Configurations <- MCConfigurations
INVARIANTS NoLostUpdate
PROPERTIES LockEventuallyFree RetrySettles DeadNodeReleases TabCatchesUp DeadTaskRestarted
CHECK_DEADLOCK FALSE
