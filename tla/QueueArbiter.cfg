SPECIFICATION FairSpec
CONSTANTS
  w1 = w1
  w2 = w2
  m1 = m1
  m2 = m2
  NoMsg = NoMsg
  NoWorker = NoWorker
  Workers = {w1, w2}
  Msgs = {m1, m2}
  QMax = 2
  LeaseMax = 2
  ReleaseCap = 1
  Environments <- MCEnvironments
INVARIANTS OneWorkerPerMessage
PROPERTIES CompletedIsFinal LeaseResolved
CHECK_DEADLOCK FALSE
