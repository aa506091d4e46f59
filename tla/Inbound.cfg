SPECIFICATION FairSpec
CONSTANTS
  b1 = b1
  b2 = b2
  i1 = i1
  i2 = i2
  i3 = i3
  i4 = i4
  o1 = o1
  o2 = o2
  h1 = h1
  p = p
  q = q
  NoMsg = NoMsg
  Bridges = {b1, b2}
  OutBridge = b2
  InMsgs = {i1, i2, i3, i4}
  OutMsgs = {o1, o2}
  BridgeOf <- MCBridgeOf
  PhoneOf <- MCPhoneOf
  Hooks = {h1}
  Limit = 2
  MaxTime = 3
  MaxCalls = 1
  Environments <- MCEnvironments
INVARIANTS PolledOnce NoGap
PROPERTIES StoredIsTakenUp
CHECK_DEADLOCK FALSE
