SPECIFICATION FairSpec
CONSTANTS
  e1 = e1
  e2 = e2
  e3 = e3
  e4 = e4
  t1 = t1
  t2 = t2
  x = x
  d1 = d1
  d2 = d2
  a1 = a1
  NoRow = NoRow
  Events = {e1, e2, e3, e4}
  Threads = {t1, t2}
  ThreadOf <- MCThreadOf
  TargetOf <- MCTargetOf
  IntentOf <- MCIntentOf
  Unlisted <- MCUnlisted
  Daemons = {d1, d2}
  Apis = {a1}
  MaxAttempts = 2
  MaxRetries = 1
  Environments <- MCEnvironments
INVARIANTS AnsweredOnce OnlyRecruitingAnswered CooldownHolds
PROPERTIES Settles
CHECK_DEADLOCK FALSE
