SPECIFICATION ReleaseFairSpec
CONSTANTS
  Programs <- MCOne
  Employees = {e1}
  NoEmp = NoEmp
  LastDutyDay = 2
  ReleaseDay = 2
  Slips = {s1}
  NoSlip = NoSlip
  Handlers = {h1, h2}
  MaxReleases = 2
INVARIANT DraftsFollowClosures
PROPERTIES CompletedStays CompletedIsDrafted
CHECK_DEADLOCK FALSE
