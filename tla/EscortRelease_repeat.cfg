SPECIFICATION ReleaseSpec
CONSTANTS
  Programs <- MCPrograms
  Employees = {e1}
  NoEmp = NoEmp
  LastDutyDay = 2
  ReleaseDay = 2
  Slips = {s1}
  NoSlip = NoSlip
  Handlers = {h1}
  MaxReleases = 2
INVARIANT OneDraftPerSlip
CHECK_DEADLOCK FALSE
