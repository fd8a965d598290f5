CONSTANTS
  MaxUploads = 2
  MaxMounts = 2
  MaxInFlight = 1
  MaxFaults = 1
  Null = Null
SPECIFICATION Spec
INVARIANTS
  TypeOK
  NoInvisiblePolling
  DashboardShowsSelection

  
CHECK_DEADLOCK FALSE
