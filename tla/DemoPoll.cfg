CONSTANTS
  Tabs = {t1}
  p1 = p1
  p2 = p2
  DEMO_PROFILES <- MCProfiles
  MAX_PERSISTED_JOBS = 2
  MaxUploads = 1
  MaxFaults = 0
  Null = Null
SPECIFICATION Spec
INVARIANT RunningIsNotCompleted
CHECK_DEADLOCK FALSE
