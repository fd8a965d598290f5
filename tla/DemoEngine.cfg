CONSTANTS
  Tabs = {t1, t2}
  p1 = p1
  p2 = p2
  DEMO_PROFILES <- MCProfiles
  MAX_PERSISTED_JOBS = 2
  MaxUploads = 3
  MaxFaults = 1
  Null = Null
SPECIFICATION Spec
INVARIANTS
  TypeOK
  ListMatchesReport
  
PROPERTIES
  
  SubscriberHearsEnd
CHECK_DEADLOCK FALSE
