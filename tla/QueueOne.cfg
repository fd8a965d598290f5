CONSTANTS
  NumJobs = 2
  Instances = {i1}
  Clients = {c1}
  MaxFaults = 2
  MaxPatches = 1
  MaxAttempts = 4
SPECIFICATION FairSpec
INVARIANTS
  TypeOK
  CompletedJobShowsItsReport
PROPERTIES
  LifecycleSpec
  EveryJobSettles
CHECK_DEADLOCK FALSE
