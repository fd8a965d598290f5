CONSTANTS
  NumJobs = 1
  Instances = {i1, i2}
  Clients = {c1}
  MaxFaults = 3
  MaxPatches = 1
  MaxAttempts = 5
SPECIFICATION Spec
INVARIANTS
  LeaseIsExclusive
  AttemptsArePaidFor
  ResultRowElects
  OrphansArePaidFor
SYMMETRY InstanceSymmetry
CHECK_DEADLOCK FALSE
