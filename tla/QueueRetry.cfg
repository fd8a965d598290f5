CONSTANTS
  NumJobs = 1
  Instances = {i1}
  Clients = {}
  MaxFaults = 1
  MaxPatches = 0
  MaxAttempts = 2
SPECIFICATION Spec
INVARIANTS
  FailureMeansAnalysisFailed
CHECK_DEADLOCK FALSE
