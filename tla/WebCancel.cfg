CONSTANTS
  MaxUploads = 1
  MaxMounts = 1
  MaxInFlight = 1
  MaxFaults = 0
  Null = Null
SPECIFICATION Spec
INVARIANTS
  DetonationStateShape
CHECK_DEADLOCK FALSE
