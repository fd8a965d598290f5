CONSTANTS
  MaxFaults = 0
SPECIFICATION Spec
INVARIANTS
  StoppedMeansFlushed
CHECK_DEADLOCK FALSE
