CONSTANTS
  MaxFaults = 2
SPECIFICATION FairSpec
INVARIANTS
  TypeOK
  SuccessIsEarned
  FailureIsNotHidden
  CompletionCounts
PROPERTIES
  RunSpec
  RunEnds
  GuestWindsUp
CHECK_DEADLOCK FALSE
