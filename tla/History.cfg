CONSTANTS
  MaxJobs = 3
  PageSize = 2
  MaxCalls = 2
  MaxChanges = 8
  Scores = {90}
  Filters = {"All", "Completed", "Failed"}
  Queries = {"loader", "Running"}
  NameOf <- Names
  Recent = {2, 3}
  Null = Null
SPECIFICATION Spec
INVARIANTS
  TypeOK
  PagesShowMatches
PROPERTIES
  ListNeverOlder
  LoadingEnds
CHECK_DEADLOCK FALSE
