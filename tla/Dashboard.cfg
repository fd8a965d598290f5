CONSTANTS
  Words <- MCWords
  TimelineCap = 2
  Jobs <- MCJobs
  Queries = {"evil"}
  PageSize = 1
  RawPageSize = 2
  NumberedPages = 1
  Null = Null
  TableRows <- RowsOf
  FlatProcesses <- allFlatProcesses
SPECIFICATION Spec
INVARIANTS
  TypeOK
  SelectionSticks
  
  
  
  EveryActivityIsCounted
  CardsAgreeWithTables
CHECK_DEADLOCK FALSE
