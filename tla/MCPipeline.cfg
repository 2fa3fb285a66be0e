SPECIFICATION FairSpec
CONSTANTS
  r1 = r1
  r2 = r2
  earlier = earlier
  Writers <- MCRequests
  Recorders <- MCRequests
  Entries <- MCEntries
  LineSize <- MCLineSize
  MaxLine = 2
  MaxLogBytes = 3
  OldLogs <- MCOldLogs
  MaxFaults = 1
  Chunk = 2
  MaxLines = 2
  PiiTypes <- MCTypes
  Summaries <- MCSummaries
  Statuses = {200, 500, 502}
  MaxBody = 1
  Answers <- MCAnswers
INVARIANTS
  TypeOK
  LogBounded
  TailKept
  ViewerShowsLines
  CountersExact
  ScrapeBetween
  LogAgrees
PROPERTIES
  RequestEnds
CHECK_DEADLOCK FALSE
