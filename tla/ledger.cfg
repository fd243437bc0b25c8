SPECIFICATION FairSpec
CONSTANTS
  a = a
  b = b
  Topics <- MCTopics
  MaxEntriesPerLedger = 2
  LogSizeLimit = 4
  RecordCells = 2
  MaxBatch = 2
  LogFaults = FALSE
  AllocatorRaces = FALSE
  MaxRequests = 3
  MaxFailures = 1
  MaxCrashes = 1
 
PROPERTY ReadersSeeWhole
 
PROPERTY Answered
CHECK_DEADLOCK FALSE
