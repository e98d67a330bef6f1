\* One fast consumer, none for bulk: what waits in bulk is left behind.
SPECIFICATION FairSpec
CONSTANTS
  Fast = "fast"
  Bulk = "bulk"
  f1 = f1
  f2 = f2
  b1 = b1
  a = a
  b = b
  bad = bad
  Workers = {f1}
  LaneOf <- OneFast
  Accounts = {a}
  BadRow = bad
  Batches <- LongBatch
  MaxRows = 2
  MaxJobs = 3
  BulkThreshold = 1
  QueueSize = 2
  MaxAttempts = 2
PROPERTIES
  StopCompletes
  WaitingSettles
