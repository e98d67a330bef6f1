SPECIFICATION Spec
CONSTANTS
  Fast = "fast"
  Bulk = "bulk"
  f1 = f1
  f2 = f2
  b1 = b1
  a = a
  b = b
  bad = bad
  Workers = {f1}
  LaneOf <- OneFast
  Accounts = {a, b}
  BadRow = bad
  Batches <- AcrossAccounts
  MaxRows = 2
  MaxJobs = 1
  BulkThreshold = 1
  QueueSize = 1
  MaxAttempts = 2
INVARIANT PostedAgreesWithLedger
