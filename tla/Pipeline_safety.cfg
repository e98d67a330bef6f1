SPECIFICATION Spec
CONSTANTS
  Fast = "fast"
  Bulk = "bulk"
  f1 = f1
  f2 = f2
  b1 = b1
  a = a
  b = b
  bad = bad
  Workers = {f1, f2, b1}
  LaneOf <- TwoFastOneBulk
  Accounts = {a, b}
  BadRow = bad
  Batches <- SmallBatches
  MaxRows = 3
  MaxJobs = 2
  BulkThreshold = 2
  QueueSize = 1
  MaxAttempts = 2
INVARIANTS
  TypeOK
  OnePlace
  DrainHonest
  LeftBehindExact
  PostedAtLeastOnce
  AttemptsBounded
  IInv
  DoneAgreesWithBook
PROPERTIES
  ClosedGateOnlyDrains
  VerdictIsFinal
  KeepsContract
