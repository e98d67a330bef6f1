SPECIFICATION Spec
CONSTANTS
  k = k
  c1 = c1
  c2 = c2
  r1 = r1
  r2 = r2
  Books = {k}
  Copies = {c1, c2}
  Readers = {r1, r2}
  Levels = {"normal"}
  DefaultLevel = "normal"
  BookOf <- OneTitle
  LoanTicks <- ShortLoans
  MaxActive <- OneLoanEach
  TicksPerDay = 2
  FinePerDay = 1
  BlockAt = 1
  MaxRenews = 1
  MaxTime = 3
SYMMETRY Interchangeable
INVARIANTS
  TypeOK
  OneKeeper
  OnLoanIsBacked
  OneOpenHold
PROPERTY FirstComeFirstServed
