SPECIFICATION Spec
CONSTANTS
  d1 = d1
  d2 = d2
  c1 = c1
  c2 = c2
  Devices = {d1, d2}
  Clients = {c1}
  Timeout = 1
  QueueSize = 2
  Filters = {}
SYMMETRY Interchangeable
INVARIANTS
  TypeOK
  OfflineMeansSilent
  NoGap
  BacklogIsCurrent
