SPECIFICATION FairSpec
CONSTANTS
  d1 = d1
  m1 = m1
  Devices = {d1}
  Metrics = {m1}
  Guarded <- OneGuarded
  Values = {2, 9}
  Warning = 5
  Critical = 8
  RatePercent = 50
  WindowSize = 2
  OfflineAfter = 1
  Capacity = 2
  CollectInterval = 1
  EvaluateInterval = 1
  Cooldown = 2
  UseHttpSource = TRUE
  UseWebhookSink = TRUE
  MaxLag = 1
  MaxLate = 0
  Horizon = 4
CHECK_DEADLOCK FALSE
INVARIANTS
  TypeOK
  NothingForgotten
PROPERTIES
  NoRepeatInCooldown
  JudgedOnFreshData
  StopEnds
