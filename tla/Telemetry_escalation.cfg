SPECIFICATION Spec
CONSTANTS
  d1 = d1
  m1 = m1
  Devices = {d1}
  Metrics = {m1}
  Guarded <- OneGuarded
  Values = {2, 9}
  Warning = 5
  Critical = 8
  RatePercent = 50
  WindowSize = 2
  OfflineAfter = 1
  Capacity = 2
  CollectInterval = 1
  EvaluateInterval = 1
  Cooldown = 5
  UseHttpSource = FALSE
  UseWebhookSink = FALSE
  MaxLag = 1
  MaxLate = 0
  Horizon = 6
CHECK_DEADLOCK FALSE
PROPERTIES
  EscalationGetsThrough
