SPECIFICATION Spec
CONSTANTS
  cup = cup
  tray = tray
  vase = vase
  Wanted = {cup, tray, vase}
  Skus = {cup, tray}
  Seed <- SmallSeed
  ListCents <- SmallPrices
  Quantities <- SmallQuantities
  MaxOrders = 2
  Depth = 2
  VipPercent = 10
  TaxPercent = 6
  FeeBps = 60
INVARIANTS
  ShelvesAddUp
  OrdersWithinSeed
PROPERTY OrdersStand

