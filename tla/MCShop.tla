-------------------------------- MODULE MCShop --------------------------------
(***************************************************************************)
(* A small instance of Shop: two products, orders of up to three pieces.   *)
(***************************************************************************)
EXTENDS Shop

CONSTANTS cup, tray, vase

Shelves(main, overflow) == [c \in Codes |-> CASE c = "main" -> main
                                              [] c = "overflow" -> overflow
                                              [] c = "other" -> 0]
SmallSeed == [sku \in Skus |-> IF sku = cup THEN Shelves(1, 1) ELSE Shelves(0, 1)]
SmallPrices == [sku \in Skus |-> IF sku = cup THEN 2 ELSE 3]
SmallQuantities == {-1, 1, 2, 3}

(* pricing.py against test_migration.py:102, and on small prices the VIP never
   pays more than the others.                                                 *)
ASSUME QuoteExample == Quote(12800, "vip") = 12284
ASSUME VipExample == \A list \in 0..1000 : Quote(list, "vip") <= Quote(list, "normal")

=============================================================================
