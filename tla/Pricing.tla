------------------------------- MODULE Pricing -------------------------------
(***************************************************************************)
(* PricingRules of src/shop: discount, tax and channel fee of one product. *)
(* The rates of the settings are floats; here they are parts of a hundred  *)
(* or of ten thousand.  Python's round takes the nearest integer, and the  *)
(* even one of two that are equally near.                                  *)
(***************************************************************************)
EXTENDS Integers

CONSTANTS VipPercent,   (* 100 * config.vip_discount                            *)
          TaxPercent,   (* 100 * config.tax_rate                                *)
          FeeBps        (* config.fee_bps                                       *)

ASSUME PricingAssumption == VipPercent \in Nat /\ TaxPercent \in Nat /\ FeeBps \in Nat

(* round(n / d).                                                              *)
HalfEven(n, d) ==
  LET q == n \div d
      twice == 2 * (n % d)
  IN IF twice < d \/ (twice = d /\ q % 2 = 0) THEN q ELSE q + 1

Discount(list, level) == IF level = "vip" THEN HalfEven(list * VipPercent, 100) ELSE 0
Tax(net) == HalfEven(net * TaxPercent, 100)
Fee(amount) == HalfEven(amount * FeeBps, 10000)
Payable(net) == net + Tax(net) + Fee(net + Tax(net))
Quote(list, level) == Payable(list - Discount(list, level))

=============================================================================
