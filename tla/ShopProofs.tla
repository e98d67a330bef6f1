------------------------------ MODULE ShopProofs ------------------------------
(***************************************************************************)
(* Theorems of Pricing and Shop: rounding, what a VIP pays, and that moves *)
(* and restarts keep the pieces and the orders.                            *)
(***************************************************************************)
EXTENDS Shop, TLAPS

-----------------------------------------------------------------------------
(* Pricing.  The denominators of the rates.                                   *)
Wholes == {100, 10000}

(* Division with remainder by a denominator.                                  *)
LEMMA Division ==
  ASSUME NEW n \in Int, NEW d \in Wholes
  PROVE  /\ n \div d \in Int
         /\ n % d \in 0 .. (d - 1)
         /\ n - d * (n \div d) = n % d
  <1>1. n - 100 * (n \div 100) = n % 100
    OBVIOUS
  <1>2. n - 10000 * (n \div 10000) = n % 10000
    OBVIOUS
  <1> QED  BY <1>1, <1>2 DEF Wholes

(* round gives the integer below or above, within half a unit of the quotient. *)
LEMMA HalfEvenNear ==
  ASSUME NEW n \in Int, NEW d \in Wholes
  PROVE  /\ HalfEven(n, d) \in {n \div d, n \div d + 1}
         /\ 2 * (d * HalfEven(n, d) - n) \in -d .. d
  <1> DEFINE q == n \div d
             r == n % d
  <1>1. q \in Int /\ r \in 0 .. (d - 1) /\ n - d * q = r
    BY Division
  <1>2. CASE HalfEven(n, d) = q
    <2>1. 2 * r <= d
      BY <1>1, <1>2 DEF HalfEven, Wholes
    <2> QED  BY <1>1, <1>2, <2>1 DEF Wholes
  <1>3. CASE HalfEven(n, d) = q + 1 /\ 2 * r >= d
    BY <1>1, <1>3 DEF Wholes
  <1>4. HalfEven(n, d) = q \/ (HalfEven(n, d) = q + 1 /\ 2 * r >= d)
    BY <1>1 DEF HalfEven, Wholes
  <1> QED  BY <1>2, <1>3, <1>4

(* round is monotone.                                                         *)
LEMMA HalfEvenMonotone ==
  ASSUME NEW m \in Int, NEW n \in Int, m <= n, NEW d \in Wholes
  PROVE  HalfEven(m, d) <= HalfEven(n, d)
  <1>1. /\ m \div d \in Int /\ m % d \in 0 .. (d - 1) /\ m - d * (m \div d) = m % d
        /\ n \div d \in Int /\ n % d \in 0 .. (d - 1) /\ n - d * (n \div d) = n % d
    BY Division
  <1>2. m \div d < n \div d \/ (m \div d = n \div d /\ m % d <= n % d)
    BY <1>1 DEF Wholes
  <1>3. CASE m \div d < n \div d
    BY <1>1, <1>3, HalfEvenNear
  <1>4. CASE m \div d = n \div d /\ m % d <= n % d
    BY <1>1, <1>4 DEF HalfEven, Wholes
  <1> QED  BY <1>2, <1>3, <1>4

LEMMA HalfEvenInt ==
  ASSUME NEW n \in Int, NEW d \in Wholes
  PROVE  HalfEven(n, d) \in Int
  BY HalfEvenNear, Division

LEMMA Scaled ==
  ASSUME NEW a \in Int, NEW b \in Int, a <= b, NEW k \in Nat
  PROVE  /\ a * k \in Int /\ b * k \in Int
         /\ a * k <= b * k
  OBVIOUS

(* Who has less to pay before tax and fee has no more to pay after them.      *)
LEMMA PayableMonotone ==
  ASSUME NEW a \in Int, NEW b \in Int, a <= b
  PROVE  Payable(a) <= Payable(b)
  <1>1. Tax(a) \in Int /\ Tax(b) \in Int /\ Tax(a) <= Tax(b)
    <2>1. /\ a * TaxPercent \in Int /\ b * TaxPercent \in Int
          /\ a * TaxPercent <= b * TaxPercent
      BY PricingAssumption, Scaled
    <2>2. 100 \in Wholes
      BY DEF Wholes
    <2> QED  BY <2>1, <2>2, HalfEvenInt, HalfEvenMonotone DEF Tax
  <1> DEFINE x == a + Tax(a)
             y == b + Tax(b)
  <1>2. x \in Int /\ y \in Int /\ x <= y
    BY <1>1
  <1> HIDE DEF x, y
  <1>3. Fee(x) \in Int /\ Fee(y) \in Int /\ Fee(x) <= Fee(y)
    <2>1. /\ x * FeeBps \in Int /\ y * FeeBps \in Int
          /\ x * FeeBps <= y * FeeBps
      BY <1>2, PricingAssumption, Scaled
    <2>2. 10000 \in Wholes
      BY DEF Wholes
    <2> QED  BY <2>1, <2>2, HalfEvenInt, HalfEvenMonotone DEF Fee
  <1>4. Payable(a) = x + Fee(x) /\ Payable(b) = y + Fee(y)
    BY DEF Payable, x, y
  <1> QED  BY <1>2, <1>3, <1>4

(* For every price and every setting of the rates, a VIP never pays more than
   the others, over three roundings (pricing.py:44-49).                       *)
THEOREM VipPaysNoMore ==
  ASSUME NEW list \in Nat
  PROVE  Quote(list, "vip") <= Quote(list, "normal")
  <1> DEFINE off == Discount(list, "vip")
  <1>1. list * VipPercent \in Int /\ 0 <= list * VipPercent
    BY PricingAssumption, Scaled
  <1> DEFINE scaled == list * VipPercent
  <1>2. off \in Int /\ 0 <= off
    <2>1. HalfEven(0, 100) = 0
      BY DEF HalfEven
    <2>2. 100 \in Wholes
      BY DEF Wholes
    <2> HIDE DEF scaled
    <2>3. scaled \in Int /\ 0 <= scaled
      BY <1>1 DEF scaled
    <2>4. HalfEven(scaled, 100) \in Int
      BY <2>2, <2>3, HalfEvenInt
    <2>5. HalfEven(0, 100) <= HalfEven(scaled, 100)
      BY <2>2, <2>3, HalfEvenMonotone
    <2> QED  BY <2>1, <2>4, <2>5 DEF Discount, scaled
  <1> HIDE DEF off
  <1>3. Payable(list - off) <= Payable(list)
    BY <1>2, PayableMonotone
  <1>4. Discount(list, "normal") = 0
    BY DEF Discount
  <1> QED  BY <1>3, <1>4 DEF Quote, off

-----------------------------------------------------------------------------
(* Shop.  What a catalogue that is loaded looks like.                         *)
Loaded ==
  stage # "down" =>
    /\ stock \in [Skus -> [Codes -> Int]]
    /\ \A sku \in Skus :
         /\ OnHand(stock[sku]) = OnHand(Seed[sku])
         /\ sku \notin reversed => \A c \in Codes : stock[sku][c] >= 0
Taken ==
  /\ nextId \in Nat \ {0}
  /\ DOMAIN orders \subseteq 1 .. (nextId - 1)
  /\ \A id \in DOMAIN orders :
       /\ orders[id].sku \in Skus /\ orders[id].quantity \in Int
       /\ orders[id].quantity <= OnHand(Seed[orders[id].sku])
ShopInv == code \in [Sites -> Codes] /\ Loaded /\ Taken

LEMMA ShopInvInit == Init => ShopInv
  BY DEF Init, ShopInv, Loaded, Taken, Codes, Sites

LEMMA StartKeeps ==
  ASSUME ShopInv, NEW s \in {"1", "2"}, NEW codes \in [Sites -> Codes], Start(s, codes)
  PROVE  ShopInv'
  <1>1. Loaded'
    BY ShopAssumption DEF Start, Loaded, Codes
  <1>2. Taken'
    BY DEF ShopInv, Taken, Start
  <1> QED  BY <1>1, <1>2 DEF ShopInv, Start

LEMMA StopKeeps == ShopInv /\ Stop => ShopInv'
  BY DEF ShopInv, Loaded, Taken, Stop

(* A move within one product: what is taken here is added there, also when
   both sites have one code.                                                  *)
LEMMA Moved ==
  ASSUME NEW s \in [Codes -> Int], NEW n \in Int, NEW a \in Codes, NEW b \in Codes,
         s[a] >= n
  PROVE  LET taken == [s EXCEPT ![a] = @ - n]
             now == [taken EXCEPT ![b] = @ + n]
         IN /\ now \in [Codes -> Int]
            /\ OnHand(now) = OnHand(s)
            /\ n >= 0 /\ (\A c \in Codes : s[c] >= 0) => \A c \in Codes : now[c] >= 0
  <1> DEFINE taken == [s EXCEPT ![a] = @ - n]
             now == [taken EXCEPT ![b] = @ + n]
  <1>1. taken \in [Codes -> Int]
    OBVIOUS
  <1>2. now \in [Codes -> Int]
    BY <1>1
  <1>3. \A c \in Codes : taken[c] = IF c = a THEN s[c] - n ELSE s[c]
    OBVIOUS
  <1>4. \A c \in Codes : now[c] = IF c = b THEN taken[c] + n ELSE taken[c]
    BY <1>1
  <1> HIDE DEF taken, now
  <1>5. OnHand(now) = OnHand(s)
    BY <1>1, <1>2, <1>3, <1>4 DEF OnHand, Codes
  <1>6. n >= 0 /\ (\A c \in Codes : s[c] >= 0) => \A c \in Codes : now[c] >= 0
    BY <1>1, <1>2, <1>3, <1>4
  <1> QED  BY <1>2, <1>5, <1>6 DEF taken, now

LEMMA MoveKeeps ==
  ASSUME ShopInv, NEW sku \in Wanted, NEW from \in Sites, NEW to \in Sites,
         NEW quantity \in Quantities, Move(sku, from, to, quantity)
  PROVE  ShopInv'
  <1>1. /\ stage # "down" /\ stage' = stage /\ code' = code /\ sku \in Skus
        /\ orders' = orders /\ nextId' = nextId
        /\ code[from] \in Codes /\ code[to] \in Codes
    BY DEF Move, Require, ShopInv, Loaded
  <1> DEFINE taken == [stock[sku] EXCEPT ![code[from]] = @ - quantity]
             now == [taken EXCEPT ![code[to]] = @ + quantity]
  <1>2. stock[sku] \in [Codes -> Int] /\ quantity \in Int /\ stock[sku][code[from]] >= quantity
    BY <1>1, QuantitiesAssumption DEF Move, ShopInv, Loaded
  <1>3. /\ now \in [Codes -> Int]
        /\ OnHand(now) = OnHand(stock[sku])
        /\ quantity >= 0 /\ (\A c \in Codes : stock[sku][c] >= 0)
             => \A c \in Codes : now[c] >= 0
    BY <1>1, <1>2, Moved
  <1>4. /\ stock' = [stock EXCEPT ![sku] = now]
        /\ reversed' = IF quantity < 0 THEN reversed \cup {sku} ELSE reversed
    BY DEF Move
  <1> HIDE DEF taken, now
  <1>5. Loaded'
    BY <1>1, <1>2, <1>3, <1>4 DEF ShopInv, Loaded
  <1>6. Taken'
    BY <1>1 DEF ShopInv, Taken
  <1> QED  BY <1>1, <1>5, <1>6 DEF ShopInv

LEMMA CreateOrderKeeps ==
  ASSUME ShopInv, NEW sku \in Wanted, NEW quantity \in Quantities, CreateOrder(sku, quantity)
  PROVE  ShopInv' /\ \A id \in DOMAIN orders : id \in DOMAIN orders' /\ orders'[id] = orders[id]
  <1> DEFINE order == [sku |-> sku, quantity |-> quantity, cents |-> ListCents[sku] * quantity]
  <1>1. /\ order.sku = sku /\ order.quantity = quantity
        /\ nextId' = nextId + 1
        /\ UNCHANGED <<stage, code, stock, reversed>>
    BY DEF CreateOrder
  <1>2. sku \in Skus /\ quantity \in Int /\ quantity <= OnHand(Seed[sku])
    BY QuantitiesAssumption DEF CreateOrder, Require, ShopInv, Loaded
  <1>3. /\ DOMAIN orders' = DOMAIN orders \cup {nextId}
        /\ \A id \in DOMAIN orders' : orders'[id] = IF id = nextId THEN order ELSE orders[id]
    BY DEF CreateOrder
  <1>4. nextId \notin DOMAIN orders /\ nextId \in Nat \ {0}
    BY DEF ShopInv, Taken
  <1> HIDE DEF order
  <1>5. Taken'
    BY <1>1, <1>2, <1>3, <1>4 DEF ShopInv, Taken
  <1>6. Loaded'
    BY <1>1 DEF ShopInv, Loaded
  <1> QED  BY <1>1, <1>3, <1>4, <1>5, <1>6 DEF ShopInv

LEMMA ShopInvStep == ShopInv /\ [Next]_vars => ShopInv'
  <1> SUFFICES ASSUME ShopInv, [Next]_vars PROVE ShopInv'
    OBVIOUS
  <1>1. CASE UNCHANGED vars
    BY <1>1 DEF vars, ShopInv, Loaded, Taken
  <1>2. CASE Next
    BY <1>2, StartKeeps, StopKeeps, MoveKeeps, CreateOrderKeeps DEF Next
  <1> QED  BY <1>1, <1>2

LEMMA ShopInvHolds == Spec => []ShopInv
  BY ShopInvInit, ShopInvStep, PTL DEF Spec

(* For any products, seed, codes of the sites and quantities: moves and
   restarts keep the pieces of a product, and no shelf leaves its bounds unless
   a negative quantity was moved (inventory.py:50-59).                        *)
THEOREM ShelvesAddUpHolds == Spec => []ShelvesAddUp
  <1>1. ShopInv => ShelvesAddUp
    <2> SUFFICES ASSUME ShopInv, stage # "down", NEW sku \in Skus
                 PROVE  /\ OnHand(stock[sku]) = OnHand(Seed[sku])
                        /\ sku \notin reversed =>
                             \A c \in Codes : stock[sku][c] \in 0..OnHand(Seed[sku])
      BY DEF ShelvesAddUp
    <2>1. stock[sku] \in [Codes -> Int] /\ OnHand(stock[sku]) = OnHand(Seed[sku])
      BY DEF ShopInv, Loaded
    <2>2. ASSUME sku \notin reversed, NEW c \in Codes
          PROVE  stock[sku][c] \in 0..OnHand(stock[sku])
      BY <2>1, <2>2 DEF ShopInv, Loaded, OnHand, Codes
    <2> QED  BY <2>1, <2>2
  <1> QED  BY <1>1, ShopInvHolds, PTL

(* For any number of orders, moves and restarts: no order is for more than the
   seed holds (legacy.py:60).                                                 *)
THEOREM OrdersWithinSeedHolds == Spec => []OrdersWithinSeed
  <1>1. ShopInv => OrdersWithinSeed
    BY DEF ShopInv, Taken, OrdersWithinSeed
  <1> QED  BY <1>1, ShopInvHolds, PTL

(* The module-level orders outlive the graph: none changes, none goes
   (legacy.py:26-27, 62).                                                     *)
THEOREM OrdersStandHolds == Spec => OrdersStand
  <1>1. ShopInv /\ [Next]_vars =>
          [\A id \in DOMAIN orders : id \in DOMAIN orders' /\ orders'[id] = orders[id]]_vars
    <2> SUFFICES ASSUME ShopInv, Next
                 PROVE  \A id \in DOMAIN orders :
                          id \in DOMAIN orders' /\ orders'[id] = orders[id]
      OBVIOUS
    <2>1. CASE UNCHANGED orders
      BY <2>1
    <2>2. CASE \E sku \in Wanted, quantity \in Quantities : CreateOrder(sku, quantity)
      BY <2>2, CreateOrderKeeps
    <2> QED  BY <2>1, <2>2 DEF Next, Start, Stop, Move
  <1> QED  BY <1>1, ShopInvHolds, PTL DEF Spec, OrdersStand

=============================================================================
