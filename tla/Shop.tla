--------------------------------- MODULE Shop ---------------------------------
(***************************************************************************)
(* src/shop: the back office in the middle of its migration.  The graph    *)
(* holds the catalogue while it runs; stage 1 serves the old /v1 routes    *)
(* alone, stage 2 serves /v2 beside them.  Orders and their counter are    *)
(* module-level state of the old code and outlive the graph.  No handler   *)
(* awaits, so each one is a step; a refused request changes nothing.       *)
(***************************************************************************)
EXTENDS Pricing

CONSTANTS Skus,        (* the products of catalog.SEED                          *)
          Seed,        (* per sku and label, its pieces there                   *)
          ListCents,   (* per sku, its price                                    *)
          Wanted,      (* the skus clients name, sold or not                    *)
          Quantities,  (* the quantities clients send                           *)
          MaxOrders,   (* bound: orders taken                                   *)
          Depth        (* bound: how far below zero moves take a shelf          *)

Sites == {"main", "overflow"}
(* A shelf is labelled by the code of its site; WH_MAIN_CODE and
   WH_OVERFLOW_CODE may be anything, another's label or one nobody seeded.    *)
Codes == {"main", "overflow", "other"}

ASSUME ShopAssumption == Seed \in [Skus -> [Codes -> Nat]] /\ ListCents \in [Skus -> Nat]
ASSUME QuantitiesAssumption == Quantities \subseteq Int /\ MaxOrders \in Nat /\ Depth \in Nat

VARIABLES
  stage,     (* "down", or the stage of the server that runs                    *)
  code,      (* per site, its code                                              *)
  stock,     (* Catalog.products: per sku, the pieces per label                 *)
  orders,    (* legacy._ORDERS                                                  *)
  nextId,    (* legacy._IDS                                                     *)
  reversed   (* history: the skus of which a negative quantity was moved        *)

vars == <<stage, code, stock, orders, nextId, reversed>>

Init ==
  /\ stage = "down"
  /\ code = [site \in Sites |-> site]
  /\ stock = <<>>
  /\ orders = <<>>
  /\ nextId = 1
  /\ reversed = {}

(* What a stage serves: the old application under /v1, the new one under /v2.  *)
Served == [s \in {"down", "1", "2"} |->
             CASE s = "down" -> {} [] s = "1" -> {"v1"} [] s = "2" -> {"v1", "v2"}]

(* Catalog.require: an error while the graph is down, and for what nobody sells. *)
Require(sku) == stage # "down" /\ sku \in DOMAIN stock

OnHand(shelves) == shelves["main"] + shelves["overflow"] + shelves["other"]

(* Catalog.load: a copy of the seed, whatever was moved before.               *)
Start_ResetsTheCounter(s, codes) ==
  /\ stage = "down"
  /\ stage' = s /\ code' = codes
  /\ stock' = Seed /\ reversed' = {}
  /\ nextId' = 1
  /\ UNCHANGED orders
Start(s, codes) ==
  /\ stage = "down"
  /\ stage' = s /\ code' = codes
  /\ stock' = Seed /\ reversed' = {}
  /\ UNCHANGED <<orders, nextId>>

(* Catalog.unload.                                                            *)
Stop ==
  /\ stage # "down"
  /\ stage' = "down"
  /\ stock' = <<>>
  /\ UNCHANGED <<code, orders, nextId, reversed>>

(* POST /v2/inventory/{sku}/move, in stage 2 only: the source must have what
   is moved; nothing is said of the sign.                                     *)
Move_Unchecked(sku, from, to, quantity) ==
  LET taken == [stock[sku] EXCEPT ![code[from]] = @ - quantity]
  IN /\ "v2" \in Served[stage] /\ Require(sku)
     /\ stock' = [stock EXCEPT ![sku] = [taken EXCEPT ![code[to]] = @ + quantity]]
     /\ reversed' = IF quantity < 0 THEN reversed \cup {sku} ELSE reversed
     /\ \A c \in Codes : stock'[sku][c] >= -Depth
     /\ UNCHANGED <<stage, code, orders, nextId>>
Move_OnlyAdds(sku, from, to, quantity) ==
  /\ "v2" \in Served[stage] /\ Require(sku)
  /\ stock[sku][code[from]] >= quantity
  /\ stock[sku][code[to]] <= Depth
  /\ stock' = [stock EXCEPT ![sku][code[to]] = @ + quantity]
  /\ reversed' = IF quantity < 0 THEN reversed \cup {sku} ELSE reversed
  /\ UNCHANGED <<stage, code, orders, nextId>>
Move(sku, from, to, quantity) ==
  LET taken == [stock[sku] EXCEPT ![code[from]] = @ - quantity]
  IN /\ "v2" \in Served[stage] /\ Require(sku)
     /\ stock[sku][code[from]] >= quantity
     /\ stock' = [stock EXCEPT ![sku] = [taken EXCEPT ![code[to]] = @ + quantity]]
     /\ reversed' = IF quantity < 0 THEN reversed \cup {sku} ELSE reversed
     /\ \A c \in Codes : stock'[sku][c] >= -Depth
     /\ UNCHANGED <<stage, code, orders, nextId>>

(* POST /v1/orders, in both stages: the stock is asked and not taken from.    *)
CreateOrder(sku, quantity) ==
  /\ "v1" \in Served[stage] /\ Require(sku)
  /\ OnHand(stock[sku]) >= quantity
  /\ nextId <= MaxOrders
  /\ orders' = [id \in DOMAIN orders \cup {nextId} |->
                  IF id # nextId THEN orders[id]
                  ELSE [sku |-> sku, quantity |-> quantity,
                        cents |-> ListCents[sku] * quantity]]
  /\ nextId' = nextId + 1
  /\ UNCHANGED <<stage, code, stock, reversed>>

Next ==
  \/ \E s \in {"1", "2"}, codes \in [Sites -> Codes] : Start(s, codes)
  \/ Stop
  \/ \E sku \in Wanted, from, to \in Sites, quantity \in Quantities :
       from # to /\ Move(sku, from, to, quantity)
  \/ \E sku \in Wanted, quantity \in Quantities : CreateOrder(sku, quantity)

Spec == Init /\ [][Next]_vars

-----------------------------------------------------------------------------
(* Moves neither make nor lose a piece, whatever the sites are called, even
   when both have one code; and no shelf is below zero or above what there is,
   as long as nobody moved a negative quantity of the product.                *)
ShelvesAddUp ==
  stage # "down" =>
    \A sku \in Skus :
      /\ OnHand(stock[sku]) = OnHand(Seed[sku])
      /\ sku \notin reversed => \A c \in Codes : stock[sku][c] \in 0..OnHand(Seed[sku])

(* Over moves and restarts, no single order is for more than there ever was.  *)
OrdersWithinSeed ==
  \A id \in DOMAIN orders : orders[id].quantity <= OnHand(Seed[orders[id].sku])

(* An order that was taken stays as it was, and a restart of the graph gives
   no id twice.                                                               *)
OrdersStand ==
  [][\A id \in DOMAIN orders : id \in DOMAIN orders' /\ orders'[id] = orders[id]]_vars

=============================================================================
