-------------------------------- MODULE Rows --------------------------------
(***************************************************************************)
(* Queries over rows that are kept in the order they were written: the     *)
(* rows at some places of a sequence, in the same order.                   *)
(***************************************************************************)
EXTENDS Naturals, Sequences, FiniteSets

(* How many of the places lie up to i.                                        *)
Rank(i, places) == Cardinality({j \in places : j <= i})

Those(rows, places) ==
  [k \in 1..Cardinality(places) |->
     rows[CHOOSE i \in places : Rank(i, places) = k]]

Without(rows, gone) == Those(rows, DOMAIN rows \ gone)

=============================================================================
