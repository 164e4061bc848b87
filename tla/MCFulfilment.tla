---------------------------- MODULE MCFulfilment ----------------------------
(* Instances for TLC: two orders that compete for the stock of two warehouses, one of   *)
(* them from an outlet with a stock location of its own.                                *)
EXTENDS Fulfilment, TLC

CONSTANTS o1, o2, A, B, w1, w2, s, b1, b2, b3, b4

Of(p, q) == (A :> p) @@ (B :> q)
OrderedQuantities == (o1 :> Of(2, 1)) @@ (o2 :> Of(1, 0))
Outlets == (o1 :> s) @@ (o2 :> None)
\* b1 and b2 complete o1 line by line; b3 ships one of each from the other warehouse.
BatchOrders == (b1 :> o1) @@ (b2 :> o1) @@ (b3 :> o1) @@ (b4 :> o2)
Sources == (b1 :> w1) @@ (b2 :> w1) @@ (b3 :> w2) @@ (b4 :> w1)
Quantities == (b1 :> Of(2, 0)) @@ (b2 :> Of(0, 1)) @@ (b3 :> Of(1, 1)) @@ (b4 :> Of(1, 0))
\* Enough A in w1 for one of b1 and b4 only, until stock is added by hand.
OpeningStock == (w1 :> Of(2, 1)) @@ (w2 :> Of(1, 1)) @@ (s :> Of(0, 0))
AdjustableRows == {<<w1, A>>, <<s, A>>}

\* Slots are interchangeable.
Slots == Permutations(Requests)

=============================================================================
