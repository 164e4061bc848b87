-------------------------------- MODULE MCStock --------------------------------
(* Three rows: raw material, finished goods, and an outlet's.  Two issues  *)
(* compete for one order's requirement, two returns for one line, and      *)
(* every kind of document for the rows they share.                         *)
EXTENDS Stock, TLC

CONSTANTS r1, r2, raw, goods, outlet, o1, i1, i2, m1, t1, c1, c2, j1, l1

MCFrom == o1 :> Nil @@ i1 :> raw @@ i2 :> raw @@ m1 :> goods @@ t1 :> goods @@ c1 :> outlet
          @@ c2 :> Nil @@ j1 :> raw
MCInto == o1 :> goods @@ i1 :> Nil @@ i2 :> Nil @@ m1 :> Nil @@ t1 :> outlet @@ c1 :> goods
          @@ c2 :> goods @@ j1 :> Nil
MCAmount == [d \in Documents |-> IF d \in {o1, c1} THEN 2 ELSE 1]
MCResalable == c1 :> 1 @@ c2 :> 0
MCProductionOf == i1 :> o1 @@ i2 :> o1
MCRequired == o1 :> 1
MCLineOf == c1 :> l1 @@ c2 :> l1
MCShipped == l1 :> 2
MCOpeningLevel == raw :> 2 @@ goods :> 1 @@ outlet :> 2
Symmetry == Permutations(Slots)
=============================================================================
