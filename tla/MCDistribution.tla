---------------------------- MODULE MCDistribution ----------------------------
(* Two lines; a dispatch of both and one that competes for the first; two  *)
(* deliveries of different lines and one that repeats the first's.         *)
EXTENDS Distribution, TLC

CONSTANTS r1, r2, r3, a, b, d1, d2, va, vb, vc

MCFulfilled == a :> 2 @@ b :> 1
MCQuantity ==
  LET both(i, j) == a :> i @@ b :> j
  IN  d1 :> both(2, 1) @@ d2 :> both(1, 0) @@ va :> both(1, 0) @@ vb :> both(0, 1) @@ vc :> both(2, 0)
MCDispatchOf == va :> d1 @@ vb :> d1 @@ vc :> d1
Symmetry == Permutations(Requests)
=============================================================================
