----------------------------- MODULE MCDeliveries -----------------------------
(* A delivery that three overlapping sweeps find; a lease of one           *)
(* tick, so that it expires while its sweep is still at work.              *)
EXTENDS Deliveries, TLC

CONSTANTS d1, w1, w2, w3

OneTickBackoff(n) == 1
Symmetry == Permutations(Sweeps)
=============================================================================
