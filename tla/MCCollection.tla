----------------------------- MODULE MCCollection -----------------------------
(* One order of two pieces, two outlets, two requests at a time. *)
EXTENDS Collection, TLC

CONSTANTS o1, x1, x2, r1, r2

MCDemand == [o \in Orders |-> 2]
Symmetry == Permutations(Requests) \cup Permutations(Outlets)
=============================================================================
