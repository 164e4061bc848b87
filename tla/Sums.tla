--------------------------------- MODULE Sums ---------------------------------
(***************************************************************************)
(* The sum of a natural-valued function over a finite set, as the number   *)
(* of units it counts: unit <<x, i>> is the i-th of the f[x] units of x.   *)
(* It is the sum that MapThenSumSet of FiniteSetsExt folds, defined so     *)
(* that the theorems about finite sets give its laws.                      *)
(***************************************************************************)
EXTENDS Naturals, FiniteSets

Units(f, S) == UNION {{x} \X (1 .. f[x]) : x \in S}
Sum(f, S) == Cardinality(Units(f, S))

=============================================================================
