---------------------------- MODULE MCReceivables ----------------------------
(* Instances for TLC: two payments and a credit note that compete for two invoices. *)
EXTENDS Receivables, TLC

CONSTANTS i1, i2, p1, p2, n1

TwoAndOne == (i1 :> 2) @@ (i2 :> 1)
\* p1 settles i2 and half of i1, n1 credits the other half, p2 settles all of i1.
Shares == (p1 :> ((i1 :> 1) @@ (i2 :> 1))) @@ (p2 :> ((i1 :> 2) @@ (i2 :> 0)))
            @@ (n1 :> ((i1 :> 1) @@ (i2 :> 0)))

\* Slots are interchangeable.
Slots == Permutations(Requests)

=============================================================================
