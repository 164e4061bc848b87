------------------------------ MODULE MCReceiving ------------------------------
(* Two orders share product a.  The first gets a delivery with a rejected  *)
(* unit and two claims to replace it; the second two deliveries that       *)
(* together exceed it, one of them taken back twice, and edits meanwhile.  *)
EXTENDS Receiving, TLC

CONSTANTS r1, r2, o1, o2, a, b, g1, g2, g3, g4, g5, s1, s2

Both(i, j) == a :> i @@ b :> j
MCOrdered == o1 :> Both(2, 1) @@ o2 :> Both(1, 1)
MCOrderOf == g1 :> o1 @@ g2 :> o1 @@ g3 :> o1 @@ g4 :> o2 @@ g5 :> o2
MCDelivered == g1 :> Both(2, 1) @@ g2 :> Both(1, 0) @@ g3 :> Both(1, 0) @@ g4 :> Both(2, 0) @@ g5 :> Both(1, 1)
MCRejected == g1 :> Both(1, 0) @@ g2 :> Both(0, 0) @@ g3 :> Both(0, 0) @@ g4 :> Both(0, 0) @@ g5 :> Both(0, 1)
MCReplaces == g1 :> None @@ g2 :> g1 @@ g3 :> g1 @@ g4 :> None @@ g5 :> None
MCReceiptOf == s1 :> g4 @@ s2 :> g4
MCQuantity == s1 :> Both(1, 0) @@ s2 :> Both(2, 0)
MCEdits == o1 :> {} @@ o2 :> {"PENDING", "CANCELLED"}
MCOpening == Both(1, 0)
Symmetry == Permutations(Requests)
=============================================================================
