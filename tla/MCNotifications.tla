---------------------------- MODULE MCNotifications ----------------------------
(* Instances for TLC: the first event concerns everybody, the others one user. *)
EXTENDS Notifications, TLC

CONSTANTS ann, bob

OnlyAnn == [e \in Events |-> {ann}]
FirstForBoth == [e \in Events |-> IF e = 1 THEN {ann, bob} ELSE {ann}]
OneTickBackoff == [n \in 1 .. MaxAttempts |-> 1]

\* Slots are interchangeable.
Slots == Permutations(Sweeps)

=============================================================================
