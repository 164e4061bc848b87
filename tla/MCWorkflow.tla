----------------------------- MODULE MCWorkflow -----------------------------
(* Small instances of Workflow: everyone is an eligible approver of every  *)
(* step.                                                                   *)
EXTENDS Workflow, TLC

CONSTANTS i1, i2, i3, o1, u1, u2, c1, c2

MCEligible == [s \in Sequences |-> Users]
Symmetry == Permutations(Instances) \cup Permutations(Calls)
=============================================================================
