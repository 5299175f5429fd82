-------------------------- MODULE MCLifecycleOutbox --------------------------
(***************************************************************************)
(* Instances of LifecycleOutbox for TLC.                                   *)
(***************************************************************************)
EXTENDS LifecycleOutbox, TLC

CONSTANTS s1, t1, p1, p2

OneTenant == [s \in Subject |-> t1]
Instances == Permutations(Process)

=============================================================================
