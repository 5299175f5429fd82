-------------------------- MODULE MCOutboxReadiness --------------------------
(***************************************************************************)
(* Instances of OutboxReadiness for TLC.                                   *)
(***************************************************************************)
EXTENDS OutboxReadiness, TLC

CONSTANTS s1, t1, p1, p2

OneTenant == [s \in Subject |-> t1]
Instances == Permutations(Process)

=============================================================================
