------------------------------- MODULE MCEscrow -------------------------------
(* Small instances of EscrowProject for TLC. *)
EXTENDS EscrowRows, TLC

CONSTANTS p1, p2, p3, d1, d2

MCNet == [s \in Stages |-> 2]
Symmetry == Permutations(Sessions) \cup Permutations(Disputes)
=============================================================================
