------------------------------ MODULE MCRetention ------------------------------
(* Small instances of RetentionSweep for TLC. *)
EXTENDS RetentionSweep, TLC

CONSTANTS r1, r2, a1, c1, c2, w1

MCHeld == [s \in Stages |-> 1]
=============================================================================
