----------------------------- MODULE MCMountRpc -----------------------------
(* The mount driver with two processes, one of which is interrupted.       *)
EXTENDS MountRpc

CONSTANTS p1, p2

Intrs == [p \in Procs |-> IF p = p1 THEN 2 ELSE 0]
=============================================================================
