---------------------------- MODULE MCCollector -----------------------------
(* A heap of three objects, and two slots.                                 *)
EXTENDS Collector

CONSTANTS o1, o2, o3, s1, s2, f1
=============================================================================
