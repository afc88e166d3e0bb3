------------------------------ MODULE MCQLocks ------------------------------
EXTENDS QLocks, TLC

CONSTANTS p1, p2, p3

=============================================================================
