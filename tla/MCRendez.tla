------------------------------ MODULE MCRendez ------------------------------
EXTENDS Rendez, TLC

CONSTANTS w1, w2, i1, i2

=============================================================================
