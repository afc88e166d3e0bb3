------------------------------ MODULE MCIsched ------------------------------
EXTENDS Isched, TLC

\* Interpreters other than the first are interchangeable.
Sym == Permutations(Interps \ {Boot})

=============================================================================
