------------------------------- MODULE Lists --------------------------------
(***************************************************************************)
(* Linked lists as sequences, with definitions that proofs can use without *)
(* an induction.                                                           *)
(***************************************************************************)
EXTENDS Naturals, Sequences, FiniteSets

Elements(s) == {s[i] : i \in DOMAIN s}

\* s with its i-th element unlinked.
Without(s, i) == [n \in 1 .. Len(s) - 1 |-> s[IF n < i THEN n ELSE n + 1]]

\* g goes through the numbers K in order.
Orders(g, K) ==
  /\ \A i, j \in DOMAIN g : i < j => g[i] < g[j]
  /\ \A k \in K : \E i \in DOMAIN g : g[i] = k

\* What is left of s when only the elements at the indices K are kept, as the
\* one member of a set.
Kept(s, K) ==
  {[n \in DOMAIN g |-> s[g[n]]] :
     g \in {f \in UNION {[1 .. n -> K] : n \in (0 .. Len(s)) \cap {Cardinality(K)}} : Orders(f, K)}}
=============================================================================
