----------------------------- MODULE Collector ------------------------------
(***************************************************************************)
(* The heap of the Dis virtual machine (libinterp/heap.c) and its garbage  *)
(* collector (libinterp/gc.c).  Objects carry a count of the pointers to   *)
(* them and are freed when it falls to zero; cycles are left to an         *)
(* incremental collector of three colours, whose steps are taken between   *)
(* the instructions of the Progs (module Isched: never during one).        *)
(*                                                                         *)
(* A place is a slot, of a frame, of a module's data or of the table of    *)
(* pointers held by C code, or a field of an object.  In a pass the        *)
(* collector takes the blocks of the arenas in address order; the model    *)
(* lets it take them in any order, so that it holds for every layout.      *)
(***************************************************************************)
EXTENDS Naturals, FiniteSets

CONSTANTS
  Objects,   \* the blocks of heapmem
  Slots, Fields,
  None,      \* H, the nil pointer
  MaxDepth,  \* how deep destroy nests before it leaves the rest (64)
  MaxRef     \* bound: a pointer is copied only below this count

Places == Slots \cup (Objects \X Fields)

ASSUME CollectorAssumption ==
  /\ IsFiniteSet(Objects) /\ IsFiniteSet(Slots) /\ IsFiniteSet(Fields)
  /\ None \notin Objects
  /\ Slots \cap (Objects \X Fields) = {}
  /\ MaxDepth \in Nat /\ MaxRef \in Nat

VARIABLES
  val,       \* per place, the object it points to
  color,     \* h->color, and Free for a block that is not allocated
  ref,       \* h->ref
  nprop,     \* a propagator was made since the pass began
  todo       \* the blocks, allocated or not, that ptr has still to reach

vars == <<val, color, ref, nprop, todo>>

\* The colours by the role that gccolor gives them in the current epoch: new
\* and marked objects, those yet to be found, those not found in the epoch
\* before (gccolor, gccolor - 1 and gccolor - 2, modulo 3).
mutator == 0
marker == 1

\* mutant: the colour of the objects yet to be found
sweeperNow == marker

sweeper == 2
propagator == 3
Free == 4
Colors == 0 .. 4

\* gccolor++: each of the three colours takes the next role, the sweeper's that
\* of the mutator.
NextRole(c) == IF c \in 0 .. 2 THEN (c + 1) % 3 ELSE c

Allocated == {o \in Objects : color[o] # Free}

\* Objects that may still be in use: not left over from the last epoch.
Live == {o \in Objects : color[o] \notin {sweeper, Free}}

Init ==
  /\ val = [p \in Places |-> None]
  /\ color = [o \in Objects |-> Free]
  /\ ref = [o \in Objects |-> 0]
  /\ nprop = FALSE /\ todo = Objects

-----------------------------------------------------------------------------
(* The instructions.                                                       *)

\* The places a Prog can name: its slots, and the fields of what they point to.
Accessible == Slots \cup {p \in Objects \X Fields : \E s \in Slots : val[s] = p[1]}

\* Setmark on every object of S that is not marked, the colours being c.
Setmark(c, S) ==
  [o \in Objects |-> IF o \in S /\ c[o] # mutator THEN propagator ELSE c[o]]

Unmarked(c, S) == \E o \in S : c[o] # mutator

\* The pointers to o that go when place d is overwritten and G is freed.
Dropped(o, d, G) == {p \in {d} \cup (G \X Fields) : val[p] = o}

\* The count r of o falls to zero with them.
Zero(o, d, G, r) ==
  /\ Dropped(o, d, G) # {}
  /\ r[o] = Cardinality(Dropped(o, d, G))

\* destroy of what d points to frees F: objects whose counts fall to zero one
\* after the other, all such unless it nests deeper than MaxDepth.
destroy(d, F, r) ==
  /\ \A o \in F : Zero(o, d, F, r)
  /\ \A G \in SUBSET F : G # {} => \E o \in G : Zero(o, d, F \ G, r)
  /\ (\E o \in Objects \ F : Zero(o, d, F, r)) => Cardinality(F) >= MaxDepth

\* Place d is made to point to v, the colours being c and the counts r; then
\* what it pointed to is destroyed, with the pointers in it.
Assign(d, v, c, r) == \E F \in SUBSET Objects :
  /\ destroy(d, F, r)
  /\ val' = [p \in Places |-> IF p = d THEN v
                              ELSE IF p \in F \X Fields THEN None ELSE val[p]]
  /\ color' = [o \in Objects |-> IF o \in F THEN Free ELSE c[o]]
  /\ ref' = [o \in Objects |-> IF o \in F THEN 0
                               ELSE r[o] - Cardinality(Dropped(o, d, F))]
  /\ UNCHANGED todo

\* movp: a pointer is copied, and its target counted and marked.
movp == \E d \in Accessible, s \in Accessible :
  /\ val[s] # None /\ ref[val[s]] < MaxRef
  /\ Assign(d, val[s], Setmark(color, {val[s]}),
            [ref EXCEPT ![val[s]] = @ + 1])
  /\ nprop' = (nprop \/ Unmarked(color, {val[s]}))

\* movp of H, and destroy of a frame or a register.
clear == \E d \in Accessible :
  /\ val[d] # None
  /\ Assign(d, None, color, ref)
  /\ UNCHANGED nprop

\* new: heap allocates a marked object without pointers.
new == \E d \in Accessible, o \in Objects \ Allocated :
  /\ Assign(d, o, [color EXCEPT ![o] = mutator], [ref EXCEPT ![o] = 1])
  /\ UNCHANGED nprop

-----------------------------------------------------------------------------
(* The collector.                                                          *)

\* The objects that objects of S point to.
Targets(S) == {val[p] : p \in S \X Fields} \ {None}

\* Marking from the objects S, the colours being c: all of S become
\* propagators, and as long as the quantum lasts some of them are followed at
\* once (markheap calls itself), D: they are marked and their targets treated
\* as S.
MarkFrom(c, S) == \E D \in SUBSET {o \in Objects : c[o] # mutator} :
  /\ \A G \in SUBSET D : G # {} => G \cap (S \cup Targets(D \ G)) # {}
  /\ color' = [o \in Objects |-> IF o \in D THEN mutator
                                 ELSE Setmark(c, S \cup Targets(D))[o]]
  /\ nprop' = (nprop \/ Unmarked(c, S \cup Targets(D)))

\* mutant: it drops those of its pointers that lead to allocated blocks
inspectDropsLive == \E o \in todo :
  /\ todo' = todo \ {o}
  /\ IF color[o] = propagator
     THEN /\ MarkFrom([color EXCEPT ![o] = mutator], Targets({o}))
          /\ UNCHANGED <<val, ref>>
     ELSE IF color[o] = sweeper
     THEN /\ color' = [color EXCEPT ![o] = Free]
          /\ val' = [p \in Places |-> IF p \in {o} \X Fields THEN None ELSE val[p]]
          /\ ref' = [x \in Objects |-> IF x = o \/ x \notin Allocated THEN 0
               ELSE ref[x] - Cardinality({p \in {o} \X Fields : val[p] = x})]
          /\ UNCHANGED nprop
     ELSE UNCHANGED <<val, color, ref, nprop>>

\* rungc at a block: a propagator is marked and its targets become
\* propagators; a block of the sweeper's colour is freed, the counts of what
\* it points to staying as they are.
inspect == \E o \in todo :
  /\ todo' = todo \ {o}
  /\ IF color[o] = propagator
     THEN /\ MarkFrom([color EXCEPT ![o] = mutator], Targets({o}))
          /\ UNCHANGED <<val, ref>>
     ELSE IF color[o] = sweeper
     THEN /\ color' = [color EXCEPT ![o] = Free]
          /\ val' = [p \in Places |-> IF p \in {o} \X Fields THEN None ELSE val[p]]
          /\ ref' = [ref EXCEPT ![o] = 0]
          /\ UNCHANGED nprop
     ELSE UNCHANGED <<val, color, ref, nprop>>

\* A new epoch: the colours change their roles, and rootset marks what the
\* slots point to.
rootset ==
  MarkFrom([o \in Objects |-> NextRole(color[o])], {val[s] : s \in Slots} \ {None})

\* mutant: nprop is not reset for the next pass
endpassKeeps ==
  /\ todo = {}
  /\ IF nprop THEN UNCHANGED <<nprop, color>> ELSE rootset
  /\ todo' = Objects
  /\ UNCHANGED <<val, ref>>

\* The end of a pass: if it made no propagator the epoch is over.
endpass ==
  /\ todo = {}
  /\ IF nprop THEN nprop' = FALSE /\ UNCHANGED color ELSE rootset
  /\ todo' = Objects
  /\ UNCHANGED <<val, ref>>

rungc == inspect \/ endpass

Next == movp \/ clear \/ new \/ rungc

Spec == Init /\ [][Next]_vars

\* The machine calls rungc when it is idle and every so many quanta when not.
FairSpec == Spec /\ WF_vars(rungc)
-----------------------------------------------------------------------------
\* Type invariant.
TypeOK ==
  /\ val \in [Places -> Objects \cup {None}]
  /\ color \in [Objects -> Colors]
  /\ ref \in [Objects -> Nat]
  /\ nprop \in BOOLEAN
  /\ todo \subseteq Objects

\* The pointers to o in slots and in objects that may be in use.
Holders(o) == {p \in Slots \cup (Live \X Fields) : val[p] = o}

\* No object in use is ever freed or about to be swept: the objects that are
\* not of the sweeper's colour contain all that slots point to, and all that
\* they themselves point to, whatever instructions run between the steps of
\* the collector.
NothingInUseSwept ==
  /\ \A s \in Slots : val[s] # None => val[s] \in Live
  /\ \A p \in Live \X Fields : val[p] # None => val[p] \in Live

\* An object is freed by its count only when nothing in use points to it: the
\* count is never less than the pointers, although sweeping a block leaves the
\* counts of its targets too high, and a swept block may be allocated again
\* while garbage still points to it.
RefsCover == \A o \in Live : Cardinality(Holders(o)) <= ref[o]

\* The write barrier: a marked object, or a slot, never points to an object
\* the collector has yet to find.
Barrier ==
  /\ \A s \in Slots : val[s] # None => color[val[s]] \in {mutator, propagator}
  /\ \A p \in Objects \X Fields :
       color[p[1]] = mutator /\ val[p] # None
         => color[val[p]] \in {mutator, propagator}

\* The test that ends an epoch is right: when a pass that made no propagator
\* is over none is left, and every block of the sweeper's colour is gone
\* before that colour becomes the one of marked objects.
EpochOver ==
  /\ ~nprop => \A o \in Objects : color[o] = propagator => o \in todo
  /\ \A o \in Objects : color[o] = sweeper => o \in todo

\* No Prog can reach o: a set without it holds what the slots point to and
\* all that its members point to.
Garbage(o) == \E S \in SUBSET (Objects \ {o}) :
  ({val[s] : s \in Slots} \cup Targets(S)) \ {None} \subseteq S

\* What no Prog can reach is freed in the end, cycles included.
GarbageFreed == \A o \in Objects :
  (o \in Allocated /\ Garbage(o)) ~> o \notin Allocated
=============================================================================
