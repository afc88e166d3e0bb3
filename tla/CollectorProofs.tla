-------------------------- MODULE CollectorProofs ---------------------------
(***************************************************************************)
(* Proofs about module Collector, for every finite heap, set of slots and  *)
(* number of fields.  The invariant is the conjunction of the five that    *)
(* TLC checks and of FreeEmpty; each rests on the others.  That nothing in *)
(* use is swept when an epoch ends follows from the barrier and from the   *)
(* test that ends the epoch; that destroy frees nothing in use follows     *)
(* from the counts, and the counts from nothing in use having been swept.  *)
(***************************************************************************)
EXTENDS Collector, FiniteSetTheorems, TLAPS

\* The fields of a block that is not allocated hold nothing.
FreeEmpty == \A p \in Objects \X Fields : color[p[1]] = Free => val[p] = None

Inv ==
  /\ TypeOK /\ NothingInUseSwept /\ RefsCover /\ Barrier /\ EpochOver
  /\ FreeEmpty

\* The places that count: the slots and the fields of objects in use.
LivePlaces == Slots \cup (Live \X Fields)

\* A pair belongs to a set of fields if its first component is the owner.
LEMMA Pairs ==
  ASSUME NEW G \in SUBSET Objects, NEW p \in Objects \X Fields
  PROVE  /\ p[1] \in Objects /\ p[2] \in Fields /\ p = <<p[1], p[2]>>
         /\ p \in G \X Fields <=> p[1] \in G
  OBVIOUS

\* The sets of pointers to an object are finite.
LEMMA Finite ==
  ASSUME TypeOK, NEW o, NEW d \in Places, NEW F \in SUBSET Objects
  PROVE  IsFiniteSet(Holders(o)) /\ IsFiniteSet(Dropped(o, d, F))
<1>1. IsFiniteSet(Live) /\ IsFiniteSet(F)
  BY CollectorAssumption, FS_Subset DEF Live
<1>2. IsFiniteSet(Live \X Fields) /\ IsFiniteSet(F \X Fields)
  BY <1>1, CollectorAssumption, FS_Product
<1>3. IsFiniteSet(Slots \cup (Live \X Fields))
  BY <1>2, CollectorAssumption, FS_Union
<1>4. IsFiniteSet({d} \cup (F \X Fields))
  BY <1>2, FS_Singleton, FS_Union
<1>5. Holders(o) \subseteq Slots \cup (Live \X Fields)
  BY DEF Holders
<1>6. Dropped(o, d, F) \subseteq {d} \cup (F \X Fields)
  BY DEF Dropped
<1> QED BY <1>3, <1>4, <1>5, <1>6, FS_Subset

\* What a Prog can name is a slot or a field of an object in use, which a slot
\* points to.
LEMMA AccessibleLive ==
  ASSUME TypeOK, NothingInUseSwept, NEW d \in Accessible
  PROVE  /\ d \in Places /\ d \in LivePlaces
         /\ d \in Objects \X Fields =>
              d[1] \in Live /\ \E s \in Slots : s # d /\ val[s] = d[1]
<1>1. CASE d \in Slots
  BY <1>1, CollectorAssumption DEF Places, LivePlaces
<1>2. CASE d \in Objects \X Fields
  <2>1. PICK s \in Slots : val[s] = d[1]
    BY <1>2, CollectorAssumption DEF Accessible
  <2>2. d[1] \in Objects
    BY <1>2
  <2>3. d[1] \in Live
    BY <2>1, <2>2, CollectorAssumption DEF NothingInUseSwept
  <2>4. s # d
    BY <1>2, CollectorAssumption
  <2> QED BY <1>2, <2>1, <2>3, <2>4, Pairs DEF Places, LivePlaces, Live
<1> QED BY <1>1, <1>2 DEF Accessible

\* destroy frees only objects in use, whose pointers it all drops; what is not
\* in use it does not touch.
LEMMA FreedUnused ==
  ASSUME TypeOK, NothingInUseSwept, RefsCover, NEW d \in Accessible,
         NEW v, v = None \/ v \in Live \/ v \in Objects \ Allocated,
         NEW r, \A o \in Live : r[o] = IF o = v THEN ref[o] + 1 ELSE ref[o],
         NEW F \in SUBSET Objects, destroy(d, F, r)
  PROVE  /\ F \subseteq Live /\ v \notin F
         /\ \A o \in Objects : Dropped(o, d, F) \subseteq Holders(o)
         /\ \A o \in F : Holders(o) = Dropped(o, d, F)
         /\ \A o \in Objects \ Live : Dropped(o, d, F) = {}
<1>1. d \in Places /\ d \in LivePlaces
  BY AccessibleLive
<1>2. Live \subseteq Objects
  BY DEF Live
<1>3. \A p \in LivePlaces : val[p] # None => val[p] \in Live
  BY DEF NothingInUseSwept, LivePlaces
<1>4. \A G \in SUBSET Objects : G \subseteq Live =>
        \A o \in Objects : Dropped(o, d, G) # {} => o \in Live
  <2> SUFFICES ASSUME NEW G \in SUBSET Objects, G \subseteq Live,
                      NEW o \in Objects, NEW p \in Dropped(o, d, G)
               PROVE  o \in Live
    OBVIOUS
  <2>1. p \in LivePlaces /\ val[p] = o
    BY <1>1 DEF Dropped, LivePlaces
  <2> QED BY <2>1, <1>3, CollectorAssumption
<1>5. F \subseteq Live
  <2> SUFFICES ASSUME F \ Live # {} PROVE FALSE
    OBVIOUS
  <2> DEFINE G == F \ Live
  <2>1. G \in SUBSET F /\ G # {}
    OBVIOUS
  <2>2. PICK o \in G : Zero(o, d, F \ G, r)
    BY <2>1 DEF destroy
  <2>3. F \ G \subseteq Live /\ F \ G \in SUBSET Objects /\ o \in Objects
    OBVIOUS
  <2>4. Dropped(o, d, F \ G) # {}
    BY <2>2 DEF Zero
  <2>5. o \in Live
    BY <1>4, <2>3, <2>4
  <2> QED BY <2>5
<1>6. \A o \in Objects : Dropped(o, d, F) \subseteq Holders(o)
  BY <1>1, <1>5 DEF Dropped, Holders, LivePlaces
<1>7. \A o \in Objects \ Live : Dropped(o, d, F) = {}
  BY <1>4, <1>5
<1>8. \A o \in F : o # v /\ Holders(o) = Dropped(o, d, F)
  <2> SUFFICES ASSUME NEW o \in F PROVE o # v /\ Holders(o) = Dropped(o, d, F)
    OBVIOUS
  <2>1. o \in Live /\ o \in Objects
    BY <1>5
  <2>2. r[o] = Cardinality(Dropped(o, d, F))
    BY DEF destroy, Zero
  <2>3. Cardinality(Holders(o)) <= ref[o] /\ ref[o] \in Nat
    BY <2>1 DEF RefsCover, TypeOK
  <2>4. IsFiniteSet(Holders(o)) /\ IsFiniteSet(Dropped(o, d, F))
    BY <1>1, Finite
  <2>5. /\ Cardinality(Holders(o)) \in Nat
        /\ Cardinality(Dropped(o, d, F)) \in Nat
    BY <2>4, FS_CardinalityType
  <2>6. Dropped(o, d, F) \in SUBSET Holders(o)
    BY <1>6, <2>1
  <2>7. /\ Cardinality(Dropped(o, d, F)) <= Cardinality(Holders(o))
        /\ Cardinality(Holders(o)) = Cardinality(Dropped(o, d, F))
             => Holders(o) = Dropped(o, d, F)
    BY <2>4, <2>6, FS_Subset
  <2>8. r[o] = IF o = v THEN ref[o] + 1 ELSE ref[o]
    BY <2>1
  <2> QED BY <2>2, <2>3, <2>5, <2>7, <2>8
<1> QED BY <1>5, <1>6, <1>7, <1>8


\* An assignment preserves the invariant, but for what depends on nprop and
\* todo.
LEMMA AssignSafe ==
  ASSUME Inv, NEW d \in Accessible,
         NEW v, v = None \/ v \in Live \/ v \in Objects \ Allocated,
         NEW c \in [Objects -> Colors], NEW r \in [Objects -> Nat],
         \A o \in Objects : o # v => c[o] = color[o],
         v # None => \/ c[v] = mutator /\ color[v] \in {mutator, Free}
                     \/ c[v] = propagator /\ v \in Live,
         \A o \in Objects : o # v => r[o] = ref[o],
         v # None => r[v] = IF v \in Live THEN ref[v] + 1 ELSE 1,
         Assign(d, v, c, r)
  PROVE  /\ val' \in [Places -> Objects \cup {None}]
         /\ color' \in [Objects -> Colors] /\ ref' \in [Objects -> Nat]
         /\ NothingInUseSwept' /\ RefsCover' /\ Barrier' /\ FreeEmpty'
         /\ \A o \in Objects : color'[o] \in {sweeper, propagator} => color'[o] = c[o]
<1> USE DEF mutator, propagator, sweeper, Free
<1>1. TypeOK /\ NothingInUseSwept /\ RefsCover /\ Barrier /\ FreeEmpty
  BY DEF Inv
<1>2. PICK F \in SUBSET Objects :
        /\ destroy(d, F, r)
        /\ val' = [p \in Places |-> IF p = d THEN v
                     ELSE IF p \in F \X Fields THEN None ELSE val[p]]
        /\ color' = [o \in Objects |-> IF o \in F THEN Free ELSE c[o]]
        /\ ref' = [o \in Objects |-> IF o \in F THEN 0
                     ELSE r[o] - Cardinality(Dropped(o, d, F))]
  BY DEF Assign
<1>3. \A o \in Live : r[o] = IF o = v THEN ref[o] + 1 ELSE ref[o]
  BY CollectorAssumption DEF Live
<1>4. /\ F \subseteq Live /\ v \notin F
      /\ \A o \in Objects : Dropped(o, d, F) \subseteq Holders(o)
      /\ \A o \in F : Holders(o) = Dropped(o, d, F)
      /\ \A o \in Objects \ Live : Dropped(o, d, F) = {}
  <2> HIDE DEF mutator, propagator, sweeper, Free
  <2> QED BY <1>1, <1>2, <1>3, FreedUnused
<1>5. /\ d \in Places /\ d \in LivePlaces
      /\ d \in Objects \X Fields =>
           d[1] \in Live /\ \E s \in Slots : s # d /\ val[s] = d[1]
  BY <1>1, AccessibleLive
<1>6. Live' = (Live \ F) \cup ({v} \cap Objects)
  <2>1. \A o \in Objects : color'[o] = IF o \in F THEN Free ELSE c[o]
    BY <1>2
  <2>2. v \in Objects => c[v] \in {mutator, propagator}
    BY CollectorAssumption
  <2>3. \A o \in Objects : o \in Live' <=> (o \in Live /\ o \notin F) \/ o = v
    BY <1>4, <2>1, <2>2 DEF Live
  <2> QED BY <2>3 DEF Live
<1>7. v \in Objects \cup {None} /\ (v \in Objects => v \in Live')
  BY <1>6 DEF Live, Allocated
<1>8. /\ val' \in [Places -> Objects \cup {None}]
      /\ color' \in [Objects -> Colors]
  BY <1>1, <1>2, <1>7 DEF TypeOK, Colors
<1>9. \A o \in Objects : /\ IsFiniteSet(Holders(o)) /\ IsFiniteSet(Dropped(o, d, F))
                         /\ Cardinality(Holders(o)) \in Nat
                         /\ Cardinality(Dropped(o, d, F)) \in Nat
                         /\ Cardinality(Dropped(o, d, F)) <= Cardinality(Holders(o))
  BY <1>1, <1>4, <1>5, Finite, FS_CardinalityType, FS_Subset
<1>10. d \in Objects \X Fields => d[1] \notin F
  <2> SUFFICES ASSUME d \in Objects \X Fields, d[1] \in F PROVE FALSE
    OBVIOUS
  <2>1. PICK s \in Slots : s # d /\ val[s] = d[1]
    BY <1>5
  <2>2. s \in Holders(d[1])
    BY <2>1 DEF Holders
  <2>3. s \in Dropped(d[1], d, F)
    BY <2>2, <1>4
  <2> QED BY <2>1, <2>3, CollectorAssumption DEF Dropped
\* A place that still counts and is not d points where it did, and not into F.
<1>11. \A p \in Slots \cup ((Live \ F) \X Fields) :
         p # d => /\ p \in Places /\ val'[p] = val[p]
                  /\ p \in LivePlaces /\ (val[p] # None => val[p] \in Live \ F)
  <2> SUFFICES ASSUME NEW p \in Slots \cup ((Live \ F) \X Fields), p # d
               PROVE  /\ p \in Places /\ val'[p] = val[p]
                      /\ p \in LivePlaces /\ (val[p] # None => val[p] \in Live \ F)
    OBVIOUS
  <2>1. p \in Places /\ p \in LivePlaces /\ p \notin F \X Fields
    BY <1>4, CollectorAssumption DEF Places, LivePlaces, Live
  <2>2. val'[p] = val[p]
    BY <1>2, <2>1
  <2>3. val[p] # None => val[p] \in Live
    BY <1>1, <2>1 DEF NothingInUseSwept, LivePlaces
  <2>4. val[p] \notin F
    <3> SUFFICES ASSUME val[p] \in F PROVE FALSE
      OBVIOUS
    <3>1. p \in Holders(val[p])
      BY <2>1 DEF Holders, LivePlaces
    <3>2. p \in Dropped(val[p], d, F)
      BY <3>1, <1>4
    <3> QED BY <3>2, <2>1 DEF Dropped
  <2> QED BY <2>1, <2>2, <2>3, <2>4
\* The fields of a new object are empty.
<1>12. \A p \in Objects \X Fields :
         p[1] = v /\ v \notin Live => p # d /\ p \in Places /\ val'[p] = None
  <2> SUFFICES ASSUME NEW p \in Objects \X Fields, p[1] = v, v \notin Live
               PROVE  p # d /\ p \in Places /\ val'[p] = None
    OBVIOUS
  <2>1. p # d /\ p \in Places
    BY <1>5 DEF Places
  <2>2. color[v] = Free /\ v \in Objects
    BY CollectorAssumption DEF Allocated
  <2>3. val[p] = None
    BY <1>1, <2>2 DEF FreeEmpty
  <2> QED BY <1>2, <2>1, <2>3
<1>13. NothingInUseSwept'
  <2>1. \A p \in Slots \cup ((Live \ F) \X Fields) : val'[p] # None => val'[p] \in Live'
    BY <1>2, <1>5, <1>6, <1>7, <1>11
  <2>2. \A p \in Live' \X Fields : val'[p] # None => val'[p] \in Live'
    <3> SUFFICES ASSUME NEW p \in Live' \X Fields, val'[p] # None
                 PROVE  val'[p] \in Live'
      OBVIOUS
    <3>1. p \in Objects \X Fields /\ p[1] \in Live' /\ p[2] \in Fields /\ p = <<p[1], p[2]>>
      BY DEF Live
    <3>2. CASE p[1] \in Live \ F
      BY <3>1, <3>2, <2>1
    <3>3. CASE p[1] = v /\ v \notin Live
      BY <3>1, <3>3, <1>12
    <3> QED BY <3>1, <3>2, <3>3, <1>4, <1>6
  <2> QED BY <2>1, <2>2 DEF NothingInUseSwept
<1>14. \A o \in Objects :
         /\ r[o] \in Nat
         /\ Cardinality(Dropped(o, d, F)) <= r[o]
         /\ o \in Live => /\ ref[o] \in Nat /\ Cardinality(Holders(o)) <= ref[o]
         /\ o \notin Live => Cardinality(Dropped(o, d, F)) = 0
  <2> SUFFICES ASSUME NEW o \in Objects
               PROVE  /\ r[o] \in Nat
                      /\ Cardinality(Dropped(o, d, F)) <= r[o]
                      /\ o \in Live => ref[o] \in Nat /\ Cardinality(Holders(o)) <= ref[o]
                      /\ o \notin Live => Cardinality(Dropped(o, d, F)) = 0
    OBVIOUS
  <2>1. o \in Live => ref[o] \in Nat /\ Cardinality(Holders(o)) <= ref[o]
    BY <1>1 DEF RefsCover, TypeOK
  <2>2. o \notin Live => Cardinality(Dropped(o, d, F)) = 0
    BY <1>4, FS_EmptySet
  <2> QED BY <2>1, <2>2, <1>3, <1>9
<1>15. ref' \in [Objects -> Nat]
  <2> SUFFICES ASSUME NEW o \in Objects PROVE ref'[o] \in Nat
    BY <1>2
  <2>1. ref'[o] = IF o \in F THEN 0 ELSE r[o] - Cardinality(Dropped(o, d, F))
    BY <1>2
  <2> QED BY <2>1, <1>9, <1>14
<1>16. \A o \in Live' : Holders(o)' \subseteq
         (IF o \in Live THEN Holders(o) \ Dropped(o, d, F) ELSE {})
            \cup (IF o = v THEN {d} ELSE {})
  <2> SUFFICES ASSUME NEW o \in Live', NEW p \in Holders(o)', p # d
               PROVE  o \in Live /\ p \in Holders(o) \ Dropped(o, d, F)
    BY <1>2, <1>5 DEF Holders
  <2>1. p \in Slots \cup (Live' \X Fields) /\ val'[p] = o /\ o \in Objects /\ o # None
    BY CollectorAssumption DEF Holders, Live
  <2>2. p \in Slots \cup ((Live \ F) \X Fields)
    <3> SUFFICES ASSUME p \in Live' \X Fields PROVE p \in (Live \ F) \X Fields
      BY <2>1
    <3>1. p \in Objects \X Fields /\ p[1] \in Live' /\ p[2] \in Fields /\ p = <<p[1], p[2]>>
      BY DEF Live
    <3>2. ~(p[1] = v /\ v \notin Live)
      BY <3>1, <2>1, <1>12
    <3> QED BY <3>1, <3>2, <1>4, <1>6
  <2>3. p \in LivePlaces /\ val[p] = o /\ o \in Live /\ p \notin F \X Fields
    BY <2>1, <2>2, <1>11, CollectorAssumption DEF Live
  <2>4. p \in Holders(o)
    BY <2>3 DEF Holders, LivePlaces
  <2> QED BY <2>3, <2>4 DEF Dropped
<1>17. RefsCover'
  <2> SUFFICES ASSUME NEW o \in Live' PROVE Cardinality(Holders(o)') <= ref'[o]
    BY DEF RefsCover
  <2> DEFINE H == IF o \in Live THEN Holders(o) \ Dropped(o, d, F) ELSE {}
             E == IF o = v THEN {d} ELSE {}
  <2>1. o \in Objects /\ o \notin F
    BY <1>4, <1>6 DEF Live
  <2>2. ref'[o] = r[o] - Cardinality(Dropped(o, d, F))
    BY <1>2, <2>1
  <2>3. /\ IsFiniteSet(H)
        /\ Cardinality(H) = IF o \in Live
             THEN Cardinality(Holders(o)) - Cardinality(Dropped(o, d, F)) ELSE 0
    <3>1. Holders(o) \cap Dropped(o, d, F) = Dropped(o, d, F)
      BY <2>1, <1>4
    <3>2. /\ IsFiniteSet(Holders(o) \ Dropped(o, d, F))
          /\ Cardinality(Holders(o) \ Dropped(o, d, F))
               = Cardinality(Holders(o)) - Cardinality(Holders(o) \cap Dropped(o, d, F))
      BY <2>1, <1>9, FS_Difference
    <3>3. IsFiniteSet({}) /\ Cardinality({}) = 0
      BY FS_EmptySet
    <3>4. CASE o \in Live
      BY <3>1, <3>2, <3>4
    <3>5. CASE o \notin Live
      BY <3>3, <3>5
    <3> QED BY <3>4, <3>5
  <2>4. /\ IsFiniteSet(E) /\ Cardinality(E) = IF o = v THEN 1 ELSE 0
    BY FS_Singleton, FS_EmptySet
  <2> HIDE DEF H, E
  <2>5. /\ IsFiniteSet(H \cup E)
        /\ Cardinality(H \cup E) <= Cardinality(H) + Cardinality(E)
    <3>1. IsFiniteSet(H \cap E) /\ Cardinality(H \cap E) \in Nat
      BY <2>3, FS_Subset, FS_CardinalityType
    <3>2. Cardinality(H) \in Nat /\ Cardinality(E) \in Nat
      BY <2>3, <2>4, FS_CardinalityType
    <3>3. /\ IsFiniteSet(H \cup E)
          /\ Cardinality(H \cup E)
               = Cardinality(H) + Cardinality(E) - Cardinality(H \cap E)
      BY <2>3, <2>4, FS_Union
    <3> QED BY <3>1, <3>2, <3>3
  <2>6. Holders(o)' \subseteq H \cup E
    BY <1>16 DEF H, E
  <2>7. /\ Cardinality(Holders(o)') <= Cardinality(H \cup E)
        /\ Cardinality(Holders(o)') \in Nat /\ Cardinality(H \cup E) \in Nat
    BY <2>5, <2>6, FS_Subset, FS_CardinalityType
  <2>8. o \in Live \/ o = v
    BY <1>6
  <2>9. o = v => r[o] = IF o \in Live THEN ref[o] + 1 ELSE 1
    BY <2>1, CollectorAssumption
  <2>10. o # v => r[o] = ref[o]
    BY <2>1
  <2> QED BY <2>1, <2>2, <2>3, <2>4, <2>5, <2>7, <2>8, <2>9, <2>10, <1>9, <1>14
<1>18. \A o \in Objects \ F :
         /\ color[o] = mutator => color'[o] \in {mutator, propagator}
         /\ color'[o] = mutator => color[o] = mutator \/ (o = v /\ v \notin Live)
         /\ color[o] = propagator => color'[o] \in {mutator, propagator}
  <2> SUFFICES ASSUME NEW o \in Objects \ F
               PROVE  /\ color[o] = mutator => color'[o] \in {mutator, propagator}
                      /\ color'[o] = mutator => color[o] = mutator \/ (o = v /\ v \notin Live)
                      /\ color[o] = propagator => color'[o] \in {mutator, propagator}
    OBVIOUS
  <2>1. color'[o] = c[o]
    BY <1>2
  <2> QED BY <2>1, CollectorAssumption DEF Live
<1>19. v # None => v \in Objects /\ color'[v] \in {mutator, propagator}
  BY <1>2, <1>4, <1>7
<1>20. Barrier'
  <2>1. ASSUME NEW s \in Slots, val'[s] # None
        PROVE  color'[val'[s]] \in {mutator, propagator}
    <3>1. CASE s = d
      <4>1. val'[s] = v
        BY <3>1, <1>2, <1>5
      <4> QED BY <4>1, <2>1, <1>19
    <3>2. CASE s # d
      <4>1. val'[s] = val[s] /\ val[s] \in Live \ F /\ val[s] \in Objects
        BY <3>2, <2>1, <1>11 DEF Live
      <4> QED BY <4>1, <1>18, <1>1, <2>1 DEF Barrier
    <3> QED BY <3>1, <3>2
  <2>2. ASSUME NEW p \in Objects \X Fields, color'[p[1]] = mutator, val'[p] # None
        PROVE  color'[val'[p]] \in {mutator, propagator}
    <3>1. CASE p = d
      BY <3>1, <2>2, <1>19, <1>2, <1>5
    <3>2. CASE p # d
      <4>1. p[1] \in Objects /\ p[2] \in Fields /\ p = <<p[1], p[2]>> /\ p[1] \notin F
        BY <2>2, <1>2
      <4>2. ~(p[1] = v /\ v \notin Live)
        BY <2>2, <1>12
      <4>3. color[p[1]] = mutator
        BY <4>1, <4>2, <2>2, <1>18
      <4>4. p[1] \in Live
        BY <4>1, <4>3 DEF Live
      <4>5. p \in Slots \cup ((Live \ F) \X Fields)
        BY <4>1, <4>4
      <4>6. val'[p] = val[p] /\ val[p] \in Live \ F /\ val[p] \in Objects
        BY <4>5, <3>2, <2>2, <1>11 DEF Live
      <4> QED BY <4>6, <4>3, <1>18, <1>1, <2>2 DEF Barrier
    <3> QED BY <3>1, <3>2
  <2> QED BY <2>1, <2>2 DEF Barrier
<1>21. FreeEmpty'
  <2> SUFFICES ASSUME NEW p \in Objects \X Fields, color'[p[1]] = Free
               PROVE  val'[p] = None
    BY DEF FreeEmpty
  <2>1. p \in Places /\ p[1] \in Objects /\ p[2] \in Fields /\ p = <<p[1], p[2]>>
    BY DEF Places
  <2>2. CASE p[1] \in F
    <3>1. p # d /\ p \in F \X Fields
      BY <2>1, <2>2, <1>10
    <3> QED BY <3>1, <2>1, <1>2
  <2>3. CASE p[1] \notin F
    <3>1. color'[p[1]] = c[p[1]]
      BY <2>1, <2>3, <1>2
    <3>2. p[1] # v
      BY <3>1, <2>1, CollectorAssumption
    <3>3. color[p[1]] = Free
      BY <3>1, <3>2, <2>1
    <3>4. val[p] = None
      BY <3>3, <1>1 DEF FreeEmpty
    <3>5. p # d
      BY <3>3, <1>5 DEF Live
    <3> QED BY <3>4, <3>5, <2>1, <1>2
  <2> QED BY <2>2, <2>3
<1>22. \A o \in Objects : color'[o] \in {sweeper, propagator} => color'[o] = c[o]
  BY <1>2
<1> QED BY <1>8, <1>13, <1>15, <1>17, <1>20, <1>21, <1>22

\* The instructions preserve the invariant.
LEMMA MovpInv == ASSUME Inv, movp PROVE Inv'
<1> USE DEF mutator, propagator, sweeper, Free
<1>1. TypeOK /\ NothingInUseSwept /\ EpochOver
  BY DEF Inv
<1>2. PICK d \in Accessible, s \in Accessible :
        /\ val[s] # None
        /\ Assign(d, val[s], Setmark(color, {val[s]}), [ref EXCEPT ![val[s]] = @ + 1])
        /\ nprop' = (nprop \/ Unmarked(color, {val[s]}))
  BY DEF movp
<1> DEFINE v == val[s]
           c == Setmark(color, {v})
           r == [ref EXCEPT ![v] = @ + 1]
<1>3. s \in Places /\ s \in LivePlaces
  BY <1>1, AccessibleLive
<1>4. v \in Live /\ v \in Objects
  BY <1>1, <1>2, <1>3 DEF NothingInUseSwept, LivePlaces, Live
<1>5. /\ c \in [Objects -> Colors] /\ r \in [Objects -> Nat]
      /\ \A o \in Objects : o # v => c[o] = color[o] /\ r[o] = ref[o]
      /\ c[v] = (IF color[v] = mutator THEN mutator ELSE propagator)
      /\ r[v] = ref[v] + 1
  BY <1>1, <1>4 DEF TypeOK, Setmark, Colors
<1>6. nprop' = (nprop \/ color[v] # mutator) /\ todo' = todo
  BY <1>2 DEF Unmarked, Assign
<1>7. v # None /\ Assign(d, v, c, r)
  BY <1>2
<1> HIDE DEF v, c, r
<1>8. /\ val' \in [Places -> Objects \cup {None}]
      /\ color' \in [Objects -> Colors] /\ ref' \in [Objects -> Nat]
      /\ NothingInUseSwept' /\ RefsCover' /\ Barrier' /\ FreeEmpty'
      /\ \A o \in Objects : color'[o] \in {sweeper, propagator} => color'[o] = c[o]
  BY <1>4, <1>5, <1>7, AssignSafe
<1>9. TypeOK'
  BY <1>1, <1>6, <1>8 DEF TypeOK
<1>10. EpochOver'
  <2>1. \A o \in Objects :
          /\ color'[o] = propagator => color[o] = propagator \/ color[v] # mutator
          /\ color'[o] = sweeper => color[o] = sweeper
    BY <1>4, <1>5, <1>8
  <2>2. ~nprop' => ~nprop /\ color[v] = mutator
    BY <1>6
  <2> QED BY <1>1, <1>6, <2>1, <2>2 DEF EpochOver
<1> QED BY <1>8, <1>9, <1>10 DEF Inv

\* Overwriting a pointer with nil, or the end of a frame (clear), keeps Inv.
LEMMA ClearInv == ASSUME Inv, clear PROVE Inv'
<1> USE DEF mutator, propagator, sweeper, Free
<1>1. TypeOK /\ EpochOver
  BY DEF Inv
<1>2. PICK d \in Accessible : Assign(d, None, color, ref) /\ nprop' = nprop
  BY DEF clear
<1>3. color \in [Objects -> Colors] /\ ref \in [Objects -> Nat] /\ todo' = todo
  BY <1>1, <1>2 DEF TypeOK, Assign
<1>4. /\ val' \in [Places -> Objects \cup {None}]
      /\ color' \in [Objects -> Colors] /\ ref' \in [Objects -> Nat]
      /\ NothingInUseSwept' /\ RefsCover' /\ Barrier' /\ FreeEmpty'
      /\ \A o \in Objects : color'[o] \in {sweeper, propagator} => color'[o] = color[o]
  BY <1>2, <1>3, AssignSafe
<1>5. TypeOK'
  BY <1>1, <1>2, <1>3, <1>4 DEF TypeOK
<1>6. EpochOver'
  BY <1>1, <1>2, <1>3, <1>4 DEF EpochOver
<1> QED BY <1>4, <1>5, <1>6 DEF Inv

\* Allocation (new, heap) keeps Inv: a new object is marked and has no pointers.
LEMMA NewInv == ASSUME Inv, new PROVE Inv'
<1> USE DEF mutator, propagator, sweeper, Free
<1>1. TypeOK /\ EpochOver
  BY DEF Inv
<1>2. PICK d \in Accessible, v \in Objects \ Allocated :
        /\ Assign(d, v, [color EXCEPT ![v] = mutator], [ref EXCEPT ![v] = 1])
        /\ nprop' = nprop
  BY DEF new
<1> DEFINE c == [color EXCEPT ![v] = mutator]
           r == [ref EXCEPT ![v] = 1]
<1>3. v # None /\ v \notin Live /\ color[v] = Free
  BY CollectorAssumption DEF Allocated, Live
<1>4. /\ c \in [Objects -> Colors] /\ r \in [Objects -> Nat]
      /\ \A o \in Objects : o # v => c[o] = color[o] /\ r[o] = ref[o]
      /\ c[v] = mutator /\ r[v] = 1
  BY <1>1 DEF TypeOK, Colors
<1>5. Assign(d, v, c, r) /\ todo' = todo
  BY <1>2 DEF Assign
<1> HIDE DEF c, r
<1>6. /\ val' \in [Places -> Objects \cup {None}]
      /\ color' \in [Objects -> Colors] /\ ref' \in [Objects -> Nat]
      /\ NothingInUseSwept' /\ RefsCover' /\ Barrier' /\ FreeEmpty'
      /\ \A o \in Objects : color'[o] \in {sweeper, propagator} => color'[o] = c[o]
  BY <1>3, <1>4, <1>5, AssignSafe
<1>7. TypeOK'
  BY <1>1, <1>2, <1>5, <1>6 DEF TypeOK
<1>8. EpochOver'
  BY <1>1, <1>2, <1>4, <1>5, <1>6 DEF EpochOver
<1> QED BY <1>6, <1>7, <1>8 DEF Inv

\* Marking from a subset S of a set L that is closed under pointers stays in L,
\* and leaves no marked object pointing to an unmarked one.
LEMMA MarkClosed ==
  ASSUME TypeOK, NEW L \in SUBSET Objects, NEW S \in SUBSET L,
         \A p \in L \X Fields : val[p] # None => val[p] \in L,
         NEW c \in [Objects -> Colors],
         \A o \in Objects : o \in L <=> c[o] \notin {sweeper, Free},
         MarkFrom(c, S)
  PROVE  /\ color' \in [Objects -> Colors] /\ nprop' \in BOOLEAN
         /\ \A o \in Objects \ L : color'[o] = c[o]
         /\ Live' = L
         /\ \A o \in S : color'[o] \in {mutator, propagator}
         /\ \A o \in Objects : c[o] \in {mutator, propagator}
                                => color'[o] \in {mutator, propagator}
         /\ \A p \in Objects \X Fields :
              color'[p[1]] = mutator /\ c[p[1]] # mutator /\ val[p] # None
                => color'[val[p]] \in {mutator, propagator}
         /\ ~nprop' => /\ ~nprop
                       /\ \A o \in Objects : color'[o] = propagator => c[o] = propagator
<1> USE DEF mutator, propagator, sweeper, Free
<1>1. PICK D \in SUBSET {o \in Objects : c[o] # mutator} :
        /\ \A G \in SUBSET D : G # {} => G \cap (S \cup Targets(D \ G)) # {}
        /\ color' = [o \in Objects |-> IF o \in D THEN mutator
                                       ELSE Setmark(c, S \cup Targets(D))[o]]
        /\ nprop' = (nprop \/ Unmarked(c, S \cup Targets(D)))
  BY DEF MarkFrom
<1>2. \A E \in SUBSET L : Targets(E) \subseteq L
  BY DEF Targets
<1>3. D \subseteq L
  <2> SUFFICES ASSUME D \ L # {} PROVE FALSE
    OBVIOUS
  <2>1. (D \ L) \cap (S \cup Targets(D \ (D \ L))) # {}
    BY <1>1
  <2>2. D \ (D \ L) \in SUBSET L
    OBVIOUS
  <2> QED BY <2>1, <2>2, <1>2
<1> DEFINE T == S \cup Targets(D)
<1>4. T \subseteq L
  BY <1>2, <1>3
<1>5. \A o \in Objects : color'[o] =
        IF o \in D THEN mutator ELSE IF o \in T /\ c[o] # mutator THEN propagator ELSE c[o]
  BY <1>1 DEF Setmark
<1>6. color' \in [Objects -> Colors]
  <2>1. \A o \in Objects : color'[o] \in Colors
    BY <1>5 DEF Colors
  <2> QED BY <2>1, <1>1
<1>7. nprop' \in BOOLEAN
  BY <1>1 DEF TypeOK, Unmarked
<1>8. \A o \in Objects \ L : color'[o] = c[o]
  BY <1>3, <1>4, <1>5
<1>9. \A o \in L : color'[o] \notin {sweeper, Free}
  BY <1>5
<1>10. Live' = L
  BY <1>8, <1>9 DEF Live
<1>11. \A o \in T : color'[o] \in {mutator, propagator}
  BY <1>4, <1>5
<1>12. \A o \in Objects : c[o] \in {mutator, propagator} => color'[o] \in {mutator, propagator}
  BY <1>5
<1>13. \A p \in Objects \X Fields :
         color'[p[1]] = mutator /\ c[p[1]] # mutator /\ val[p] # None => val[p] \in T
  <2> SUFFICES ASSUME NEW p \in Objects \X Fields, color'[p[1]] = mutator,
                      c[p[1]] # mutator, val[p] # None
               PROVE  val[p] \in Targets(D)
    OBVIOUS
  <2>1. p[1] \in Objects /\ p[2] \in Fields /\ p = <<p[1], p[2]>>
    OBVIOUS
  <2>2. p[1] \in D
    BY <2>1, <1>5
  <2>3. p \in D \X Fields
    BY <2>1, <2>2
  <2> QED BY <2>3 DEF Targets
<1>14. ~nprop' => ~nprop /\ \A o \in T : c[o] = mutator
  BY <1>1 DEF Unmarked
<1>15. ~nprop' => \A o \in Objects : color'[o] = propagator => c[o] = propagator
  BY <1>5, <1>14
<1> QED BY <1>6, <1>7, <1>8, <1>10, <1>11, <1>12, <1>13, <1>14, <1>15

\* A step of the collector at a block preserves the invariant.
LEMMA InspectInv == ASSUME Inv, inspect PROVE Inv'
<1> USE DEF mutator, propagator, sweeper, Free
<1>1. TypeOK /\ NothingInUseSwept /\ RefsCover /\ Barrier /\ EpochOver /\ FreeEmpty
  BY DEF Inv
<1>2. PICK o \in todo :
        /\ todo' = todo \ {o}
        /\ IF color[o] = propagator
           THEN /\ MarkFrom([color EXCEPT ![o] = mutator], Targets({o}))
                /\ UNCHANGED <<val, ref>>
           ELSE IF color[o] = sweeper
           THEN /\ color' = [color EXCEPT ![o] = Free]
                /\ val' = [p \in Places |-> IF p \in {o} \X Fields THEN None ELSE val[p]]
                /\ ref' = [ref EXCEPT ![o] = 0]
                /\ UNCHANGED nprop
           ELSE UNCHANGED <<val, color, ref, nprop>>
  BY DEF inspect
<1>3. o \in Objects /\ todo' \subseteq Objects
  BY <1>1, <1>2 DEF TypeOK
<1>4. CASE color[o] = propagator
  <2> DEFINE c == [color EXCEPT ![o] = mutator]
             S == Targets({o})
  <2>1. MarkFrom(c, S) /\ val' = val /\ ref' = ref
    BY <1>2, <1>4
  <2>2. /\ c \in [Objects -> Colors] /\ c[o] = mutator
        /\ \A x \in Objects : x # o => c[x] = color[x]
    BY <1>1, <1>3 DEF TypeOK, Colors
  <2>3. o \in Live /\ Live \in SUBSET Objects
    BY <1>3, <1>4 DEF Live
  <2>4. \A p \in Live \X Fields : val[p] # None => val[p] \in Live
    BY <1>1 DEF NothingInUseSwept
  <2>5. S \in SUBSET Live
    BY <2>3, <2>4 DEF Targets
  <2>6. \A x \in Objects : x \in Live <=> c[x] \notin {sweeper, Free}
    BY <2>2, <2>3 DEF Live
  <2>7. \A p \in Objects \X Fields : p[1] = o /\ val[p] # None => val[p] \in S
    BY <1>3 DEF Targets
  <2> HIDE DEF c, S
  <2>8. /\ color' \in [Objects -> Colors] /\ nprop' \in BOOLEAN
        /\ \A x \in Objects \ Live : color'[x] = c[x]
        /\ Live' = Live
        /\ \A x \in S : color'[x] \in {mutator, propagator}
        /\ \A x \in Objects : c[x] \in {mutator, propagator}
                               => color'[x] \in {mutator, propagator}
        /\ \A p \in Objects \X Fields :
             color'[p[1]] = mutator /\ c[p[1]] # mutator /\ val[p] # None
               => color'[val[p]] \in {mutator, propagator}
        /\ ~nprop' => /\ ~nprop
                      /\ \A x \in Objects : color'[x] = propagator => c[x] = propagator
    <3> HIDE DEF mutator, propagator, sweeper, Free
    <3> QED BY <1>1, <2>1, <2>2, <2>3, <2>4, <2>5, <2>6, MarkClosed
  <2>9. TypeOK'
    BY <1>1, <1>3, <2>1, <2>8 DEF TypeOK
  <2>10. NothingInUseSwept'
    BY <1>1, <2>1, <2>8 DEF NothingInUseSwept
  <2>11. RefsCover'
    BY <1>1, <2>1, <2>8 DEF RefsCover, Holders
  <2>12. \A x \in Objects : color[x] \in {mutator, propagator} => color'[x] \in {mutator, propagator}
    BY <2>2, <2>8
  <2>13. Barrier'
    <3>1. \A s \in Slots : val[s] # None => val[s] \in Objects
      BY <1>1 DEF TypeOK, Places
    <3>2. \A p \in Objects \X Fields : val[p] # None => val[p] \in Objects
      BY <1>1 DEF TypeOK, Places
    <3>3. \A s \in Slots : val[s] # None => color'[val[s]] \in {mutator, propagator}
      BY <1>1, <3>1, <2>12 DEF Barrier
    <3>4. ASSUME NEW p \in Objects \X Fields, color'[p[1]] = mutator, val[p] # None
          PROVE  color'[val[p]] \in {mutator, propagator}
      <4>1. CASE c[p[1]] # mutator
        BY <3>4, <4>1, <2>8
      <4>2. CASE p[1] = o
        BY <3>4, <4>2, <2>7, <2>8
      <4>3. CASE c[p[1]] = mutator /\ p[1] # o
        BY <3>2, <3>4, <4>3, <2>2, <2>12, <1>1 DEF Barrier
      <4> QED BY <4>1, <4>2, <4>3
    <3> QED BY <3>3, <3>4, <2>1 DEF Barrier
  <2>14. EpochOver'
    <3>1. \A x \in Objects : color'[x] = sweeper => x # o /\ color[x] = sweeper
      BY <2>2, <2>3, <2>8 DEF Live
    <3>2. ~nprop' => \A x \in Objects : color'[x] = propagator => x # o /\ color[x] = propagator
      BY <2>2, <2>8
    <3> QED BY <3>1, <3>2, <1>1, <1>2, <2>8 DEF EpochOver
  <2>15. FreeEmpty'
    <3>1. \A x \in Objects : color'[x] = Free => color[x] = Free
      BY <2>2, <2>3, <2>8 DEF Live
    <3> QED BY <3>1, <1>1, <2>1 DEF FreeEmpty
  <2> QED BY <2>9, <2>10, <2>11, <2>13, <2>14, <2>15 DEF Inv
<1>5. CASE color[o] = sweeper
  <2>1. /\ color' = [color EXCEPT ![o] = Free]
        /\ val' = [p \in Places |-> IF p \in {o} \X Fields THEN None ELSE val[p]]
        /\ ref' = [ref EXCEPT ![o] = 0]
        /\ nprop' = nprop
    BY <1>2, <1>5
  <2>2. TypeOK'
    BY <1>1, <1>3, <2>1 DEF TypeOK, Colors
  <2>3. /\ \A x \in Objects : x # o => color'[x] = color[x] /\ ref'[x] = ref[x]
        /\ color'[o] = Free
    BY <1>1, <1>3, <2>1 DEF TypeOK
  <2>4. Live' = Live /\ o \notin Live
    BY <1>3, <1>5, <2>3 DEF Live
  <2>5. \A p \in Slots \cup (Live \X Fields) : p \in Places /\ val'[p] = val[p]
    <3>1. \A p \in Slots \cup (Live \X Fields) : p \in Places /\ p \notin {o} \X Fields
      BY <1>3, <2>4, CollectorAssumption DEF Places, Live
    <3> QED BY <3>1, <2>1
  <2>6. NothingInUseSwept'
    BY <1>1, <2>4, <2>5 DEF NothingInUseSwept
  <2>7. RefsCover'
    <3>1. \A x \in Objects : Holders(x)' = Holders(x)
      BY <2>4, <2>5 DEF Holders
    <3> QED BY <3>1, <1>1, <2>3, <2>4 DEF RefsCover, Live
  <2>8. \A x \in Objects : color[x] \in {mutator, propagator} => color'[x] = color[x]
    BY <1>5, <2>3
  <2>9. \A p \in Objects \X Fields :
          /\ p \in Places
          /\ val'[p] = IF p[1] = o THEN None ELSE val[p]
    BY <2>1 DEF Places
  <2>10. Barrier'
    <3>1. \A s \in Slots : val'[s] = val[s] /\ (val[s] # None => val[s] \in Objects)
      BY <1>1, <2>5 DEF TypeOK, Places
    <3>2. \A p \in Objects \X Fields : val[p] # None => val[p] \in Objects
      BY <1>1 DEF TypeOK, Places
    <3>3. \A s \in Slots : val'[s] # None => color'[val'[s]] \in {mutator, propagator}
      BY <1>1, <3>1, <2>8 DEF Barrier
    <3>4. ASSUME NEW p \in Objects \X Fields, color'[p[1]] = mutator, val'[p] # None
          PROVE  color'[val'[p]] \in {mutator, propagator}
      <4>1. p[1] # o /\ p[1] \in Objects /\ val'[p] = val[p]
        BY <3>4, <2>3, <2>9
      <4>2. color[p[1]] = mutator
        BY <3>4, <4>1, <2>3
      <4> QED BY <3>2, <3>4, <4>1, <4>2, <2>8, <1>1 DEF Barrier
    <3> QED BY <3>3, <3>4 DEF Barrier
  <2>11. EpochOver'
    BY <1>1, <1>2, <2>1, <2>3 DEF EpochOver
  <2>12. FreeEmpty'
    BY <1>1, <2>3, <2>9 DEF FreeEmpty
  <2> QED BY <2>2, <2>6, <2>7, <2>10, <2>11, <2>12 DEF Inv
<1>6. CASE color[o] # propagator /\ color[o] # sweeper
  <2>1. UNCHANGED <<val, color, ref, nprop>>
    BY <1>2, <1>6
  <2>2. TypeOK' /\ NothingInUseSwept' /\ RefsCover' /\ Barrier' /\ FreeEmpty'
    BY <1>1, <1>3, <2>1
    DEF TypeOK, NothingInUseSwept, RefsCover, Barrier, FreeEmpty, Live, Holders
  <2>3. EpochOver'
    BY <1>1, <1>2, <1>6, <2>1 DEF EpochOver
  <2> QED BY <2>2, <2>3 DEF Inv
<1> QED BY <1>4, <1>5, <1>6

\* The end of a pass preserves the invariant.  When an epoch ends every block
\* is marked, yet to be found or free, and what the marked ones point to is
\* marked: they are the objects in use of the next epoch.
LEMMA EndpassInv == ASSUME Inv, endpass PROVE Inv'
<1> USE DEF mutator, marker, propagator, sweeper, Free
<1>1. TypeOK /\ NothingInUseSwept /\ RefsCover /\ Barrier /\ EpochOver /\ FreeEmpty
  BY DEF Inv
<1>2. todo = {} /\ todo' = Objects /\ val' = val /\ ref' = ref
  BY DEF endpass
<1>3. CASE nprop
  <2>1. nprop' = FALSE /\ color' = color
    BY <1>3 DEF endpass
  <2>2. TypeOK' /\ NothingInUseSwept' /\ RefsCover' /\ Barrier' /\ FreeEmpty'
    BY <1>1, <1>2, <2>1
    DEF TypeOK, NothingInUseSwept, RefsCover, Barrier, FreeEmpty, Live, Holders
  <2>3. EpochOver'
    BY <1>2 DEF EpochOver
  <2> QED BY <2>2, <2>3 DEF Inv
<1>4. CASE ~nprop
  <2> DEFINE c == [o \in Objects |-> NextRole(color[o])]
             S == {val[s] : s \in Slots} \ {None}
             B == {o \in Objects : color[o] = mutator}
  <2>1. MarkFrom(c, S)
    BY <1>4 DEF endpass, rootset
  <2>2. \A o \in Objects : color[o] \in {mutator, marker, Free}
    <3>1. \A o \in Objects : color[o] # propagator /\ color[o] # sweeper
      BY <1>1, <1>2, <1>4 DEF EpochOver
    <3> QED BY <3>1, <1>1 DEF TypeOK, Colors
  <2>3. \A o \in Objects : c[o] = IF color[o] = mutator THEN marker
                                  ELSE IF color[o] = marker THEN sweeper ELSE Free
    BY <2>2 DEF NextRole
  <2>4. c \in [Objects -> Colors]
    BY <2>3 DEF Colors
  <2>5. \A s \in Slots : val[s] # None => val[s] \in Objects
    BY <1>1 DEF TypeOK, Places
  <2>6. \A p \in Objects \X Fields : val[p] # None => val[p] \in Objects
    BY <1>1 DEF TypeOK, Places
  <2>7. S \in SUBSET B
    BY <1>1, <2>2, <2>5 DEF Barrier
  <2>8. \A p \in B \X Fields : val[p] # None => val[p] \in B
    BY <1>1, <2>2, <2>6 DEF Barrier
  <2>9. B \in SUBSET Objects /\ \A o \in Objects : o \in B <=> c[o] \notin {sweeper, Free}
    BY <2>2, <2>3
  <2>10. B \subseteq Live
    BY DEF Live
  <2>11. \A s \in Slots : val[s] # None => val[s] \in S
    OBVIOUS
  <2> HIDE DEF c, S, B
  <2>12. /\ color' \in [Objects -> Colors] /\ nprop' \in BOOLEAN
         /\ \A o \in Objects \ B : color'[o] = c[o]
         /\ Live' = B
         /\ \A o \in S : color'[o] \in {mutator, propagator}
         /\ \A o \in Objects : c[o] \in {mutator, propagator}
                                => color'[o] \in {mutator, propagator}
         /\ \A p \in Objects \X Fields :
              color'[p[1]] = mutator /\ c[p[1]] # mutator /\ val[p] # None
                => color'[val[p]] \in {mutator, propagator}
         /\ ~nprop' => /\ ~nprop
                       /\ \A o \in Objects : color'[o] = propagator => c[o] = propagator
    <3> HIDE DEF mutator, marker, propagator, sweeper, Free
    <3>1. \A o \in Objects : o \in B <=> c[o] \notin {sweeper, Free}
      BY <2>9
    <3>2. B \in SUBSET Objects
      BY <2>9
    <3>3. TypeOK
      BY <1>1
    <3> QED BY <3>3, <2>1, <2>4, <2>7, <2>8, <3>1, <3>2, MarkClosed
  <2>13. TypeOK'
    BY <1>1, <1>2, <2>12 DEF TypeOK
  <2>14. NothingInUseSwept'
    BY <1>2, <2>7, <2>8, <2>11, <2>12 DEF NothingInUseSwept
  <2>15. RefsCover'
    <3> SUFFICES ASSUME NEW o \in B PROVE Cardinality(Holders(o)') <= ref[o]
      BY <1>2, <2>12 DEF RefsCover
    <3>1. Holders(o)' \subseteq Holders(o)
      BY <1>2, <2>10, <2>12 DEF Holders
    <3>2. IsFiniteSet(Holders(o))
      <4>1. IsFiniteSet(Live)
        BY CollectorAssumption, FS_Subset DEF Live
      <4>2. IsFiniteSet(Live \X Fields)
        BY <4>1, CollectorAssumption, FS_Product
      <4>3. IsFiniteSet(Slots \cup (Live \X Fields))
        BY <4>2, CollectorAssumption, FS_Union
      <4> QED BY <4>3, FS_Subset DEF Holders
    <3>3. /\ Cardinality(Holders(o)') <= Cardinality(Holders(o))
          /\ Cardinality(Holders(o)') \in Nat /\ Cardinality(Holders(o)) \in Nat
      BY <3>1, <3>2, FS_Subset, FS_CardinalityType
    <3>4. Cardinality(Holders(o)) <= ref[o] /\ ref[o] \in Nat
      BY <1>1, <2>9, <2>10 DEF RefsCover, TypeOK
    <3> QED BY <3>3, <3>4
  <2>16. Barrier'
    <3>1. \A p \in Objects \X Fields : p[1] \in Objects /\ c[p[1]] # mutator
      BY <2>3
    <3> QED BY <3>1, <1>2, <2>11, <2>12 DEF Barrier
  <2>17. EpochOver'
    BY <1>2 DEF EpochOver
  <2>18. FreeEmpty'
    <3>1. \A o \in Objects : color'[o] = Free => color[o] = Free
      BY <2>2, <2>3, <2>9, <2>12 DEF Live
    <3> QED BY <3>1, <1>1, <1>2 DEF FreeEmpty
  <2> QED BY <2>13, <2>14, <2>15, <2>16, <2>17, <2>18 DEF Inv
<1> QED BY <1>3, <1>4

\* The invariant holds at first.
LEMMA InitInv == Init => Inv
<1> SUFFICES ASSUME Init PROVE Inv
  OBVIOUS
<1>1. Live = {} /\ \A p \in Places : val[p] = None
  BY DEF Init, Live
<1>2. TypeOK
  <2>1. /\ val \in [Places -> Objects \cup {None}]
        /\ color \in [Objects -> Colors] /\ ref \in [Objects -> Nat]
    BY DEF Init, Colors, Free
  <2> QED BY <2>1 DEF Init, TypeOK
<1>3. NothingInUseSwept /\ RefsCover
  BY <1>1 DEF NothingInUseSwept, RefsCover, Places
<1>4. Barrier /\ FreeEmpty
  BY <1>1 DEF Barrier, FreeEmpty, Places
<1>5. EpochOver
  BY DEF EpochOver, Init, sweeper, propagator, Free
<1> QED BY <1>2, <1>3, <1>4, <1>5 DEF Inv

\* Every reachable state of the heap satisfies the invariant, whatever the
\* instructions do between the steps of the collector and however far each
\* marking goes.
THEOREM Invariance == Spec => []Inv
<1>1. Inv /\ [Next]_vars => Inv'
  <2> SUFFICES ASSUME Inv, [Next]_vars PROVE Inv'
    OBVIOUS
  <2>1. CASE UNCHANGED vars
    <3>1. UNCHANGED <<val, color, ref, nprop, todo>>
      BY <2>1 DEF vars
    <3>2. TypeOK' /\ NothingInUseSwept' /\ RefsCover' /\ Barrier' /\ EpochOver' /\ FreeEmpty'
      BY <3>1 DEF Inv, TypeOK, NothingInUseSwept, RefsCover, Barrier, EpochOver,
                  FreeEmpty, Live, Holders
    <3> QED BY <3>2 DEF Inv
  <2> QED
    BY <2>1, MovpInv, ClearInv, NewInv, InspectInv, EndpassInv DEF Next, rungc
<1> QED BY <1>1, InitInv, PTL DEF Spec

\* The collector never frees, and never has about to be swept, an object that a
\* Prog can reach.
THEOREM NothingInUseIsSwept == Spec => []NothingInUseSwept
BY Invariance, PTL DEF Inv

\* An object is freed by its count only when nothing in use points to it.
THEOREM CountsCover == Spec => []RefsCover
BY Invariance, PTL DEF Inv

\* The write barrier of movp holds between any two steps of the collector.
THEOREM BarrierHolds == Spec => []Barrier
BY Invariance, PTL DEF Inv

\* When an epoch ends no propagator and no block to be swept is left.
THEOREM EpochsEnd == Spec => []EpochOver
BY Invariance, PTL DEF Inv

\* The variables keep their types; in particular no count falls below zero.
THEOREM TypeCorrect == Spec => []TypeOK
BY Invariance, PTL DEF Inv
=============================================================================
