---------------------------- MODULE QLocksProofs ----------------------------
(***************************************************************************)
(* Proofs about QLocks, for every finite set of threads.  Who has a QLock  *)
(* is not written down anywhere in the code: it follows from where the     *)
(* threads are.  HoldsX and HoldsK say it, and the invariant that they are *)
(* the truth (one holder, and locked set exactly when there is one) is     *)
(* what WriterAlone and ReadersHoldK rest on.                              *)
(***************************************************************************)
EXTENDS QLocks, TLAPS

Reader(p) == op[p] \in {"rlock", "canrlock"}

\* The places in the operations.
Valid(p) ==
  \/ op[p] \in {"out", "reading", "writing"} /\ pos[p] = 1 /\ step[p] = 1
  \/ Reader(p) /\ pos[p] \in {2, 3, 5} /\ step[p] = 1
  \/ Reader(p) /\ pos[p] = 4 /\ step[p] \in 1..2
  \/ Reader(p) /\ pos[p] = 6 /\ step[p] \in 1..3
  \/ op[p] = "rlock" /\ pos[p] = 1 /\ step[p] \in 1..3
  \/ op[p] = "canrlock" /\ pos[p] = 1 /\ step[p] \in 1..2
  \/ op[p] = "runlock" /\ pos[p] \in {1, 2, 4} /\ step[p] = 1
  \/ op[p] = "runlock" /\ pos[p] = 3 /\ step[p] \in 1..3
  \/ op[p] \in {"wlock", "wunlock"} /\ pos[p] \in 1..2 /\ step[p] \in 1..3

\* p is in a qlock or a qunlock of q.
Qlocking(p, q) ==
  \/ q = "x" /\ op[p] \in {"rlock", "wlock"} /\ pos[p] = 1
  \/ q = "k" /\ op[p] = "wlock" /\ pos[p] = 2
Qunlocking(p, q) ==
  \/ q = "x" /\ Reader(p) /\ pos[p] = 6
  \/ q = "x" /\ op[p] = "wunlock" /\ pos[p] = 2
  \/ q = "k" /\ op[p] = "runlock" /\ pos[p] = 3
  \/ q = "k" /\ op[p] = "wunlock" /\ pos[p] = 1
Trying(p, q) ==
  \/ q = "x" /\ op[p] = "canrlock" /\ pos[p] = 1
  \/ q = "k" /\ Reader(p) /\ pos[p] = 4
Calling(p, q) == Qlocking(p, q) \/ Qunlocking(p, q) \/ Trying(p, q)

Waits(p, q) == Qlocking(p, q) /\ step[p] = 3
Given(p, q) == Waits(p, q) /\ ~Queued(p, q)

\* p has x; p has k as a writer; the readers have k.
HoldsX(p) ==
  \/ Reader(p) /\ pos[p] \in 2..5
  \/ Reader(p) /\ pos[p] = 6 /\ step[p] # 3
  \/ op[p] = "wlock" /\ pos[p] = 2
  \/ op[p] = "writing"
  \/ op[p] = "wunlock" /\ pos[p] = 1
  \/ op[p] = "wunlock" /\ pos[p] = 2 /\ step[p] # 3
  \/ Given(p, "x")
HoldsK(p) ==
  \/ op[p] = "writing"
  \/ op[p] = "wunlock" /\ pos[p] = 1 /\ step[p] # 3
  \/ Given(p, "k")
InL(p) ==
  \/ Reader(p) /\ pos[p] \in 3..5
  \/ op[p] = "runlock" /\ pos[p] \in 2..4
Entering(p) == Reader(p) /\ pos[p] = 4
Leaving(p) == op[p] = "runlock" /\ pos[p] = 3
Reads(p) ==
  \/ op[p] = "reading"
  \/ op[p] = "runlock" /\ pos[p] \in 1..2
  \/ Reader(p) /\ pos[p] \in 4..6
Passing(p) == Leaving(p) /\ step[p] # 3
Handing(p) == step[p] = 3 /\ \E q \in Locks : Qunlocking(p, q)
ReadersHave ==
  \/ readers > 0 /\ ~(readers = 1 /\ \E p \in Procs : Entering(p))
  \/ \E p \in Procs : Passing(p)

Places == /\ op \in [Procs -> DOMAIN Code \cup {"out", "reading", "writing"}]
          /\ pos \in [Procs -> 1..6] /\ step \in [Procs -> 1..3]
          /\ \A p \in Procs : Valid(p)
Types == /\ use \in [Locks -> Procs \cup {None}]
         /\ locked \in [Locks -> BOOLEAN]
         /\ queue \in [Locks -> Seq(Procs)]
         /\ sem \in [Procs -> 0..1]
         /\ woken \in [Procs -> Procs \cup {None}]
XInv == /\ \A p, q \in Procs : HoldsX(p) /\ HoldsX(q) => p = q
        /\ locked["x"] <=> \E p \in Procs : HoldsX(p)
LInv == /\ l \in Procs \cup {None}
        /\ \A p \in Procs : l = p <=> InL(p)
UseInv == \A p \in Procs, q \in Locks :
            use[q] = p <=> step[p] = 2 /\ Calling(p, q)
QueueInv == \A q \in Locks :
  /\ \A i, j \in DOMAIN queue[q] : queue[q][i] = queue[q][j] => i = j
  /\ \A i \in DOMAIN queue[q] : Waits(queue[q][i], q)
  /\ ~locked[q] => queue[q] = <<>>
PostInv ==
  /\ \A p \in Procs : woken[p] # None <=> Handing(p)
  /\ \A p, q \in Procs : woken[p] # None /\ woken[p] = woken[q] => p = q
  /\ \A p, q \in Procs : woken[p] = q => sem[q] = 0
  /\ \A q \in Procs : sem[q] = 1 \/ (\E p \in Procs : woken[p] = q)
                        <=> Given(q, "x") \/ Given(q, "k")
\* n is the number of elements of S: 1 .. n numbers them.
Numbers(g, n, S) ==
  /\ g \in [1..n -> S]
  /\ \A i, j \in 1..n : g[i] = g[j] => i = j
  /\ \A x \in S : \E i \in 1..n : g[i] = x
Counts(n, S) == n \in Nat /\ \E g \in [1..n -> S] : Numbers(g, n, S)

ReadInv == /\ Counts(readers, {p \in Procs : Reads(p)})
           /\ \A p \in Procs : Leaving(p) => readers = 0
KInv == /\ \A p \in Procs : HoldsK(p) => ~ReadersHave
        /\ locked["k"] <=> ReadersHave \/ \E p \in Procs : HoldsK(p)

IInv == Places /\ Types /\ XInv /\ LInv /\ UseInv /\ QueueInv /\ PostInv /\ ReadInv /\ KInv

----------------------------------------------------------------------------
(* The operations, call by call.                                           *)

Ops == {"rlock", "canrlock", "runlock", "wlock", "wunlock"}

USE ZenonT(30)

\* What the calls of the operations are.
LEMMA Calls ==
  /\ DOMAIN Code = Ops
  /\ Len(Code["rlock"]) = 6 /\ Len(Code["canrlock"]) = 6 /\ Len(Code["runlock"]) = 4
  /\ Len(Code["wlock"]) = 2 /\ Len(Code["wunlock"]) = 2
  /\ Code["rlock"][1] = <<"qlock", "x">> /\ Code["canrlock"][1] = <<"tryqlock", "x">>
  /\ \A o \in {"rlock", "canrlock"} :
       /\ Code[o][2] = <<"lock", "l">> /\ Code[o][3] = <<"enter", "l">>
       /\ Code[o][4] = <<"canqlock", "k">> /\ Code[o][5] = <<"unlock", "l">>
       /\ Code[o][6] = <<"qunlock", "x">>
  /\ Code["runlock"][1] = <<"lock", "l">> /\ Code["runlock"][2] = <<"leave", "l">>
  /\ Code["runlock"][3] = <<"qunlock", "k">> /\ Code["runlock"][4] = <<"unlock", "l">>
  /\ Code["wlock"][1] = <<"qlock", "x">> /\ Code["wlock"][2] = <<"qlock", "k">>
  /\ Code["wunlock"][1] = <<"qunlock", "k">> /\ Code["wunlock"][2] = <<"qunlock", "x">>
  /\ After["rlock"] = "reading" /\ After["canrlock"] = "reading"
  /\ After["runlock"] = "out" /\ After["wlock"] = "writing" /\ After["wunlock"] = "out"
<1>1. CanrlockCode = <<<<"tryqlock", "x">>, <<"lock", "l">>, <<"enter", "l">>,
                       <<"canqlock", "k">>, <<"unlock", "l">>, <<"qunlock", "x">>>>
  BY SMT DEF CanrlockCode, RlockCode
<1> QED BY SMT, <1>1 DEF Code, After, Ops, RlockCode, RunlockCode, WlockCode, WunlockCode

----------------------------------------------------------------------------
(* The actions, with the places they lead from and to.                     *)

Move(p, o, n, s) ==
  /\ op' = [op EXCEPT ![p] = o]
  /\ pos' = [pos EXCEPT ![p] = n]
  /\ step' = [step EXCEPT ![p] = s]

\* p is past qlock of q, or past qunlock of q.
Locked(p, q) == \/ q = "x" /\ Move(p, op[p], 2, 1)
                \/ q = "k" /\ Move(p, "writing", 1, 1)
Unlocked(p, q) ==
  \/ Reader(p) /\ Move(p, "reading", 1, 1)
  \/ op[p] = "runlock" /\ Move(p, "runlock", 4, 1)
  \/ op[p] = "wunlock" /\ q = "k" /\ Move(p, "wunlock", 2, 1)
  \/ op[p] = "wunlock" /\ q = "x" /\ Move(p, "out", 1, 1)

\* ToStep and Return as moves.
LEMMA Moves ==
  ASSUME Places, NEW p \in Procs
  PROVE  /\ \A s : ToStep(p, s) => Move(p, op[p], pos[p], s)
         /\ \A o : Return(p, o) => Move(p, o, 1, 1)
BY DEF Places, ToStep, Return, Move

\* Advance as a move.
LEMMA Advances ==
  ASSUME Places, NEW p \in Procs, Busy(p), NEW n \in 1..2, Advance(p, n)
  PROVE  /\ pos[p] + n <= Len(Code[op[p]]) => Move(p, op[p], pos[p] + n, 1)
         /\ pos[p] + n > Len(Code[op[p]]) => Move(p, After[op[p]], 1, 1)
<1>1. op[p] \in Ops BY Calls DEF Busy
<1>2. Len(Code[op[p]]) \in Nat BY SMT, <1>1, Calls DEF Ops
<1> DEFINE end == pos[p] + n > Len(Code[op[p]])
<1>3. pos[p] \in 1..6 BY DEF Places
<1>4. end <=> ~(pos[p] + n <= Len(Code[op[p]])) BY SMTT(30), <1>2, <1>3
<1> HIDE DEF end
<1>5. /\ op' = [op EXCEPT ![p] = IF end THEN After[op[p]] ELSE op[p]]
      /\ pos' = [pos EXCEPT ![p] = IF end THEN 1 ELSE pos[p] + n]
      /\ step' = [step EXCEPT ![p] = 1]
  BY DEF Advance, Places, end
<1>6. end => Move(p, After[op[p]], 1, 1) BY <1>5 DEF Move
<1>7. ~end => Move(p, op[p], pos[p] + n, 1) BY <1>5 DEF Move
<1> QED BY <1>4, <1>6, <1>7 DEF end

\* The call p is in, by its place.
LEMMA CallAt ==
  ASSUME NEW p \in Procs
  PROVE  /\ op[p] = "rlock" /\ pos[p] = 1 => Call(p) = <<"qlock", "x">>
         /\ op[p] = "canrlock" /\ pos[p] = 1 => Call(p) = <<"tryqlock", "x">>
         /\ Reader(p) /\ pos[p] = 2 => Call(p) = <<"lock", "l">>
         /\ Reader(p) /\ pos[p] = 3 => Call(p) = <<"enter", "l">>
         /\ Reader(p) /\ pos[p] = 4 => Call(p) = <<"canqlock", "k">>
         /\ Reader(p) /\ pos[p] = 5 => Call(p) = <<"unlock", "l">>
         /\ Reader(p) /\ pos[p] = 6 => Call(p) = <<"qunlock", "x">>
         /\ op[p] = "runlock" /\ pos[p] = 1 => Call(p) = <<"lock", "l">>
         /\ op[p] = "runlock" /\ pos[p] = 2 => Call(p) = <<"leave", "l">>
         /\ op[p] = "runlock" /\ pos[p] = 3 => Call(p) = <<"qunlock", "k">>
         /\ op[p] = "runlock" /\ pos[p] = 4 => Call(p) = <<"unlock", "l">>
         /\ op[p] = "wlock" /\ pos[p] = 1 => Call(p) = <<"qlock", "x">>
         /\ op[p] = "wlock" /\ pos[p] = 2 => Call(p) = <<"qlock", "k">>
         /\ op[p] = "wunlock" /\ pos[p] = 1 => Call(p) = <<"qunlock", "k">>
         /\ op[p] = "wunlock" /\ pos[p] = 2 => Call(p) = <<"qunlock", "x">>
BY Calls DEF Call, Reader

\* Every busy proc is in one of these calls.
LEMMA LockCalls ==
  ASSUME Places, NEW p \in Procs, Busy(p)
  PROVE  \/ Call(p) = <<"qlock", "x">> /\ Qlocking(p, "x")
         \/ Call(p) = <<"qlock", "k">> /\ Qlocking(p, "k")
         \/ Call(p) = <<"qunlock", "x">> /\ Qunlocking(p, "x")
         \/ Call(p) = <<"qunlock", "k">> /\ Qunlocking(p, "k")
         \/ Call(p) = <<"tryqlock", "x">> /\ Trying(p, "x")
         \/ Call(p) = <<"canqlock", "k">> /\ Trying(p, "k")
         \/ Call(p) = <<"lock", "l">> /\ ((Reader(p) /\ pos[p] = 2) \/ (op[p] = "runlock" /\ pos[p] = 1))
         \/ Call(p) = <<"unlock", "l">> /\ ((Reader(p) /\ pos[p] = 5) \/ (op[p] = "runlock" /\ pos[p] = 4))
         \/ Call(p) = <<"enter", "l">> /\ Reader(p) /\ pos[p] = 3
         \/ Call(p) = <<"leave", "l">> /\ op[p] = "runlock" /\ pos[p] = 2
<1>1. Valid(p) BY DEF Places
<1>2. op[p] \in Ops BY Calls DEF Busy
<1>3. CASE Reader(p)
  <2>1. pos[p] \in {1, 2, 3, 4, 5, 6} /\ op[p] \in {"rlock", "canrlock"}
    BY <1>1, <1>3 DEF Valid, Reader
  <2>2. CASE pos[p] = 1 BY <2>1, <2>2, CallAt DEF Qlocking, Trying
  <2>3. CASE pos[p] = 2 BY <1>3, <2>3, CallAt
  <2>4. CASE pos[p] = 3 BY <1>3, <2>4, CallAt
  <2>5. CASE pos[p] = 5 BY <1>3, <2>5, CallAt
  <2>6. CASE pos[p] \in {4, 6} BY <1>3, <2>6, CallAt DEF Qunlocking, Trying
  <2> QED BY <2>1, <2>2, <2>3, <2>4, <2>5, <2>6
<1>4. CASE op[p] = "runlock"
  <2>1. pos[p] \in {1, 2, 3, 4} BY <1>1, <1>4 DEF Valid, Reader
  <2> QED BY <1>4, <2>1, CallAt DEF Qlocking, Qunlocking, Trying
<1>5. CASE op[p] \in {"wlock", "wunlock"}
  <2>1. pos[p] \in {1, 2} BY SMT, <1>1, <1>5 DEF Valid, Reader
  <2> QED BY <1>5, <2>1, CallAt DEF Qlocking, Qunlocking, Trying
<1> QED BY <1>2, <1>3, <1>4, <1>5 DEF Ops, Reader

\* How qlock and qunlock end.
LEMMA LockEnds ==
  ASSUME Places, NEW p \in Procs, Busy(p), Advance(p, 1), NEW q \in Locks
  PROVE  /\ Qlocking(p, q) => Locked(p, q)
         /\ Qunlocking(p, q) => Unlocked(p, q)
         /\ Trying(p, q) => Move(p, op[p], pos[p] + 1, 1)
<1>1. /\ pos[p] + 1 <= Len(Code[op[p]]) => Move(p, op[p], pos[p] + 1, 1)
      /\ pos[p] + 1 > Len(Code[op[p]]) => Move(p, After[op[p]], 1, 1)
  BY SMT, Advances
<1>2. Qlocking(p, q) => Locked(p, q)
  <2>1. CASE q = "x" /\ op[p] \in {"rlock", "wlock"} /\ pos[p] = 1
    <3>1. Move(p, op[p], 2, 1) BY SMT, <1>1, <2>1, Calls
    <3> QED BY <2>1, <3>1 DEF Locked
  <2>2. CASE q = "k" /\ op[p] = "wlock" /\ pos[p] = 2
    <3>1. Move(p, "writing", 1, 1) BY SMT, <1>1, <2>2, Calls
    <3> QED BY <2>2, <3>1 DEF Locked
  <2> QED BY <2>1, <2>2 DEF Qlocking
<1>3. Qunlocking(p, q) => Unlocked(p, q)
  <2>1. CASE q = "x" /\ Reader(p) /\ pos[p] = 6
    <3>1. pos[p] + 1 > Len(Code[op[p]]) /\ After[op[p]] = "reading"
      <4>1. CASE op[p] = "rlock" BY SMT, <2>1, <4>1, Calls
      <4>2. CASE op[p] = "canrlock" BY SMT, <2>1, <4>2, Calls
      <4> QED BY <2>1, <4>1, <4>2 DEF Reader
    <3>2. Move(p, "reading", 1, 1) BY <1>1, <3>1
    <3> QED BY <2>1, <3>2 DEF Unlocked
  <2>2. CASE q = "x" /\ op[p] = "wunlock" /\ pos[p] = 2
    <3>1. Move(p, "out", 1, 1) BY SMT, <1>1, <2>2, Calls
    <3> QED BY <2>2, <3>1 DEF Unlocked
  <2>3. CASE q = "k" /\ op[p] = "runlock" /\ pos[p] = 3
    <3>1. Move(p, "runlock", 4, 1) BY SMT, <1>1, <2>3, Calls
    <3> QED BY <2>3, <3>1 DEF Unlocked
  <2>4. CASE q = "k" /\ op[p] = "wunlock" /\ pos[p] = 1
    <3>1. Move(p, "wunlock", 2, 1) BY SMT, <1>1, <2>4, Calls
    <3> QED BY <2>4, <3>1 DEF Unlocked
  <2> QED BY <2>1, <2>2, <2>3, <2>4 DEF Qunlocking
<1>4. Trying(p, q) => Move(p, op[p], pos[p] + 1, 1)
  BY SMTT(30), <1>1, Calls DEF Trying, Reader
<1> QED BY <1>2, <1>3, <1>4

----------------------------------------------------------------------------
(* The steps by the lock q they are about.                                 *)

TakesUse(p, q) ==
  /\ Calling(p, q) /\ step[p] = 1 /\ use[q] = None
  /\ use' = [use EXCEPT ![q] = p] /\ Move(p, op[p], pos[p], 2)
  /\ UNCHANGED <<locked, queue, l, readers, sem, woken>>
UseTaken(p, q) ==
  /\ Trying(p, q) /\ step[p] = 1 /\ use[q] # None
  /\ IF q = "x" THEN Move(p, "out", 1, 1) ELSE Move(p, op[p], 5, 1)
  /\ UNCHANGED <<use, locked, queue, l, readers, sem, woken>>
Takes(p, q) ==
  /\ Qlocking(p, q) /\ step[p] = 2 /\ ~locked[q]
  /\ use' = [use EXCEPT ![q] = None] /\ locked' = [locked EXCEPT ![q] = TRUE]
  /\ Locked(p, q)
  /\ UNCHANGED <<queue, l, readers, sem, woken>>
Queues(p, q) ==
  /\ Qlocking(p, q) /\ step[p] = 2 /\ locked[q]
  /\ use' = [use EXCEPT ![q] = None] /\ queue' = [queue EXCEPT ![q] = Append(queue[q], p)]
  /\ Move(p, op[p], pos[p], 3)
  /\ UNCHANGED <<locked, l, readers, sem, woken>>
Wakes(p, q) ==
  /\ Waits(p, q) /\ sem[p] > 0
  /\ sem' = [sem EXCEPT ![p] = sem[p] - 1]
  /\ Locked(p, q)
  /\ UNCHANGED <<use, locked, queue, l, readers, woken>>
Passes(p, q) ==
  /\ Qunlocking(p, q) /\ step[p] = 2 /\ queue[q] # <<>>
  /\ use' = [use EXCEPT ![q] = None] /\ queue' = [queue EXCEPT ![q] = Tail(queue[q])]
  /\ woken' = [woken EXCEPT ![p] = Head(queue[q])]
  /\ Move(p, op[p], pos[p], 3)
  /\ UNCHANGED <<locked, l, readers, sem>>
Drops(p, q) ==
  /\ Qunlocking(p, q) /\ step[p] = 2 /\ queue[q] = <<>>
  /\ use' = [use EXCEPT ![q] = None] /\ locked' = [locked EXCEPT ![q] = FALSE]
  /\ Unlocked(p, q)
  /\ UNCHANGED <<queue, l, readers, sem, woken>>
Posts(p, q) ==
  /\ Qunlocking(p, q) /\ step[p] = 3
  /\ sem' = [sem EXCEPT ![woken[p]] = sem[woken[p]] + 1]
  /\ woken' = [woken EXCEPT ![p] = None]
  /\ Unlocked(p, q)
  /\ UNCHANGED <<use, locked, queue, l, readers>>
Tries(p, q) ==
  /\ Trying(p, q) /\ step[p] = 2
  /\ use' = [use EXCEPT ![q] = None] /\ locked' = [locked EXCEPT ![q] = TRUE]
  /\ IF locked[q] /\ q = "x" THEN Move(p, "out", 1, 1) ELSE Move(p, op[p], pos[p] + 1, 1)
  /\ UNCHANGED <<queue, l, readers, sem, woken>>
QStep(p, q) ==
  \/ TakesUse(p, q) \/ UseTaken(p, q) \/ Takes(p, q) \/ Queues(p, q) \/ Wakes(p, q)
  \/ Passes(p, q) \/ Drops(p, q) \/ Posts(p, q) \/ Tries(p, q)

\* A step of qlock, qunlock or canqlock is one of these.
LEMMA QSteps ==
  ASSUME Places, Types, NEW p \in Procs,
         LockUse(p) \/ Qlock(p) \/ Osblock(p) \/ Qunlock(p) \/ Osready(p)
           \/ Canqlock(p) \/ CanqlockBody(p)
  PROVE  \E q \in Locks : QStep(p, q)
<1>1. Busy(p) BY DEF LockUse, Qlock, Osblock, Qunlock, Osready, Canqlock, CanqlockBody, In
<1>2. /\ \A s : ToStep(p, s) => Move(p, op[p], pos[p], s)
      /\ \A o : Return(p, o) => Move(p, o, 1, 1)
  BY Moves
<1>3. Advance(p, 1) => \A q \in Locks :
         /\ Qlocking(p, q) => Locked(p, q)
         /\ Qunlocking(p, q) => Unlocked(p, q)
         /\ Trying(p, q) => Move(p, op[p], pos[p] + 1, 1)
  BY <1>1, LockEnds
<1>4. Lk(p) = Call(p)[2] BY DEF Lk
<1>5. ASSUME NEW n, In(p, "qlock", n) PROVE step[p] = n /\ Lk(p) \in Locks /\ Qlocking(p, Lk(p))
  BY SMT, <1>1, <1>4, <1>5, LockCalls DEF In, Locks
<1>6. ASSUME NEW n, In(p, "qunlock", n) PROVE step[p] = n /\ Lk(p) \in Locks /\ Qunlocking(p, Lk(p))
  BY SMT, <1>1, <1>4, <1>6, LockCalls DEF In, Locks
<1>7. ASSUME NEW n, In(p, "canqlock", n) PROVE step[p] = n /\ Lk(p) = "k" /\ Trying(p, Lk(p))
  BY SMT, <1>1, <1>4, <1>7, LockCalls DEF In, Locks
<1>8. ASSUME NEW n, In(p, "tryqlock", n) PROVE step[p] = n /\ Lk(p) = "x" /\ Trying(p, Lk(p))
  BY SMT, <1>1, <1>4, <1>8, LockCalls DEF In, Locks
<1>9. CASE LockUse(p)
  <2>1. step[p] = 1 /\ Lk(p) \in Locks /\ Calling(p, Lk(p))
    BY <1>5, <1>6, <1>9 DEF LockUse, Calling
  <2>2. TakesUse(p, Lk(p)) BY <1>2, <1>9, <2>1 DEF LockUse, TakesUse
  <2> QED BY <2>1, <2>2 DEF QStep
<1>10. CASE Qlock(p)
  <2>1. step[p] = 2 /\ Lk(p) \in Locks /\ Qlocking(p, Lk(p)) BY <1>5, <1>10 DEF Qlock
  <2>2. CASE ~locked[Lk(p)]
    <3>1. Takes(p, Lk(p)) BY <1>3, <1>10, <2>1, <2>2 DEF Qlock, Takes
    <3> QED BY <2>1, <3>1 DEF QStep
  <2>3. CASE locked[Lk(p)]
    <3>1. queue' = [queue EXCEPT ![Lk(p)] = Append(queue[Lk(p)], p)]
      BY <1>10, <2>1, <2>3 DEF Qlock, Types
    <3>2. Queues(p, Lk(p)) BY <1>2, <1>10, <2>1, <2>3, <3>1 DEF Qlock, Queues
    <3> QED BY <2>1, <3>2 DEF QStep
  <2> QED BY <2>2, <2>3
<1>11. CASE Osblock(p)
  <2>1. step[p] = 3 /\ Lk(p) \in Locks /\ Qlocking(p, Lk(p)) BY <1>5, <1>11 DEF Osblock
  <2>2. sem' = [sem EXCEPT ![p] = sem[p] - 1] BY <1>11 DEF Osblock, Types
  <2>3. Wakes(p, Lk(p)) BY <1>3, <1>11, <2>1, <2>2 DEF Osblock, Wakes, Waits
  <2> QED BY <2>1, <2>3 DEF QStep
<1>12. CASE Qunlock(p)
  <2>1. step[p] = 2 /\ Lk(p) \in Locks /\ Qunlocking(p, Lk(p)) BY <1>6, <1>12 DEF Qunlock
  <2>2. CASE queue[Lk(p)] # <<>>
    <3>1. queue' = [queue EXCEPT ![Lk(p)] = Tail(queue[Lk(p)])]
      BY <1>12, <2>1, <2>2 DEF Qunlock, Types
    <3>2. Passes(p, Lk(p)) BY <1>2, <1>12, <2>1, <2>2, <3>1 DEF Qunlock, Passes
    <3> QED BY <2>1, <3>2 DEF QStep
  <2>3. CASE queue[Lk(p)] = <<>>
    <3>1. Drops(p, Lk(p)) BY <1>3, <1>12, <2>1, <2>3 DEF Qunlock, Drops
    <3> QED BY <2>1, <3>1 DEF QStep
  <2> QED BY <2>2, <2>3
<1>13. CASE Osready(p)
  <2>1. step[p] = 3 /\ Lk(p) \in Locks /\ Qunlocking(p, Lk(p)) BY <1>6, <1>13 DEF Osready
  <2>2. sem' = [sem EXCEPT ![woken[p]] = sem[woken[p]] + 1] BY <1>13 DEF Osready
  <2>3. Posts(p, Lk(p)) BY <1>3, <1>13, <2>1, <2>2 DEF Osready, Posts
  <2> QED BY <2>1, <2>3 DEF QStep
<1>14. CASE Canqlock(p)
  <2>1. step[p] = 1 /\ Lk(p) \in Locks /\ Trying(p, Lk(p))
    BY <1>7, <1>8, <1>14 DEF Canqlock, Locks
  <2>2. CASE use[Lk(p)] = None
    <3>1. TakesUse(p, Lk(p)) BY <1>2, <1>14, <2>1, <2>2 DEF Canqlock, TakesUse, Calling
    <3> QED BY <2>1, <3>1 DEF QStep
  <2>3. CASE use[Lk(p)] # None
    <3>1. CASE In(p, "canqlock", 1)
      <4>1. Lk(p) = "k" /\ pos[p] = 4 /\ Advance(p, 1)
        BY <1>7, <1>14, <2>3, <3>1 DEF Canqlock, Refused, In, Trying
      <4>2. Move(p, op[p], 5, 1) BY SMT, <1>3, <2>1, <4>1
      <4>3. UseTaken(p, Lk(p)) BY <1>14, <2>1, <2>3, <4>1, <4>2 DEF UseTaken, Canqlock
      <4> QED BY <2>1, <4>3 DEF QStep
    <3>2. CASE In(p, "tryqlock", 1)
      <4>1. Lk(p) = "x" /\ Return(p, "out")
        BY <1>8, <1>14, <2>3, <3>2 DEF Canqlock, Refused, In
      <4>3. UseTaken(p, Lk(p)) BY <1>2, <1>14, <2>1, <2>3, <4>1 DEF UseTaken, Canqlock
      <4> QED BY <2>1, <4>3 DEF QStep
    <3> QED BY <1>14, <3>1, <3>2 DEF Canqlock
  <2> QED BY <2>2, <2>3
<1>15. CASE CanqlockBody(p)
  <2>1. step[p] = 2 /\ Lk(p) \in Locks /\ Trying(p, Lk(p))
    BY <1>7, <1>8, <1>15 DEF CanqlockBody, Locks
  <2>2. CASE locked[Lk(p)] /\ Lk(p) = "x"
    <3>1. Call(p)[1] = "tryqlock" BY <1>7, <1>15, <2>2 DEF CanqlockBody, In
    <3>2. Return(p, "out") BY <1>15, <2>2, <3>1 DEF CanqlockBody, Refused
    <3>3. Tries(p, Lk(p)) BY <1>2, <1>15, <2>1, <2>2, <3>2 DEF CanqlockBody, Tries
    <3> QED BY <2>1, <3>3 DEF QStep
  <2>3. CASE ~(locked[Lk(p)] /\ Lk(p) = "x")
    <3>1. Advance(p, 1)
      <4>1. locked[Lk(p)] => Call(p)[1] # "tryqlock" BY <1>8, <1>15, <2>3 DEF CanqlockBody, In
      <4> QED BY <1>15, <4>1 DEF CanqlockBody, Refused
    <3>2. Tries(p, Lk(p)) BY <1>3, <1>15, <2>1, <2>3, <3>1 DEF CanqlockBody, Tries
    <3> QED BY <2>1, <3>2 DEF QStep
  <2> QED BY <2>2, <2>3
<1> QED BY <1>9, <1>10, <1>11, <1>12, <1>13, <1>14, <1>15

----------------------------------------------------------------------------
(* What a step leaves alone.                                               *)

\* A move is a move of p only.
LEMMA Moved ==
  ASSUME Places, NEW p \in Procs, NEW o, NEW n, NEW s, Move(p, o, n, s)
  PROVE  /\ op'[p] = o /\ pos'[p] = n /\ step'[p] = s
         /\ \A r \in Procs \ {p} : op'[r] = op[r] /\ pos'[r] = pos[r] /\ step'[r] = step[r]
BY DEF Places, Move

\* For a thread that stays where it is nothing changes but its place in a queue.
LEMMA Stays ==
  ASSUME NEW r, op'[r] = op[r], pos'[r] = pos[r], step'[r] = step[r]
  PROVE  /\ Valid(r)' <=> Valid(r)
         /\ \A q : /\ Qlocking(r, q)' <=> Qlocking(r, q)
                   /\ Qunlocking(r, q)' <=> Qunlocking(r, q)
                   /\ Trying(r, q)' <=> Trying(r, q)
                   /\ Waits(r, q)' <=> Waits(r, q)
         /\ InL(r)' <=> InL(r)
         /\ Entering(r)' <=> Entering(r)
         /\ Leaving(r)' <=> Leaving(r)
         /\ Passing(r)' <=> Passing(r)
         /\ Handing(r)' <=> Handing(r)
         /\ Reads(r)' <=> Reads(r)
         /\ (Queued(r, "x")' <=> Queued(r, "x")) => (HoldsX(r)' <=> HoldsX(r))
         /\ (Queued(r, "k")' <=> Queued(r, "k")) => (HoldsK(r)' <=> HoldsK(r))
<1>1. Reader(r)' <=> Reader(r) BY DEF Reader
<1>2. \A q : /\ Qlocking(r, q)' <=> Qlocking(r, q)
             /\ Qunlocking(r, q)' <=> Qunlocking(r, q)
             /\ Trying(r, q)' <=> Trying(r, q)
  BY <1>1 DEF Qlocking, Qunlocking, Trying
<1>3. \A q : Waits(r, q)' <=> Waits(r, q) BY <1>2 DEF Waits
<1>4. Valid(r)' <=> Valid(r) BY <1>1 DEF Valid
<1>5. Handing(r)' <=> Handing(r) BY <1>2 DEF Handing
<1>6. (InL(r)' <=> InL(r)) /\ (Entering(r)' <=> Entering(r)) /\ (Reads(r)' <=> Reads(r))
  BY <1>1 DEF InL, Entering, Reads
<1>7. (Leaving(r)' <=> Leaving(r)) /\ (Passing(r)' <=> Passing(r)) BY DEF Leaving, Passing
<1>8. (Queued(r, "x")' <=> Queued(r, "x")) => (HoldsX(r)' <=> HoldsX(r))
  BY <1>1, <1>3 DEF HoldsX, Given
<1>9. (Queued(r, "k")' <=> Queued(r, "k")) => (HoldsK(r)' <=> HoldsK(r))
  BY <1>1, <1>3 DEF HoldsK, Given
<1> QED BY <1>2, <1>3, <1>4, <1>5, <1>6, <1>7, <1>8, <1>9

\* Each part of the invariant speaks of a part of the state only.
LEMMA FrameX ==
  ASSUME XInv, \A r \in Procs : HoldsX(r)' <=> HoldsX(r), locked'["x"] = locked["x"]
  PROVE  XInv'
BY DEF XInv

\* LInv: who is in the section of l->l.
LEMMA FrameL ==
  ASSUME LInv, \A r \in Procs : InL(r)' <=> InL(r), l' = l
  PROVE  LInv'
BY DEF LInv

\* ReadersHave: the count, and who enters first or leaves last.
LEMMA FrameHave ==
  ASSUME readers' = readers,
         \A r \in Procs : (Entering(r)' <=> Entering(r)) /\ (Passing(r)' <=> Passing(r))
  PROVE  ReadersHave' <=> ReadersHave
BY DEF ReadersHave

\* KInv: who has k.
LEMMA FrameK ==
  ASSUME KInv, \A r \in Procs : HoldsK(r)' <=> HoldsK(r), ReadersHave' <=> ReadersHave,
         locked'["k"] = locked["k"]
  PROVE  KInv'
BY DEF KInv

\* QueueInv: the queues and who waits.
LEMMA FrameQueue ==
  ASSUME QueueInv, Types, queue' = queue,
         \A r \in Procs, q \in Locks : Waits(r, q) => Waits(r, q)',
         \A q \in Locks : locked[q] => locked'[q]
  PROVE  QueueInv'
<1>1. \A q \in Locks : \A i \in DOMAIN queue[q] : queue[q][i] \in Procs BY SMT DEF Types
<1> QED BY <1>1 DEF QueueInv

\* PostInv: posts and those they are for.
LEMMA FramePost ==
  ASSUME PostInv, sem' = sem, woken' = woken,
         \A r \in Procs : Handing(r)' <=> Handing(r),
         \A r \in Procs : Given(r, "x") \/ Given(r, "k") <=> (Given(r, "x") \/ Given(r, "k"))'
  PROVE  PostInv'
BY DEF PostInv

\* ReadInv: the readers and their count.
LEMMA FrameRead ==
  ASSUME ReadInv, readers' = readers,
         \A r \in Procs : (Reads(r)' <=> Reads(r)) /\ (Leaving(r)' => Leaving(r))
  PROVE  ReadInv'
<1>1. {r \in Procs : Reads(r)}' = {r \in Procs : Reads(r)} BY SMT
<1>2. Counts(readers, {r \in Procs : Reads(r)})' <=> Counts(readers', {r \in Procs : Reads(r)}')
  BY DEF Counts, Numbers
<1> QED BY <1>1, <1>2 DEF ReadInv

\* Places: only the place of p has to be looked at.
LEMMA FramePlaces ==
  ASSUME Places, NEW p \in Procs, NEW o \in Ops \cup {"out", "reading", "writing"},
         NEW n \in 1..6, NEW s \in 1..3, Move(p, o, n, s), Valid(p)'
  PROVE  Places'
<1>1. /\ op' \in [Procs -> DOMAIN Code \cup {"out", "reading", "writing"}]
      /\ pos' \in [Procs -> 1..6] /\ step' \in [Procs -> 1..3]
  BY Calls DEF Places, Move
<1>2. \A r \in Procs \ {p} : Valid(r)' BY Moved, Stays DEF Places
<1> QED BY <1>1, <1>2 DEF Places

\* What is the same for p is the same for all.
LEMMA Extend ==
  ASSUME Places, NEW p \in Procs, NEW o, NEW n, NEW s, Move(p, o, n, s)
  PROVE  /\ (InL(p)' <=> InL(p)) => \A r \in Procs : InL(r)' <=> InL(r)
         /\ (Entering(p)' <=> Entering(p)) => \A r \in Procs : Entering(r)' <=> Entering(r)
         /\ (Leaving(p)' => Leaving(p)) => \A r \in Procs : Leaving(r)' => Leaving(r)
         /\ (Passing(p)' <=> Passing(p)) => \A r \in Procs : Passing(r)' <=> Passing(r)
         /\ (Handing(p)' <=> Handing(p)) => \A r \in Procs : Handing(r)' <=> Handing(r)
         /\ (Reads(p)' <=> Reads(p)) => \A r \in Procs : Reads(r)' <=> Reads(r)
         /\ queue' = queue => /\ \A r \in Procs \ {p} : HoldsX(r)' <=> HoldsX(r)
                              /\ \A r \in Procs \ {p} : HoldsK(r)' <=> HoldsK(r)
                              /\ \A r \in Procs \ {p}, q \in Locks : Given(r, q)' <=> Given(r, q)
                              /\ \A r \in Procs \ {p}, q \in Locks : Waits(r, q)' <=> Waits(r, q)
<1>1. \A r \in Procs \ {p} : op'[r] = op[r] /\ pos'[r] = pos[r] /\ step'[r] = step[r] BY Moved
<1>2. queue' = queue => \A r \in Procs, q \in Locks : Queued(r, q)' <=> Queued(r, q) BY DEF Queued
<1>3. \A r \in Procs \ {p} :
         /\ \A q : Waits(r, q)' <=> Waits(r, q)
         /\ InL(r)' <=> InL(r)
         /\ Entering(r)' <=> Entering(r)
         /\ Leaving(r)' <=> Leaving(r)
         /\ Passing(r)' <=> Passing(r)
         /\ Handing(r)' <=> Handing(r)
         /\ Reads(r)' <=> Reads(r)
         /\ (Queued(r, "x")' <=> Queued(r, "x")) => (HoldsX(r)' <=> HoldsX(r))
         /\ (Queued(r, "k")' <=> Queued(r, "k")) => (HoldsK(r)' <=> HoldsK(r))
  BY <1>1, Stays
<1>4. queue' = queue => \A r \in Procs \ {p}, q \in Locks : Given(r, q)' <=> Given(r, q)
  BY <1>2, <1>3 DEF Given
<1> QED BY <1>2, <1>3, <1>4 DEF Locks

\* A step that neither gives nor takes x or a post.
LEMMA QuietX ==
  ASSUME IInv, NEW p \in Procs, NEW o \in Ops \cup {"out", "reading", "writing"},
         NEW n \in 1..6, NEW s \in 1..3, Move(p, o, n, s), Valid(p)',
         UNCHANGED <<locked, queue, sem, woken>>,
         HoldsX(p)' <=> HoldsX(p), ~Handing(p), ~Handing(p)',
         \A q \in Locks : ~Waits(p, q) /\ ~Waits(p, q)'
  PROVE  Places' /\ XInv' /\ QueueInv' /\ PostInv'
<1>1. Places /\ Types /\ XInv /\ QueueInv /\ PostInv BY DEF IInv
<1>2. Places' BY <1>1, FramePlaces
<1>3. XInv'
  <2>1. \A r \in Procs : HoldsX(r)' <=> HoldsX(r) BY <1>1, Extend
  <2> QED BY <1>1, <2>1, FrameX
<1>4. QueueInv'
  <2>1. \A r \in Procs, q \in Locks : Waits(r, q) => Waits(r, q)' BY <1>1, Extend
  <2> QED BY <1>1, <2>1, FrameQueue
<1>5. PostInv'
  <2>1. \A r \in Procs, q \in Locks : Given(r, q)' <=> Given(r, q)
    BY <1>1, Extend DEF Given
  <2>2. \A r \in Procs : Given(r, "x") \/ Given(r, "k") <=> (Given(r, "x") \/ Given(r, "k"))'
    BY <2>1 DEF Locks
  <2>3. \A r \in Procs : Handing(r)' <=> Handing(r) BY <1>1, Extend
  <2> QED BY <1>1, <2>2, <2>3, FramePost
<1> QED BY <1>2, <1>3, <1>4, <1>5

\* A step that neither gives nor takes l.
LEMMA QuietL ==
  ASSUME Places, LInv, NEW p \in Procs, NEW o, NEW n, NEW s, Move(p, o, n, s),
         l' = l, InL(p)' <=> InL(p)
  PROVE  LInv'
<1>1. \A r \in Procs : InL(r)' <=> InL(r) BY Extend
<1> QED BY <1>1, FrameL

\* A step that does not change the readers.
LEMMA QuietR ==
  ASSUME Places, ReadInv, NEW p \in Procs, NEW o, NEW n, NEW s, Move(p, o, n, s),
         readers' = readers, Reads(p)' <=> Reads(p), Leaving(p)' => Leaving(p)
  PROVE  ReadInv'
<1>1. \A r \in Procs : (Reads(r)' <=> Reads(r)) /\ (Leaving(r)' => Leaving(r)) BY Extend
<1> QED BY <1>1, FrameRead

\* A step that neither gives nor takes k.
LEMMA QuietK ==
  ASSUME Places, KInv, NEW p \in Procs, NEW o, NEW n, NEW s, Move(p, o, n, s),
         readers' = readers, queue' = queue, locked'["k"] = locked["k"],
         HoldsK(p)' <=> HoldsK(p), Entering(p)' <=> Entering(p), Passing(p)' <=> Passing(p)
  PROVE  KInv'
<1>1. \A r \in Procs : HoldsK(r)' <=> HoldsK(r) BY Extend
<1>2. \A r \in Procs : (Entering(r)' <=> Entering(r)) /\ (Passing(r)' <=> Passing(r)) BY Extend
<1>3. ReadersHave' <=> ReadersHave BY <1>2, FrameHave
<1> QED BY <1>1, <1>3, FrameK

\* The calls of the others, and that of p.
LEMMA CallsStay ==
  ASSUME Places, NEW p \in Procs, NEW o, NEW n, NEW s, Move(p, o, n, s)
  PROVE  /\ op'[p] = o /\ pos'[p] = n /\ step'[p] = s
         /\ \A r \in Procs \ {p} : step'[r] = step[r]
         /\ \A r \in Procs \ {p}, q \in Locks : Calling(r, q)' <=> Calling(r, q)
         /\ \A q1, q2 \in Locks : Calling(p, q1) /\ Calling(p, q2) => q1 = q2
<1>1. /\ op'[p] = o /\ pos'[p] = n /\ step'[p] = s
      /\ \A r \in Procs \ {p} : op'[r] = op[r] /\ pos'[r] = pos[r] /\ step'[r] = step[r]
  BY Moved
<1>2. \A r \in Procs \ {p}, q \in Locks : Calling(r, q)' <=> Calling(r, q)
  BY <1>1, Stays DEF Calling
<1>3. \A q1, q2 \in Locks : Calling(p, q1) /\ Calling(p, q2) => q1 = q2
  BY SMT DEF Calling, Qlocking, Qunlocking, Trying, Reader
<1> QED BY <1>1, <1>2, <1>3

\* UseInv for a step that leaves q->use alone.
LEMMA FrameUse ==
  ASSUME Places, UseInv, NEW p \in Procs, NEW o, NEW n, NEW s, Move(p, o, n, s),
         use' = use, s # 2, step[p] # 2
  PROVE  UseInv'
BY SMT, CallsStay DEF UseInv

\* UseInv for lock(&q->use).
LEMMA UseLocked ==
  ASSUME Places, Types, UseInv, NEW p \in Procs, NEW q \in Locks, Calling(p, q),
         Move(p, op[p], pos[p], 2), step[p] # 2, use[q] = None, use' = [use EXCEPT ![q] = p]
  PROVE  UseInv'
<1>1. /\ op'[p] = op[p] /\ pos'[p] = pos[p] /\ step'[p] = 2
      /\ \A r \in Procs \ {p} : step'[r] = step[r]
      /\ \A r \in Procs \ {p}, q1 \in Locks : Calling(r, q1)' <=> Calling(r, q1)
      /\ \A q1, q2 \in Locks : Calling(p, q1) /\ Calling(p, q2) => q1 = q2
  BY CallsStay
<1>2. \A q1 \in Locks : Calling(p, q1)' <=> Calling(p, q1)
  BY <1>1 DEF Calling, Qlocking, Qunlocking, Trying, Reader
<1>3. \A q1 \in Locks : use'[q1] = IF q1 = q THEN p ELSE use[q1] BY DEF Types
<1>4. ASSUME NEW r \in Procs \ {p}, NEW q1 \in Locks
      PROVE  use'[q1] = r <=> step'[r] = 2 /\ Calling(r, q1)'
  BY SMT, <1>1, <1>3, QLocksAssumption DEF UseInv
<1>5. ASSUME NEW q1 \in Locks
      PROVE  use'[q1] = p <=> step'[p] = 2 /\ Calling(p, q1)'
  BY SMT, <1>1, <1>2, <1>3 DEF UseInv
<1> QED BY SMT, <1>4, <1>5 DEF UseInv

\* UseInv for unlock(&q->use).
LEMMA UseUnlocked ==
  ASSUME Places, Types, UseInv, NEW p \in Procs, NEW q \in Locks, Calling(p, q),
         NEW o, NEW n, NEW s, Move(p, o, n, s), step[p] = 2, s # 2,
         use' = [use EXCEPT ![q] = None]
  PROVE  UseInv'
<1>1. /\ op'[p] = o /\ pos'[p] = n /\ step'[p] = s
      /\ \A r \in Procs \ {p} : step'[r] = step[r]
      /\ \A r \in Procs \ {p}, q1 \in Locks : Calling(r, q1)' <=> Calling(r, q1)
      /\ \A q1, q2 \in Locks : Calling(p, q1) /\ Calling(p, q2) => q1 = q2
  BY CallsStay
<1>2. \A q1 \in Locks : use'[q1] = IF q1 = q THEN None ELSE use[q1] BY DEF Types
<1>3. use[q] = p BY DEF UseInv
<1>4. ASSUME NEW r \in Procs \ {p}, NEW q1 \in Locks
      PROVE  use'[q1] = r <=> step'[r] = 2 /\ Calling(r, q1)'
  BY SMT, <1>1, <1>2, <1>3, QLocksAssumption DEF UseInv
<1>5. ASSUME NEW q1 \in Locks
      PROVE  use'[q1] = p <=> step'[p] = 2 /\ Calling(p, q1)'
  <2>1. use[q1] = p => q1 = q BY <1>1 DEF UseInv
  <2> QED BY SMT, <1>1, <1>2, <2>1, QLocksAssumption
<1> QED BY SMT, <1>4, <1>5 DEF UseInv

----------------------------------------------------------------------------
(* One lemma for every kind of step.                                       *)

\* Taking q->use moves nothing.
LEMMA StepTakesUse ==
  ASSUME IInv, NEW p \in Procs, NEW q \in Locks, TakesUse(p, q)
  PROVE  IInv'
<1>1. Places /\ Types /\ UseInv /\ Valid(p) /\ op[p] \in Ops \cup {"out", "reading", "writing"} /\ pos[p] \in 1..6
  BY Calls DEF IInv, Places
<1>2. Move(p, op[p], pos[p], 2) /\ step[p] = 1 /\ Calling(p, q) BY DEF TakesUse
<1>3. op'[p] = op[p] /\ pos'[p] = pos[p] /\ step'[p] = 2 BY SMT, <1>1, <1>2, Moved
<1>4. UseInv'
  <2>1. use[q] = None /\ use' = [use EXCEPT ![q] = p] BY DEF TakesUse
  <2>2. step[p] # 2 BY SMT, <1>2
  <2> QED BY <1>1, <1>2, <2>1, <2>2, UseLocked
<1>5. Types' BY <1>1 DEF Types, TakesUse
<1>6. Valid(p)'
  BY SMT, <1>1, <1>2, <1>3 DEF Valid, Calling, Qlocking, Qunlocking, Trying, Reader
<1>7. /\ ~Handing(p) /\ ~Handing(p)'
      /\ \A r \in Locks : ~Waits(p, r) /\ ~Waits(p, r)'
  BY SMT, <1>2, <1>3 DEF Handing, Waits
<1>8. /\ HoldsX(p)' <=> HoldsX(p)
      /\ HoldsK(p)' <=> HoldsK(p)
  BY SMT, <1>2, <1>3, <1>7 DEF HoldsX, HoldsK, Given, Reader, Locks
<1>9. /\ InL(p)' <=> InL(p)
      /\ Entering(p)' <=> Entering(p)
      /\ Leaving(p)' <=> Leaving(p)
      /\ Passing(p)' <=> Passing(p)
      /\ Reads(p)' <=> Reads(p)
  BY SMT, <1>2, <1>3 DEF InL, Entering, Leaving, Passing, Reads, Reader
<1>10. UNCHANGED <<locked, queue, l, readers, sem, woken>> BY DEF TakesUse
<1>11. Places' /\ XInv' /\ QueueInv' /\ PostInv' BY SMT, <1>1, <1>2, <1>6, <1>7, <1>8, <1>10, QuietX
<1>12. LInv' BY <1>1, <1>2, <1>9, <1>10, QuietL DEF IInv
<1>13. ReadInv' BY <1>1, <1>2, <1>9, <1>10, QuietR DEF IInv
<1>14. KInv' BY <1>1, <1>2, <1>8, <1>9, <1>10, QuietK DEF IInv
<1> QED BY <1>4, <1>5, <1>11, <1>12, <1>13, <1>14 DEF IInv

\* A caller starts an operation.
LEMMA StepStart ==
  ASSUME IInv, NEW p \in Procs, Start(p)
  PROVE  IInv'
<1>1. Places /\ Types /\ UseInv /\ Valid(p) BY DEF IInv, Places
<1>2. PICK o \in Ops :
        /\ Move(p, o, 1, 1)
        /\ \/ op[p] = "out" /\ o \in {"rlock", "canrlock", "wlock"}
           \/ op[p] = "reading" /\ o = "runlock"
           \/ op[p] = "writing" /\ o = "wunlock"
  BY <1>1, Moves DEF Start, Ops
<1>3. step[p] = 1 /\ pos[p] = 1 BY <1>1, <1>2 DEF Valid, Reader
<1>4. op'[p] = o /\ pos'[p] = 1 /\ step'[p] = 1 BY SMT, <1>1, <1>2, Moved
<1>5. UseInv' BY SMT, <1>1, <1>2, <1>3, FrameUse DEF Start
<1>6. Types' BY <1>1 DEF Types, Start
<1>7. Valid(p)' BY SMT, <1>2, <1>4 DEF Valid, Reader
<1>8. /\ ~Handing(p) /\ ~Handing(p)'
      /\ \A r \in Locks : ~Waits(p, r) /\ ~Waits(p, r)'
  BY SMT, <1>3, <1>4 DEF Handing, Waits
<1>9. /\ HoldsX(p)' <=> HoldsX(p)
      /\ HoldsK(p)' <=> HoldsK(p)
  BY SMT, <1>2, <1>3, <1>4, <1>8 DEF HoldsX, HoldsK, Given, Reader, Locks
<1>10. /\ InL(p)' <=> InL(p)
       /\ Entering(p)' <=> Entering(p)
       /\ Leaving(p)' <=> Leaving(p)
       /\ Passing(p)' <=> Passing(p)
       /\ Reads(p)' <=> Reads(p)
  BY SMT, <1>2, <1>3, <1>4 DEF InL, Entering, Leaving, Passing, Reads, Reader
<1>11. UNCHANGED <<locked, queue, l, readers, sem, woken>> BY DEF Start
<1>12. Places' /\ XInv' /\ QueueInv' /\ PostInv' BY SMT, <1>2, <1>7, <1>8, <1>9, <1>11, QuietX
<1>13. LInv' BY <1>1, <1>2, <1>10, <1>11, QuietL DEF IInv
<1>14. ReadInv' BY <1>1, <1>2, <1>10, <1>11, QuietR DEF IInv
<1>15. KInv' BY <1>1, <1>2, <1>9, <1>10, <1>11, QuietK DEF IInv
<1> QED BY <1>5, <1>6, <1>12, <1>13, <1>14, <1>15 DEF IInv

\* canqlock finds q->use taken: only canrlock can, for the entering reader has
\* x and l, and whoever has k->use needs one of them.
LEMMA StepUseTaken ==
  ASSUME IInv, NEW p \in Procs, NEW q \in Locks, UseTaken(p, q)
  PROVE  IInv'
<1>1. Places /\ Types /\ UseInv /\ XInv /\ LInv BY DEF IInv
<1>2. q = "x"
  <2> SUFFICES ASSUME q = "k" PROVE FALSE BY DEF Locks
  <2>1. Reader(p) /\ pos[p] = 4 /\ step[p] = 1 BY DEF UseTaken, Trying
  <2>2. HoldsX(p) /\ InL(p) BY SMT, <2>1 DEF HoldsX, InL
  <2>3. PICK r \in Procs : use["k"] = r BY <1>1 DEF UseTaken, Types
  <2>4. step[r] = 2 /\ Calling(r, "k") BY <1>1, <2>3 DEF UseInv, Locks
  <2>5. HoldsX(r) \/ InL(r)
    BY SMT, <2>4 DEF Calling, Qlocking, Qunlocking, Trying, HoldsX, InL
  <2>6. r = p BY <1>1, <2>2, <2>5 DEF XInv, LInv
  <2> QED BY SMT, <2>1, <2>4, <2>6
<1>3. op[p] = "canrlock" /\ pos[p] = 1 /\ step[p] = 1 /\ Move(p, "out", 1, 1)
  BY <1>2 DEF UseTaken, Trying
<1>4. op'[p] = "out" /\ pos'[p] = 1 /\ step'[p] = 1 BY SMT, <1>1, <1>3, Moved
<1>5. UseInv' BY SMT, <1>1, <1>3, FrameUse DEF UseTaken
<1>6. Types' BY <1>1 DEF Types, UseTaken
<1>7. Valid(p)' BY <1>4 DEF Valid
<1>8. /\ ~Handing(p) /\ ~Handing(p)'
      /\ \A r \in Locks : ~Waits(p, r) /\ ~Waits(p, r)'
  BY SMT, <1>3, <1>4 DEF Handing, Waits
<1>9. /\ HoldsX(p)' <=> HoldsX(p)
      /\ HoldsK(p)' <=> HoldsK(p)
  BY SMT, <1>3, <1>4, <1>8 DEF HoldsX, HoldsK, Given, Reader, Locks
<1>10. /\ InL(p)' <=> InL(p)
       /\ Entering(p)' <=> Entering(p)
       /\ Leaving(p)' <=> Leaving(p)
       /\ Passing(p)' <=> Passing(p)
       /\ Reads(p)' <=> Reads(p)
  BY SMT, <1>3, <1>4 DEF InL, Entering, Leaving, Passing, Reads, Reader
<1>11. UNCHANGED <<locked, queue, l, readers, sem, woken>> BY DEF UseTaken
<1>12. Places' /\ XInv' /\ QueueInv' /\ PostInv' BY SMT, <1>3, <1>7, <1>8, <1>9, <1>11, QuietX
<1>13. LInv' BY <1>1, <1>3, <1>10, <1>11, QuietL DEF IInv
<1>14. ReadInv' BY <1>1, <1>3, <1>10, <1>11, QuietR DEF IInv
<1>15. KInv' BY <1>1, <1>3, <1>9, <1>10, <1>11, QuietK DEF IInv
<1> QED BY <1>5, <1>6, <1>12, <1>13, <1>14, <1>15 DEF IInv

\* lock(&l->l)
LEMMA StepLockL ==
  ASSUME IInv, NEW p \in Procs, LockL(p)
  PROVE  IInv'
<1>1. Places /\ Types /\ UseInv /\ LInv BY DEF IInv
<1>2. Busy(p) /\ Call(p)[1] = "lock" /\ step[p] = 1 BY DEF LockL, In
<1>3. \/ Reader(p) /\ pos[p] = 2
      \/ op[p] = "runlock" /\ pos[p] = 1
  BY SMT, <1>1, <1>2, LockCalls
<1>4. /\ Move(p, op[p], pos[p] + 1, 1)
      /\ op[p] \in Ops /\ pos[p] + 1 \in 1..6
  <2>1. pos[p] + 1 <= Len(Code[op[p]]) BY SMTT(30), <1>3, Calls DEF Reader
  <2>2. Move(p, op[p], pos[p] + 1, 1) BY SMT, <1>1, <1>2, <2>1, Advances DEF LockL
  <2> QED BY SMT, <1>3, <2>2 DEF Reader, Ops
<1>5. op'[p] = op[p] /\ pos'[p] = pos[p] + 1 /\ step'[p] = 1 BY SMT, <1>1, <1>4, Moved
<1>6. UNCHANGED <<use, locked, queue, readers, sem, woken>> /\ l = None /\ l' = p BY DEF LockL
<1>7. UseInv' BY SMT, <1>1, <1>2, <1>4, <1>6, FrameUse
<1>8. Types' BY <1>1, <1>6 DEF Types
<1>9. Valid(p)' BY SMT, <1>3, <1>5 DEF Valid, Reader
<1>10. /\ ~Handing(p) /\ ~Handing(p)'
       /\ \A r \in Locks : ~Waits(p, r) /\ ~Waits(p, r)'
  BY SMT, <1>2, <1>5 DEF Handing, Waits
<1>11. HoldsX(p)' <=> HoldsX(p)
  BY SMT, <1>2, <1>3, <1>5, <1>10 DEF HoldsX, Given, Reader, Locks
<1>12. /\ HoldsK(p)' <=> HoldsK(p)
       /\ Entering(p)' <=> Entering(p)
       /\ Leaving(p)' <=> Leaving(p)
       /\ Passing(p)' <=> Passing(p)
       /\ Reads(p)' <=> Reads(p)
  BY SMT, <1>2, <1>3, <1>5, <1>10 DEF HoldsK, Given, Entering, Leaving, Passing, Reads, Reader, Locks
<1>13. LInv'
  <2>1. InL(p)' BY SMT, <1>3, <1>5 DEF InL, Reader
  <2>2. \A r \in Procs \ {p} : ~InL(r)'
    <3>1. \A r \in Procs \ {p} : InL(r)' <=> InL(r) BY <1>1, <1>4, Moved, Stays
    <3> QED BY <1>1, <1>6, <3>1, QLocksAssumption DEF LInv
  <2> QED BY <1>6, <2>1, <2>2 DEF LInv
<1>14. Places' /\ XInv' /\ QueueInv' /\ PostInv' BY SMT, <1>4, <1>6, <1>9, <1>10, <1>11, QuietX
<1>15. ReadInv' BY <1>1, <1>4, <1>6, <1>12, QuietR DEF IInv
<1>16. KInv' BY <1>1, <1>4, <1>6, <1>12, QuietK DEF IInv
<1> QED BY <1>7, <1>8, <1>13, <1>14, <1>15, <1>16 DEF IInv

\* unlock(&l->l)
LEMMA StepUnlockL ==
  ASSUME IInv, NEW p \in Procs, UnlockL(p)
  PROVE  IInv'
<1>1. Places /\ Types /\ UseInv /\ LInv BY DEF IInv
<1>2. Busy(p) /\ Call(p)[1] = "unlock" /\ step[p] = 1 BY DEF UnlockL, In
<1>3. \/ Reader(p) /\ pos[p] = 5
      \/ op[p] = "runlock" /\ pos[p] = 4
  BY SMT, <1>1, <1>2, LockCalls
<1>4. PICK o \in Ops \cup {"out"}, n \in {1, 6} :
        /\ Move(p, o, n, 1)
        /\ \/ Reader(p) /\ o = op[p] /\ n = 6
           \/ op[p] = "runlock" /\ o = "out" /\ n = 1
  <2>1. CASE Reader(p) /\ pos[p] = 5
    <3>1. pos[p] + 1 <= Len(Code[op[p]]) BY SMT, <2>1, Calls DEF Reader
    <3>2. Move(p, op[p], 6, 1) BY SMT, <1>1, <1>2, <2>1, <3>1, Advances DEF UnlockL
    <3>3. op[p] \in Ops BY <2>1 DEF Reader, Ops
    <3> QED BY <2>1, <3>2, <3>3
  <2>2. CASE op[p] = "runlock" /\ pos[p] = 4
    <3>1. pos[p] + 1 > Len(Code[op[p]]) /\ After[op[p]] = "out" BY SMT, <2>2, Calls
    <3>2. Move(p, "out", 1, 1) BY SMT, <1>1, <1>2, <3>1, Advances DEF UnlockL
    <3> QED BY <2>2, <3>2
  <2> QED BY <1>3, <2>1, <2>2
<1>5. op'[p] = o /\ pos'[p] = n /\ step'[p] = 1 BY SMT, <1>1, <1>4, Moved
<1>6. UNCHANGED <<use, locked, queue, readers, sem, woken>> /\ l' = None BY DEF UnlockL
<1>7. UseInv' BY SMT, <1>1, <1>2, <1>4, <1>6, FrameUse
<1>8. Types' BY <1>1, <1>6 DEF Types
<1>9. Valid(p)' BY SMT, <1>3, <1>4, <1>5 DEF Valid, Reader
<1>10. /\ ~Handing(p) /\ ~Handing(p)'
       /\ \A r \in Locks : ~Waits(p, r) /\ ~Waits(p, r)'
  BY SMT, <1>2, <1>5 DEF Handing, Waits
<1>11. HoldsX(p)' <=> HoldsX(p)
  BY SMT, <1>2, <1>3, <1>4, <1>5, <1>10 DEF HoldsX, Given, Reader, Locks
<1>12. /\ HoldsK(p)' <=> HoldsK(p)
       /\ Entering(p)' <=> Entering(p)
       /\ Leaving(p)' <=> Leaving(p)
       /\ Passing(p)' <=> Passing(p)
       /\ Reads(p)' <=> Reads(p)
  BY SMT, <1>2, <1>3, <1>4, <1>5, <1>10 DEF HoldsK, Given, Entering, Leaving, Passing, Reads, Reader, Locks
<1>13. LInv'
  <2>1. InL(p) /\ ~InL(p)' BY SMT, <1>3, <1>4, <1>5 DEF InL, Reader
  <2>2. \A r \in Procs \ {p} : ~InL(r)'
    <3>1. \A r \in Procs \ {p} : InL(r)' <=> InL(r) BY <1>1, <1>4, Moved, Stays
    <3> QED BY <1>1, <2>1, <3>1 DEF LInv
  <2> QED BY <1>6, <2>1, <2>2, QLocksAssumption DEF LInv
<1>14. Places' /\ XInv' /\ QueueInv' /\ PostInv' BY SMT, <1>4, <1>6, <1>9, <1>10, <1>11, QuietX
<1>15. ReadInv' BY <1>1, <1>4, <1>6, <1>12, QuietR DEF IInv
<1>16. KInv' BY <1>1, <1>4, <1>6, <1>12, QuietK DEF IInv
<1> QED BY <1>7, <1>8, <1>13, <1>14, <1>15, <1>16 DEF IInv

\* Who has k as a writer has x.
LEMMA KHolder ==
  ASSUME NEW r, HoldsK(r)
  PROVE  HoldsX(r)
BY DEF HoldsK, HoldsX, Given, Waits, Qlocking

\* Queues and posts for a step of a thread that neither waits nor hands over.
LEMMA QuietP ==
  ASSUME Places, Types, QueueInv, PostInv, NEW p \in Procs, NEW o, NEW n, NEW s,
         Move(p, o, n, s), UNCHANGED <<queue, sem, woken>>,
         \A q \in Locks : locked[q] => locked'[q], ~Handing(p), ~Handing(p)',
         \A q \in Locks : ~Waits(p, q) /\ ~Waits(p, q)'
  PROVE  QueueInv' /\ PostInv'
<1>1. QueueInv'
  <2>1. \A r \in Procs, q \in Locks : Waits(r, q) => Waits(r, q)' BY Extend
  <2> QED BY <2>1, FrameQueue
<1>2. PostInv'
  <2>1. \A r \in Procs, q \in Locks : Given(r, q)' <=> Given(r, q) BY Extend DEF Given
  <2>2. \A r \in Procs : Given(r, "x") \/ Given(r, "k") <=> (Given(r, "x") \/ Given(r, "k"))'
    BY <2>1 DEF Locks
  <2>3. \A r \in Procs : Handing(r)' <=> Handing(r) BY Extend
  <2> QED BY <2>2, <2>3, FramePost
<1> QED BY <1>1, <1>2

\* XInv for a step of p that is not about x.
LEMMA SameX ==
  ASSUME Places, XInv, NEW p \in Procs, NEW o, NEW n, NEW s, Move(p, o, n, s),
         queue' = queue, locked'["x"] = locked["x"], HoldsX(p)' <=> HoldsX(p)
  PROVE  XInv'
<1>1. \A r \in Procs : HoldsX(r)' <=> HoldsX(r) BY Extend
<1> QED BY <1>1, FrameX

\* p takes a free x.
LEMMA TakenX ==
  ASSUME Places, XInv, NEW p \in Procs, NEW o, NEW n, NEW s, Move(p, o, n, s),
         queue' = queue, ~locked["x"], locked'["x"], HoldsX(p)'
  PROVE  XInv'
<1>1. \A r \in Procs \ {p} : HoldsX(r)' <=> HoldsX(r) BY Extend
<1>2. \A r \in Procs : ~HoldsX(r) BY DEF XInv
<1> QED BY <1>1, <1>2 DEF XInv

\* qlock of a free lock.
LEMMA StepTakes ==
  ASSUME IInv, NEW p \in Procs, NEW q \in Locks, Takes(p, q)
  PROVE  IInv'
<1>1. Places /\ Types /\ XInv /\ LInv /\ UseInv /\ QueueInv /\ PostInv /\ ReadInv /\ KInv
  BY DEF IInv
<1>2. /\ Qlocking(p, q) /\ step[p] = 2 /\ ~locked[q]
      /\ use' = [use EXCEPT ![q] = None] /\ locked' = [locked EXCEPT ![q] = TRUE]
      /\ Locked(p, q)
      /\ UNCHANGED <<queue, l, readers, sem, woken>>
  BY DEF Takes
<1>3. PICK o \in {"rlock", "wlock", "writing"}, n \in 1..2 :
        /\ Move(p, o, n, 1)
        /\ \/ q = "x" /\ op[p] \in {"rlock", "wlock"} /\ pos[p] = 1 /\ o = op[p] /\ n = 2
           \/ q = "k" /\ op[p] = "wlock" /\ pos[p] = 2 /\ o = "writing" /\ n = 1
  BY SMT, <1>2 DEF Qlocking, Locked
<1>4. op'[p] = o /\ pos'[p] = n /\ step'[p] = 1 BY SMT, <1>1, <1>3, Moved
<1>5. UseInv'
  <2>1. Calling(p, q) /\ 1 # 2 BY SMT, <1>2 DEF Calling
  <2> QED BY <1>1, <1>2, <1>3, <2>1, UseUnlocked
<1>6. Types' BY <1>1, <1>2 DEF Types
<1>7. Places'
  <2>1. Valid(p)' BY SMT, <1>3, <1>4 DEF Valid, Reader
  <2>2. o \in Ops \cup {"out", "reading", "writing"} BY DEF Ops
  <2> QED BY SMT, <1>1, <1>3, <2>1, <2>2, FramePlaces
<1>8. /\ ~Handing(p) /\ ~Handing(p)'
      /\ \A r \in Locks : ~Waits(p, r) /\ ~Waits(p, r)'
  BY SMT, <1>2, <1>4 DEF Handing, Waits
<1>9. /\ \A r \in Locks : r # q => locked'[r] = locked[r]
      /\ locked'[q]
  <2>1. DOMAIN locked = Locks BY <1>1 DEF Types
  <2>2. locked'[q] = TRUE BY <1>2, <2>1
  <2>3. \A r \in Locks : r # q => locked'[r] = locked[r] BY <1>2, <2>1
  <2> QED BY <2>2, <2>3
<1>a. queue' = queue /\ readers' = readers /\ Move(p, o, n, 1) BY <1>2, <1>3
<1>10. QueueInv' /\ PostInv'
  <2>1. \A r \in Locks : locked[r] => locked'[r] BY <1>9
  <2> QED BY <1>1, <1>2, <1>3, <1>8, <2>1, QuietP
<1>11. /\ ~InL(p) /\ ~InL(p)' /\ ~Entering(p) /\ ~Entering(p)' /\ ~Leaving(p) /\ ~Leaving(p)'
       /\ ~Reads(p) /\ ~Reads(p)'
  BY SMT, <1>3, <1>4 DEF InL, Entering, Leaving, Reads, Reader
<1>12. ~Passing(p) /\ ~Passing(p)' BY <1>11 DEF Passing
<1>13. LInv' BY <1>1, <1>2, <1>3, <1>11, QuietL
<1>14. ReadInv' BY <1>1, <1>2, <1>3, <1>11, QuietR
<1>15. XInv' /\ KInv'
  <2>1. CASE q = "x"
    <3>1. op'[p] = op[p] /\ op[p] \in {"rlock", "wlock"} /\ pos[p] = 1 /\ pos'[p] = 2
      BY <1>3, <1>4, <2>1
    <3>2. HoldsX(p)' BY SMT, <3>1 DEF HoldsX, Reader
    <3>3. locked'["k"] = locked["k"] /\ locked'["x"] BY <1>9, <2>1 DEF Locks
    <3>4. XInv' BY <1>1, <1>2, <1>3, <2>1, <3>2, <3>3, TakenX
    <3>5. ~HoldsK(p) /\ ~HoldsK(p)' BY <1>8, <3>1 DEF HoldsK, Given, Locks
    <3>6. KInv' BY <1>1, <1>a, <1>11, <1>12, <3>3, <3>5, QuietK
    <3> QED BY <3>4, <3>6
  <2>2. CASE q = "k"
    <3>1. op'[p] = "writing" /\ op[p] = "wlock" /\ pos[p] = 2 BY <1>3, <1>4, <2>2
    <3>2. HoldsX(p) /\ HoldsX(p)' /\ HoldsK(p)' BY <3>1 DEF HoldsX, HoldsK
    <3>3. locked'["x"] = locked["x"] /\ locked'["k"] BY <1>9, <2>2 DEF Locks
    <3>4. XInv' BY <1>1, <1>a, <3>2, <3>3, SameX
    <3>5. \A r \in Procs : (Entering(r)' <=> Entering(r)) /\ (Passing(r)' <=> Passing(r))
      BY <1>1, <1>3, <1>11, <1>12, Extend
    <3>6. ReadersHave' <=> ReadersHave BY <1>2, <3>5, FrameHave
    <3>7. ~ReadersHave BY <1>1, <1>2, <2>2 DEF KInv
    <3>8. KInv' BY <3>2, <3>3, <3>6, <3>7 DEF KInv
    <3> QED BY <3>4, <3>8
  <2> QED BY <2>1, <2>2 DEF Locks
<1> QED BY <1>5, <1>6, <1>7, <1>10, <1>13, <1>14, <1>15 DEF IInv

\* canqlock, once it has the spin lock.  For k it is the first reader who
\* succeeds, the others find it locked already.
LEMMA StepTries ==
  ASSUME IInv, NEW p \in Procs, NEW q \in Locks, Tries(p, q), Reads(p) => readers > 0
  PROVE  IInv'
<1>1. Places /\ Types /\ XInv /\ LInv /\ UseInv /\ QueueInv /\ PostInv /\ ReadInv /\ KInv
  BY DEF IInv
<1>2. /\ Trying(p, q) /\ step[p] = 2
      /\ use' = [use EXCEPT ![q] = None] /\ locked' = [locked EXCEPT ![q] = TRUE]
      /\ UNCHANGED <<queue, l, readers, sem, woken>>
  BY DEF Tries
<1>3. PICK o \in {"out", "rlock", "canrlock"}, n \in {1, 2, 5} :
        /\ Move(p, o, n, 1)
        /\ \/ q = "x" /\ op[p] = "canrlock" /\ pos[p] = 1 /\ locked[q] /\ o = "out" /\ n = 1
           \/ q = "x" /\ op[p] = "canrlock" /\ pos[p] = 1 /\ ~locked[q] /\ o = "canrlock" /\ n = 2
           \/ q = "k" /\ Reader(p) /\ pos[p] = 4 /\ o = op[p] /\ n = 5
  <2>1. CASE q = "x" /\ locked[q]
    <3>1. Move(p, "out", 1, 1) BY <2>1 DEF Tries
    <3> QED BY <1>2, <2>1, <3>1 DEF Trying
  <2>2. CASE q = "x" /\ ~locked[q]
    <3>1. op[p] = "canrlock" /\ pos[p] = 1 BY <1>2, <2>2 DEF Trying
    <3>2. Move(p, op[p], pos[p] + 1, 1) BY <2>2 DEF Tries
    <3>3. Move(p, "canrlock", 2, 1) BY SMT, <3>1, <3>2
    <3> QED BY <2>2, <3>1, <3>3
  <2>3. CASE q = "k"
    <3>1. Reader(p) /\ pos[p] = 4 BY <1>2, <2>3 DEF Trying
    <3>2. Move(p, op[p], pos[p] + 1, 1) BY <2>3 DEF Tries
    <3>3. Move(p, op[p], 5, 1) BY SMT, <3>1, <3>2
    <3>4. op[p] \in {"out", "rlock", "canrlock"} BY <3>1 DEF Reader
    <3> QED BY <2>3, <3>1, <3>3, <3>4
  <2> QED BY <2>1, <2>2, <2>3 DEF Locks
<1>4. op'[p] = o /\ pos'[p] = n /\ step'[p] = 1 BY SMT, <1>1, <1>3, Moved
<1>5. UseInv'
  <2>1. Calling(p, q) /\ 1 # 2 BY SMT, <1>2 DEF Calling
  <2> QED BY <1>1, <1>2, <1>3, <2>1, UseUnlocked
<1>6. Types' BY <1>1, <1>2 DEF Types
<1>7. Places'
  <2>1. Valid(p)' BY <1>3, <1>4 DEF Valid, Reader
  <2>2. o \in Ops \cup {"out", "reading", "writing"} BY DEF Ops
  <2> QED BY SMT, <1>1, <1>3, <2>1, <2>2, FramePlaces
<1>8. /\ ~Handing(p) /\ ~Handing(p)'
      /\ \A r \in Locks : ~Waits(p, r) /\ ~Waits(p, r)'
  BY SMT, <1>2, <1>4 DEF Handing, Waits
<1>9. /\ \A r \in Locks : r # q => locked'[r] = locked[r]
      /\ locked'[q]
  <2>1. DOMAIN locked = Locks BY <1>1 DEF Types
  <2>2. locked'[q] = TRUE BY <1>2, <2>1
  <2>3. \A r \in Locks : r # q => locked'[r] = locked[r] BY <1>2, <2>1
  <2> QED BY <2>2, <2>3
<1>a. queue' = queue /\ readers' = readers /\ Move(p, o, n, 1) BY <1>2, <1>3
<1>10. QueueInv' /\ PostInv'
  <2>1. \A r \in Locks : locked[r] => locked'[r] BY <1>9
  <2> QED BY <1>1, <1>2, <1>3, <1>8, <2>1, QuietP
<1>11. /\ InL(p) <=> InL(p)'
       /\ ~Leaving(p) /\ ~Leaving(p)'
       /\ Reads(p) <=> Reads(p)'
  BY SMT, <1>3, <1>4 DEF InL, Leaving, Reads, Reader
<1>12. ~Passing(p) /\ ~Passing(p)' BY <1>11 DEF Passing
<1>13. LInv' BY <1>1, <1>2, <1>3, <1>11, QuietL
<1>14. ReadInv' BY <1>1, <1>2, <1>3, <1>11, QuietR
<1>15. ~HoldsK(p) /\ ~HoldsK(p)'
  BY <1>3, <1>4, <1>8 DEF HoldsK, Given, Reader, Locks
<1>16. XInv' /\ KInv'
  <2>1. CASE q = "x"
    <3>1. op[p] = "canrlock" /\ pos[p] = 1 BY <1>3, <2>1
    <3>2. ~HoldsX(p) BY SMT, <1>8, <3>1 DEF HoldsX, Given, Reader, Locks
    <3>3. locked'["k"] = locked["k"] /\ locked'["x"] BY <1>9, <2>1 DEF Locks
    <3>4. ~Entering(p) /\ ~Entering(p)' BY SMT, <1>3, <1>4, <2>1, <3>1 DEF Entering, Reader
    <3>5. KInv' BY <1>1, <1>a, <1>12, <1>15, <3>3, <3>4, QuietK
    <3>6. XInv'
      <4>1. CASE locked["x"]
        <5>1. ~HoldsX(p)' BY <1>3, <1>4, <1>8, <2>1, <4>1 DEF HoldsX, Given, Reader, Locks
        <5>2. locked'["x"] = locked["x"] BY <1>1, <3>3, <4>1, <1>6 DEF Types, Locks
        <5> QED BY <1>1, <1>a, <3>2, <5>1, <5>2, SameX
      <4>2. CASE ~locked["x"]
        <5>1. HoldsX(p)' BY SMT, <1>3, <1>4, <2>1, <4>2 DEF HoldsX, Reader
        <5> QED BY <1>1, <1>2, <1>3, <3>3, <4>2, <5>1, TakenX
      <4> QED BY <4>1, <4>2
    <3> QED BY <3>5, <3>6
  <2>2. CASE q = "k"
    <3>1. Reader(p) /\ pos[p] = 4 /\ op'[p] = op[p] /\ pos'[p] = 5 BY <1>3, <1>4, <2>2
    <3>2. HoldsX(p) /\ HoldsX(p)' /\ InL(p)' /\ Reads(p) /\ ~Entering(p)'
      BY SMT, <3>1 DEF HoldsX, InL, Reads, Entering, Reader
    <3>3. locked'["x"] = locked["x"] /\ locked'["k"] BY <1>9, <2>2 DEF Locks
    <3>4. XInv' BY <1>1, <1>a, <3>2, <3>3, SameX
    <3>5. \A r \in Procs : ~Entering(r)'
      <4>1. \A r \in Procs : InL(r)' => r = p BY <1>13, <3>2 DEF LInv
      <4>2. \A r \in Procs : Entering(r)' => InL(r)' BY SMT DEF Entering, InL
      <4> QED BY <3>2, <4>1, <4>2
    <3>6. readers' > 0 BY <1>2, <3>2
    <3>7. ReadersHave' BY <3>5, <3>6 DEF ReadersHave
    <3>8. \A r \in Procs : ~HoldsK(r)'
      <4>1. \A r \in Procs \ {p} : HoldsK(r)' <=> HoldsK(r) BY <1>1, <1>a, Extend
      <4>2. \A r \in Procs \ {p} : ~HoldsK(r) BY <1>1, <3>2, KHolder DEF XInv
      <4> QED BY <1>15, <4>1, <4>2
    <3>9. KInv' BY <3>3, <3>7, <3>8 DEF KInv
    <3> QED BY <3>4, <3>9
  <2> QED BY <2>1, <2>2 DEF Locks
<1> QED BY <1>5, <1>6, <1>7, <1>10, <1>13, <1>14, <1>16 DEF IInv

\* A thread waits for one lock at a time.
LEMMA OneWait ==
  ASSUME NEW r, NEW q1 \in Locks, NEW q2 \in Locks, Waits(r, q1), Waits(r, q2)
  PROVE  q1 = q2
BY SMT DEF Waits, Qlocking, Locks

\* Who is queued waits, so it is in no other call.
LEMMA QueuedWaits ==
  ASSUME QueueInv, NEW r, NEW q \in Locks, Queued(r, q)
  PROVE  Waits(r, q)
BY DEF QueueInv, Queued

\* QueueInv by who is queued.
LEMMA QueueIs ==
  ASSUME Types', \A w \in Locks, r \in Procs : Queued(r, w)' => Waits(r, w)',
         \A w \in Locks : \A i, j \in DOMAIN queue'[w] : queue'[w][i] = queue'[w][j] => i = j,
         \A w \in Locks : ~locked'[w] => queue'[w] = <<>>
  PROVE  QueueInv'
<1>1. \A w \in Locks : \A i \in DOMAIN queue'[w] : queue'[w][i] \in Procs BY SMT DEF Types
<1>2. (\A w \in Locks : \A i \in DOMAIN queue[w] : Waits(queue[w][i], w))' BY <1>1 DEF Queued
<1> QED BY <1>2 DEF QueueInv

\* osblock returns: the post was the hand-over of q.
LEMMA StepWakes ==
  ASSUME IInv, NEW p \in Procs, NEW q \in Locks, Wakes(p, q)
  PROVE  IInv'
<1>1. Places /\ Types /\ XInv /\ LInv /\ UseInv /\ QueueInv /\ PostInv /\ ReadInv /\ KInv
  BY DEF IInv
<1>2. /\ Waits(p, q) /\ sem[p] > 0
      /\ sem' = [sem EXCEPT ![p] = sem[p] - 1]
      /\ Locked(p, q)
      /\ UNCHANGED <<use, locked, queue, l, readers, woken>>
  BY DEF Wakes
<1>3. PICK o \in {"rlock", "wlock", "writing"}, n \in 1..2 :
        /\ Move(p, o, n, 1)
        /\ \/ q = "x" /\ op[p] \in {"rlock", "wlock"} /\ pos[p] = 1 /\ o = op[p] /\ n = 2
           \/ q = "k" /\ op[p] = "wlock" /\ pos[p] = 2 /\ o = "writing" /\ n = 1
  BY SMT, <1>2 DEF Waits, Qlocking, Locked
<1>4. op'[p] = o /\ pos'[p] = n /\ step'[p] = 1 /\ step[p] = 3 BY SMT, <1>1, <1>2, <1>3, Moved DEF Waits
<1>a. /\ use' = use /\ locked' = locked /\ queue' = queue /\ l' = l /\ readers' = readers
      /\ woken' = woken /\ Move(p, o, n, 1)
  BY <1>2, <1>3
<1>5. UseInv'
  <2>1. step[p] # 2 /\ 1 # 2 BY SMT, <1>4
  <2> QED BY <1>1, <1>a, <2>1, FrameUse
<1>6. /\ \A r \in Procs \ {p} : sem'[r] = sem[r]
      /\ sem[p] = 1 /\ sem'[p] = 0 /\ sem' \in [Procs -> 0..1]
  BY SMT, <1>1, <1>2 DEF Types
<1>7. Types' BY <1>1, <1>a, <1>6 DEF Types
<1>8. Places'
  <2>1. Valid(p)' BY SMT, <1>3, <1>4 DEF Valid, Reader
  <2>2. o \in Ops \cup {"out", "reading", "writing"} BY DEF Ops
  <2> QED BY SMTT(30), <1>1, <1>a, <2>1, <2>2, FramePlaces
<1>9. /\ ~Handing(p) /\ ~Handing(p)'
      /\ \A r \in Locks : ~Waits(p, r)'
      /\ \A r \in Locks : ~Given(p, r)'
  BY SMT, <1>3, <1>4 DEF Handing, Waits, Qunlocking, Reader, Given
<1>10. Given(p, q)
  <2>1. Given(p, "x") \/ Given(p, "k") BY <1>1, <1>6 DEF PostInv
  <2>2. \A r \in Locks : Given(p, r) => r = q BY <1>2, OneWait DEF Given
  <2> QED BY <2>1, <2>2 DEF Locks
<1>11. QueueInv'
  <2>1. \A r \in Locks : ~Queued(p, r)
    <3>1. \A r \in Locks : Queued(p, r) => r = q BY <1>1, <1>2, QueuedWaits, OneWait
    <3> QED BY <1>10, <3>1 DEF Given
  <2>2. \A r \in Procs \ {p}, w \in Locks : Waits(r, w)' <=> Waits(r, w) BY <1>1, <1>a, Extend
  <2>3. \A r \in Procs, w \in Locks : Queued(r, w)' <=> Queued(r, w) BY <1>a DEF Queued
  <2>4. \A w \in Locks, r \in Procs : Queued(r, w)' => Waits(r, w)'
    <3>1. \A w \in Locks, r \in Procs : Queued(r, w) => Waits(r, w) BY <1>1, QueuedWaits
    <3> QED BY <2>1, <2>2, <2>3, <3>1
  <2>5. /\ \A w \in Locks : \A i, j \in DOMAIN queue'[w] : queue'[w][i] = queue'[w][j] => i = j
        /\ \A w \in Locks : ~locked'[w] => queue'[w] = <<>>
    BY <1>1, <1>a DEF QueueInv
  <2> QED BY <1>7, <2>4, <2>5, QueueIs
<1>12. PostInv'
  <2>1. \A r \in Procs : Handing(r)' <=> Handing(r) BY <1>1, <1>a, <1>9, Extend
  <2>2. \A r \in Procs \ {p}, w \in Locks : Given(r, w)' <=> Given(r, w) BY <1>1, <1>a, Extend
  <2>3. \A r \in Procs : woken[r] # p BY SMT, <1>1, <1>6 DEF PostInv
  <2>4. \A r \in Procs : sem'[r] = 1 \/ (\E w \in Procs : woken[w] = r)
                            <=> (Given(r, "x") \/ Given(r, "k"))'
    <3>1. ASSUME NEW r \in Procs \ {p}
          PROVE  sem'[r] = 1 \/ (\E w \in Procs : woken[w] = r) <=> (Given(r, "x") \/ Given(r, "k"))'
      BY <1>1, <1>6, <2>2 DEF PostInv, Locks
    <3>2. sem'[p] # 1 /\ ~(\E w \in Procs : woken[w] = p) BY SMT, <1>6, <2>3
    <3>3. ~(Given(p, "x") \/ Given(p, "k"))' BY <1>9 DEF Locks
    <3> QED BY <3>1, <3>2, <3>3
  <2>5. \A r, w \in Procs : woken[r] = w => sem'[w] = 0 BY SMT, <1>1, <1>6 DEF PostInv
  <2> QED BY <1>1, <1>a, <2>1, <2>4, <2>5 DEF PostInv
<1>13. /\ ~InL(p) /\ ~InL(p)' /\ ~Entering(p) /\ ~Entering(p)' /\ ~Leaving(p) /\ ~Leaving(p)'
       /\ ~Reads(p) /\ ~Reads(p)'
  BY SMT, <1>3, <1>4 DEF InL, Entering, Leaving, Reads, Reader
<1>14. ~Passing(p) /\ ~Passing(p)' BY <1>13 DEF Passing
<1>15. LInv' BY <1>1, <1>a, <1>13, QuietL
<1>16. ReadInv' BY <1>1, <1>a, <1>13, QuietR
<1>17. (HoldsX(p)' <=> HoldsX(p)) /\ (HoldsK(p)' <=> HoldsK(p))
  <2>1. CASE q = "x"
    <3>1. HoldsX(p) BY <1>10, <2>1 DEF HoldsX
    <3>2. HoldsX(p)' BY SMT, <1>3, <1>4, <2>1 DEF HoldsX, Reader
    <3>3. ~HoldsK(p) BY SMT, <1>3, <2>1 DEF HoldsK, Given, Waits, Qlocking
    <3>4. ~HoldsK(p)' BY <1>3, <1>4, <1>9, <2>1 DEF HoldsK, Locks
    <3> QED BY <3>1, <3>2, <3>3, <3>4
  <2>2. CASE q = "k"
    <3>1. HoldsX(p) BY <1>3, <2>2 DEF HoldsX
    <3>2. HoldsX(p)' /\ HoldsK(p)' BY <1>3, <1>4, <2>2 DEF HoldsX, HoldsK
    <3>3. HoldsK(p) BY <1>10, <2>2 DEF HoldsK
    <3> QED BY <3>1, <3>2, <3>3
  <2> QED BY <2>1, <2>2 DEF Locks
<1>18. XInv' BY <1>1, <1>a, <1>17, SameX
<1>19. KInv' BY <1>1, <1>a, <1>13, <1>14, <1>17, QuietK
<1> QED BY <1>5, <1>7, <1>8, <1>11, <1>12, <1>15, <1>16, <1>18, <1>19 DEF IInv

\* qlock of a lock that is held: p joins the queue, which is what says that it
\* has not been given the lock.
LEMMA StepQueues ==
  ASSUME IInv, NEW p \in Procs, NEW q \in Locks, Queues(p, q)
  PROVE  IInv'
<1>1. Places /\ Types /\ XInv /\ LInv /\ UseInv /\ QueueInv /\ PostInv /\ ReadInv /\ KInv
  BY DEF IInv
<1>2. /\ Qlocking(p, q) /\ step[p] = 2 /\ locked[q]
      /\ use' = [use EXCEPT ![q] = None] /\ queue' = [queue EXCEPT ![q] = Append(queue[q], p)]
      /\ Move(p, op[p], pos[p], 3)
      /\ locked' = locked /\ l' = l /\ readers' = readers /\ sem' = sem /\ woken' = woken
  BY DEF Queues
<1>3. /\ op'[p] = op[p] /\ pos'[p] = pos[p] /\ step'[p] = 3
      /\ \A r \in Procs \ {p} : op'[r] = op[r] /\ pos'[r] = pos[r] /\ step'[r] = step[r]
  BY <1>1, <1>2, Moved
<1>4. UseInv'
  <2>1. Calling(p, q) /\ 3 # 2 BY SMT, <1>2 DEF Calling
  <2> QED BY <1>1, <1>2, <2>1, UseUnlocked
<1>5. Types' BY SMT, <1>1, <1>2 DEF Types
<1>6. Places'
  <2>1. Valid(p)' BY SMT, <1>2, <1>3 DEF Valid, Reader, Qlocking
  <2>2. op[p] \in Ops \cup {"out", "reading", "writing"} /\ pos[p] \in 1..6 BY <1>1, Calls DEF Places
  <2>3. Places /\ Move(p, op[p], pos[p], 3) BY <1>1, <1>2
  <2>4. 3 \in 1..3 BY SMT
  <2> QED BY <2>1, <2>2, <2>3, <2>4, FramePlaces
<1>7. /\ queue[q] \in Seq(Procs) /\ queue'[q] = Append(queue[q], p)
      /\ \A w \in Locks : w # q => queue'[w] = queue[w]
  BY <1>1, <1>2 DEF Types
<1>8. \A r \in Procs, w \in Locks : Queued(r, w)' <=> Queued(r, w) \/ (r = p /\ w = q)
  <2>1. \A r \in Procs : Queued(r, q)' <=> Queued(r, q) \/ r = p BY SMT, <1>7 DEF Queued
  <2>2. \A r \in Procs, w \in Locks : w # q => (Queued(r, w)' <=> Queued(r, w))
    BY <1>7 DEF Queued
  <2> QED BY <2>1, <2>2
<1>9. /\ \A r \in Procs \ {p}, w \in Locks : Waits(r, w)' <=> Waits(r, w)
      /\ Waits(p, q)'
      /\ \A w \in Locks : ~Waits(p, w)
      /\ \A w \in Locks : Waits(p, w)' => w = q
  <2>1. \A r \in Procs \ {p}, w \in Locks : Waits(r, w)' <=> Waits(r, w) BY <1>3, Stays
  <2>2. Waits(p, q)' /\ \A w \in Locks : ~Waits(p, w) BY SMT, <1>2, <1>3 DEF Waits, Qlocking
  <2>3. \A w \in Locks : Waits(p, w)' => w = q BY SMT, <1>2, <1>3 DEF Waits, Qlocking, Locks
  <2> QED BY <2>1, <2>2, <2>3
<1>10. \A r \in Procs, w \in Locks : Given(r, w)' <=> Given(r, w) BY <1>8, <1>9 DEF Given
<1>11. ~Handing(p) /\ ~Handing(p)'
  BY SMT, <1>2, <1>3 DEF Handing, Qlocking, Qunlocking, Reader
<1>12. QueueInv'
  <2>1. ~Queued(p, q) BY <1>1, <1>9, QueuedWaits
  <2>2. \A w \in Locks, r \in Procs : Queued(r, w)' => Waits(r, w)'
    <3>1. \A w \in Locks, r \in Procs : Queued(r, w) => Waits(r, w) BY <1>1, QueuedWaits
    <3> QED BY <1>8, <1>9, <3>1
  <2>3. \A i, j \in DOMAIN queue'[q] : queue'[q][i] = queue'[q][j] => i = j
    <3>1. \A i \in DOMAIN queue[q] : queue[q][i] # p BY <2>1 DEF Queued
    <3>2. \A i, j \in DOMAIN queue[q] : queue[q][i] = queue[q][j] => i = j BY <1>1 DEF QueueInv
    <3> QED BY SMT, <1>7, <3>1, <3>2
  <2>4. ASSUME NEW w \in Locks
        PROVE  /\ \A i, j \in DOMAIN queue'[w] : queue'[w][i] = queue'[w][j] => i = j
               /\ ~locked'[w] => queue'[w] = <<>>
    <3>1. CASE w = q BY SMT, <1>2, <2>3, <3>1
    <3>2. CASE w # q
      <4>1. queue'[w] = queue[w] /\ locked'[w] = locked[w] BY <1>2, <1>7, <3>2
      <4> QED BY <1>1, <4>1 DEF QueueInv
    <3> QED BY <3>1, <3>2
  <2> QED BY <1>5, <2>2, <2>4, QueueIs
<1>13. PostInv'
  <2>1. \A r \in Procs : Handing(r)' <=> Handing(r) BY <1>1, <1>2, <1>11, Extend
  <2>2. \A r \in Procs : Given(r, "x") \/ Given(r, "k") <=> (Given(r, "x") \/ Given(r, "k"))'
    BY <1>10 DEF Locks
  <2> QED BY <1>1, <1>2, <2>1, <2>2, FramePost
<1>14. /\ InL(p)' <=> InL(p)
       /\ Entering(p)' <=> Entering(p)
       /\ ~Leaving(p) /\ ~Leaving(p)'
       /\ Reads(p)' <=> Reads(p)
  BY <1>2, <1>3 DEF InL, Entering, Leaving, Reads, Reader, Qlocking
<1>15. ~Passing(p) /\ ~Passing(p)' BY <1>14 DEF Passing
<1>16. LInv' BY <1>1, <1>2, <1>14, QuietL
<1>17. ReadInv' BY <1>1, <1>2, <1>14, QuietR
<1>18. \A r \in Procs : (HoldsX(r)' <=> HoldsX(r)) /\ (HoldsK(r)' <=> HoldsK(r))
  <2>1. \A r \in Procs \ {p} : (HoldsX(r)' <=> HoldsX(r)) /\ (HoldsK(r)' <=> HoldsK(r))
    <3>1. \A r \in Procs \ {p}, w \in Locks : Queued(r, w)' <=> Queued(r, w) BY <1>8
    <3> QED BY <1>3, <3>1, Stays DEF Locks
  <2>2. (HoldsX(p)' <=> HoldsX(p)) /\ (HoldsK(p)' <=> HoldsK(p))
    <3>1. (Given(p, "x")' <=> Given(p, "x")) /\ (Given(p, "k")' <=> Given(p, "k"))
      BY <1>10 DEF Locks
    <3> QED BY SMT, <1>2, <1>3, <3>1 DEF HoldsX, HoldsK, Qlocking, Reader
  <2> QED BY <2>1, <2>2
<1>19. XInv' BY <1>1, <1>2, <1>18, FrameX
<1>20. KInv'
  <2>1. \A r \in Procs : (Entering(r)' <=> Entering(r)) /\ (Passing(r)' <=> Passing(r))
    BY <1>1, <1>2, <1>14, <1>15, Extend
  <2>2. ReadersHave' <=> ReadersHave BY <1>2, <2>1, FrameHave
  <2> QED BY <1>1, <1>2, <1>18, <2>2, FrameK
<1> QED BY <1>4, <1>5, <1>6, <1>12, <1>13, <1>16, <1>17, <1>19, <1>20 DEF IInv

----------------------------------------------------------------------------
(* The steps of qunlock.                                                   *)

\* Where a qunlock of q is, and where it leads.
LEMMA Unlocks ==
  ASSUME NEW p \in Procs, NEW q \in Locks, Qunlocking(p, q), Unlocked(p, q)
  PROVE  \E o \in {"reading", "runlock", "wunlock", "out"}, n \in {1, 2, 4} :
           /\ Move(p, o, n, 1)
           /\ \/ q = "x" /\ Reader(p) /\ pos[p] = 6 /\ o = "reading" /\ n = 1
              \/ q = "x" /\ op[p] = "wunlock" /\ pos[p] = 2 /\ o = "out" /\ n = 1
              \/ q = "k" /\ op[p] = "runlock" /\ pos[p] = 3 /\ o = "runlock" /\ n = 4
              \/ q = "k" /\ op[p] = "wunlock" /\ pos[p] = 1 /\ o = "wunlock" /\ n = 2
BY DEF Qunlocking, Unlocked, Reader

\* osready of the thread taken from the queue.
LEMMA StepPosts ==
  ASSUME IInv, NEW p \in Procs, NEW q \in Locks, Posts(p, q)
  PROVE  IInv'
<1>1. Places /\ Types /\ XInv /\ LInv /\ UseInv /\ QueueInv /\ PostInv /\ ReadInv /\ KInv
  BY DEF IInv
<1>2. /\ Qunlocking(p, q) /\ step[p] = 3
      /\ sem' = [sem EXCEPT ![woken[p]] = sem[woken[p]] + 1]
      /\ woken' = [woken EXCEPT ![p] = None]
      /\ Unlocked(p, q)
      /\ UNCHANGED <<use, locked, queue, l, readers>>
  BY DEF Posts
<1>3. PICK o \in {"reading", "runlock", "wunlock", "out"}, n \in {1, 2, 4} :
        /\ Move(p, o, n, 1)
        /\ \/ q = "x" /\ Reader(p) /\ pos[p] = 6 /\ o = "reading" /\ n = 1
           \/ q = "x" /\ op[p] = "wunlock" /\ pos[p] = 2 /\ o = "out" /\ n = 1
           \/ q = "k" /\ op[p] = "runlock" /\ pos[p] = 3 /\ o = "runlock" /\ n = 4
           \/ q = "k" /\ op[p] = "wunlock" /\ pos[p] = 1 /\ o = "wunlock" /\ n = 2
  BY <1>2, Unlocks
<1>a. /\ use' = use /\ locked' = locked /\ queue' = queue /\ l' = l /\ readers' = readers
      /\ Move(p, o, n, 1)
  BY <1>2, <1>3
<1>4. op'[p] = o /\ pos'[p] = n /\ step'[p] = 1 BY SMT, <1>1, <1>a, Moved
<1>5. UseInv'
  <2>1. step[p] # 2 /\ 1 # 2 BY SMT, <1>2
  <2> QED BY <1>1, <1>a, <2>1, FrameUse
<1>6. Handing(p) /\ ~Handing(p)' BY SMT, <1>2, <1>4 DEF Handing
<1>7. woken[p] # None /\ woken[p] \in Procs /\ sem[woken[p]] = 0
  BY SMT, <1>1, <1>6 DEF PostInv, Types
<1>8. /\ sem'[woken[p]] = 1 /\ \A r \in Procs : r # woken[p] => sem'[r] = sem[r]
      /\ sem' \in [Procs -> 0..1]
  BY SMT, <1>1, <1>2, <1>7 DEF Types
<1>9. /\ woken'[p] = None /\ \A r \in Procs \ {p} : woken'[r] = woken[r]
      /\ woken' \in [Procs -> Procs \cup {None}]
  BY <1>1, <1>2 DEF Types
<1>10. Types' BY <1>1, <1>a, <1>8, <1>9 DEF Types
<1>11. Places'
  <2>1. Valid(p)' BY SMT, <1>3, <1>4 DEF Valid, Reader
  <2>2. o \in Ops \cup {"out", "reading", "writing"} BY DEF Ops
  <2> QED BY SMT, <1>1, <1>a, <2>1, <2>2, FramePlaces
<1>12. \A r \in Locks : ~Waits(p, r) /\ ~Waits(p, r)'
  BY SMT, <1>3, <1>4 DEF Waits, Qlocking, Reader
<1>13. QueueInv'
  <2>1. \A r \in Procs, w \in Locks : Waits(r, w) => Waits(r, w)' BY <1>1, <1>a, <1>12, Extend
  <2> QED BY <1>1, <1>a, <2>1, FrameQueue
<1>14. PostInv'
  <2>1. \A r \in Procs \ {p} : Handing(r)' <=> Handing(r)
    <3>1. \A r \in Procs \ {p} : op'[r] = op[r] /\ pos'[r] = pos[r] /\ step'[r] = step[r]
      BY <1>1, <1>a, Moved
    <3> QED BY <3>1, Stays
  <2>2. \A r \in Procs, w \in Locks : Given(r, w)' <=> Given(r, w)
    BY <1>1, <1>a, <1>12, Extend DEF Given
  <2>3. \A r \in Procs : woken'[r] # None <=> Handing(r)'
    BY <1>1, <1>6, <1>9, <2>1 DEF PostInv
  <2>4. \A r, w \in Procs : woken'[r] # None /\ woken'[r] = woken'[w] => r = w
    <3>1. \A r, w \in Procs : woken[r] # None /\ woken[r] = woken[w] => r = w
      BY <1>1 DEF PostInv
    <3>2. \A r \in Procs : woken'[r] # None => woken'[r] = woken[r] BY <1>9
    <3> QED BY <3>1, <3>2
  <2>5. \A r \in Procs \ {p} : woken[r] # woken[p] BY <1>1, <1>7 DEF PostInv
  <2>6. \A r, w \in Procs : woken'[r] = w => sem'[w] = 0
    BY SMT, <1>1, <1>8, <1>9, <2>5, QLocksAssumption DEF PostInv
  <2>7. ASSUME NEW w \in Procs
        PROVE  sem'[w] = 1 \/ (\E r \in Procs : woken'[r] = w) <=> (Given(w, "x") \/ Given(w, "k"))'
    <3>1. sem[w] = 1 \/ (\E r \in Procs : woken[r] = w) <=> Given(w, "x") \/ Given(w, "k")
      BY <1>1 DEF PostInv
    <3>2. Given(w, "x") \/ Given(w, "k") <=> (Given(w, "x") \/ Given(w, "k"))' BY <2>2 DEF Locks
    <3>3. CASE w = woken[p] BY <1>8, <3>1, <3>2, <3>3
    <3>4. CASE w # woken[p]
      <4>1. sem'[w] = sem[w] BY <1>8, <3>4
      <4>2. \A r \in Procs : woken'[r] = w <=> woken[r] = w BY <1>9, <3>4, QLocksAssumption
      <4> QED BY <3>1, <3>2, <4>1, <4>2
    <3> QED BY <3>3, <3>4
  <2> QED BY <2>3, <2>4, <2>6, <2>7 DEF PostInv
<1>15. /\ InL(p)' <=> InL(p)
       /\ ~Entering(p) /\ ~Entering(p)' /\ ~Leaving(p)'
       /\ Reads(p)' <=> Reads(p)
  BY SMT, <1>3, <1>4 DEF InL, Entering, Leaving, Reads, Reader
<1>16. ~Passing(p) /\ ~Passing(p)' BY <1>2, <1>15 DEF Passing
<1>17. LInv' BY <1>1, <1>a, <1>15, QuietL
<1>18. ReadInv' BY <1>1, <1>a, <1>15, QuietR
<1>19. (HoldsX(p)' <=> HoldsX(p)) /\ (HoldsK(p)' <=> HoldsK(p))
  BY SMT, <1>2, <1>3, <1>4, <1>12 DEF HoldsX, HoldsK, Given, Reader, Locks
<1>20. XInv' BY <1>1, <1>a, <1>19, SameX
<1>21. KInv' BY <1>1, <1>a, <1>15, <1>16, <1>19, QuietK
<1> QED BY <1>5, <1>10, <1>11, <1>13, <1>14, <1>17, <1>18, <1>20, <1>21 DEF IInv

\* When the last reader gives k up, there are no readers that have it.
LEMMA LastGone ==
  ASSUME Places, LInv, ReadInv, NEW p \in Procs, NEW o, NEW n, NEW s, Move(p, o, n, s),
         Leaving(p), ~Passing(p)', readers' = readers
  PROVE  ~ReadersHave'
<1>1. readers = 0 BY DEF ReadInv
<1>2. \A r \in Procs \ {p} : ~InL(r)
  <2>1. InL(p) BY SMT DEF Leaving, InL
  <2> QED BY <2>1 DEF LInv
<1>3. \A r \in Procs \ {p} : ~Passing(r)'
  <2>1. \A r \in Procs \ {p} : op'[r] = op[r] /\ pos'[r] = pos[r] /\ step'[r] = step[r] BY Moved
  <2>2. \A r \in Procs \ {p} : Passing(r)' <=> Passing(r) BY <2>1, Stays
  <2>3. \A r \in Procs : Passing(r) => InL(r) BY SMTT(60) DEF Passing, Leaving, InL
  <2> QED BY <1>2, <2>2, <2>3
<1> QED BY SMT, <1>1, <1>3 DEF ReadersHave

\* qunlock with nobody waiting.
LEMMA StepDrops ==
  ASSUME IInv, NEW p \in Procs, NEW q \in Locks, Drops(p, q)
  PROVE  IInv'
<1>1. Places /\ Types /\ XInv /\ LInv /\ UseInv /\ QueueInv /\ PostInv /\ ReadInv /\ KInv
  BY DEF IInv
<1>2. /\ Qunlocking(p, q) /\ step[p] = 2 /\ queue[q] = <<>>
      /\ use' = [use EXCEPT ![q] = None] /\ locked' = [locked EXCEPT ![q] = FALSE]
      /\ Unlocked(p, q)
      /\ UNCHANGED <<queue, l, readers, sem, woken>>
  BY DEF Drops
<1>3. PICK o \in {"reading", "runlock", "wunlock", "out"}, n \in {1, 2, 4} :
        /\ Move(p, o, n, 1)
        /\ \/ q = "x" /\ Reader(p) /\ pos[p] = 6 /\ o = "reading" /\ n = 1
           \/ q = "x" /\ op[p] = "wunlock" /\ pos[p] = 2 /\ o = "out" /\ n = 1
           \/ q = "k" /\ op[p] = "runlock" /\ pos[p] = 3 /\ o = "runlock" /\ n = 4
           \/ q = "k" /\ op[p] = "wunlock" /\ pos[p] = 1 /\ o = "wunlock" /\ n = 2
  BY <1>2, Unlocks
<1>a. /\ queue' = queue /\ l' = l /\ readers' = readers /\ sem' = sem /\ woken' = woken
      /\ Move(p, o, n, 1)
  BY <1>2, <1>3
<1>4. op'[p] = o /\ pos'[p] = n /\ step'[p] = 1 BY SMT, <1>1, <1>a, Moved
<1>5. UseInv'
  <2>1. Calling(p, q) /\ 1 # 2 BY SMT, <1>2 DEF Calling
  <2> QED BY <1>1, <1>2, <1>a, <2>1, UseUnlocked
<1>6. /\ \A r \in Locks : r # q => locked'[r] = locked[r]
      /\ ~locked'[q]
  <2>1. DOMAIN locked = Locks BY <1>1 DEF Types
  <2>2. locked'[q] = FALSE BY <1>2, <2>1
  <2>3. \A r \in Locks : r # q => locked'[r] = locked[r] BY <1>2, <2>1
  <2> QED BY <2>2, <2>3
<1>7. Types' BY <1>1, <1>2 DEF Types
<1>8. Places'
  <2>1. Valid(p)' BY SMT, <1>3, <1>4 DEF Valid, Reader
  <2>2. o \in Ops \cup {"out", "reading", "writing"} BY DEF Ops
  <2> QED BY SMT, <1>1, <1>a, <2>1, <2>2, FramePlaces
<1>9. /\ ~Handing(p) /\ ~Handing(p)'
      /\ \A r \in Locks : ~Waits(p, r) /\ ~Waits(p, r)'
  BY SMT, <1>2, <1>4 DEF Handing, Waits
<1>10. QueueInv'
  <2>1. \A r \in Procs, w \in Locks : Waits(r, w)' <=> Waits(r, w) BY <1>1, <1>a, <1>9, Extend
  <2>2. \A w \in Locks, r \in Procs : Queued(r, w)' => Waits(r, w)'
    <3>1. \A w \in Locks, r \in Procs : Queued(r, w) => Waits(r, w) BY <1>1, QueuedWaits
    <3>2. \A w \in Locks, r \in Procs : Queued(r, w)' <=> Queued(r, w) BY <1>a DEF Queued
    <3> QED BY <2>1, <3>1, <3>2
  <2>3. \A w \in Locks : \A i, j \in DOMAIN queue'[w] : queue'[w][i] = queue'[w][j] => i = j
    BY <1>1, <1>a DEF QueueInv
  <2>4. \A w \in Locks : ~locked'[w] => queue'[w] = <<>> BY <1>1, <1>2, <1>6, <1>a DEF QueueInv
  <2> QED BY <1>7, <2>2, <2>3, <2>4, QueueIs
<1>11. PostInv'
  <2>1. \A r \in Procs, w \in Locks : Given(r, w)' <=> Given(r, w)
    BY <1>1, <1>a, <1>9, Extend DEF Given
  <2>2. \A r \in Procs : Given(r, "x") \/ Given(r, "k") <=> (Given(r, "x") \/ Given(r, "k"))'
    BY <2>1 DEF Locks
  <2>3. \A r \in Procs : Handing(r)' <=> Handing(r) BY <1>1, <1>a, <1>9, Extend
  <2> QED BY <1>1, <1>a, <2>2, <2>3, FramePost
<1>12. /\ InL(p)' <=> InL(p)
       /\ ~Entering(p) /\ ~Entering(p)' /\ ~Leaving(p)'
       /\ Reads(p)' <=> Reads(p)
  BY SMT, <1>3, <1>4 DEF InL, Entering, Leaving, Reads, Reader
<1>13. LInv' BY <1>1, <1>a, <1>12, QuietL
<1>14. ReadInv' BY <1>1, <1>a, <1>12, QuietR
<1>15. ~HoldsK(p)' BY <1>3, <1>4, <1>9 DEF HoldsK, Given, Locks
<1>16. ~Passing(p)' BY <1>12 DEF Passing
<1>17. \A r \in Procs \ {p} : (HoldsX(r)' <=> HoldsX(r)) /\ (HoldsK(r)' <=> HoldsK(r))
  BY <1>1, <1>a, Extend
<1>18. XInv' /\ KInv'
  <2>1. CASE q = "x"
    <3>1. HoldsX(p) BY SMT, <1>2, <1>3, <2>1 DEF HoldsX
    <3>2. ~HoldsX(p)' BY <1>3, <1>4, <1>9, <2>1 DEF HoldsX, Given, Reader, Locks
    <3>3. \A r \in Procs : ~HoldsX(r)' BY <1>1, <1>17, <3>1, <3>2 DEF XInv
    <3>4. locked'["k"] = locked["k"] /\ ~locked'["x"] BY <1>6, <2>1 DEF Locks
    <3>5. XInv' BY <3>3, <3>4 DEF XInv
    <3>6. ~Passing(p) /\ ~HoldsK(p)
      BY SMT, <1>3, <1>9, <2>1 DEF Passing, Leaving, HoldsK, Given, Reader, Locks
    <3>7. KInv' BY <1>1, <1>a, <1>12, <1>15, <1>16, <3>4, <3>6, QuietK
    <3> QED BY <3>5, <3>7
  <2>2. CASE q = "k"
    <3>1. HoldsX(p)' <=> HoldsX(p)
      BY SMT, <1>2, <1>3, <1>4, <1>9, <2>2 DEF HoldsX, Given, Reader, Locks
    <3>2. locked'["x"] = locked["x"] /\ ~locked'["k"] BY <1>6, <2>2 DEF Locks
    <3>3. XInv' BY <1>1, <1>a, <3>1, <3>2, SameX
    <3>4. ~ReadersHave' /\ \A r \in Procs \ {p} : ~HoldsK(r)
      <4>1. CASE op[p] = "runlock"
        <5>1. Leaving(p) /\ Passing(p) BY SMT, <1>2, <1>3, <2>2, <4>1 DEF Leaving, Passing
        <5>2. ~ReadersHave' BY <1>1, <1>a, <1>16, <5>1, LastGone
        <5>3. ReadersHave BY <5>1 DEF ReadersHave
        <5> QED BY <1>1, <5>2, <5>3 DEF KInv
      <4>2. CASE op[p] = "wunlock"
        <5>1. HoldsX(p) /\ HoldsK(p) /\ ~Passing(p)
          BY SMT, <1>2, <1>3, <2>2, <4>2 DEF HoldsX, HoldsK, Passing, Leaving, Reader
        <5>2. \A r \in Procs : (Entering(r)' <=> Entering(r)) /\ (Passing(r)' <=> Passing(r))
          BY <1>1, <1>a, <1>12, <1>16, <5>1, Extend
        <5>3. ReadersHave' <=> ReadersHave BY <1>a, <5>2, FrameHave
        <5>4. \A r \in Procs \ {p} : ~HoldsK(r) BY <1>1, <5>1, KHolder DEF XInv
        <5> QED BY <1>1, <5>1, <5>3, <5>4 DEF KInv
      <4> QED BY <1>3, <2>2, <4>1, <4>2
    <3>5. \A r \in Procs : ~HoldsK(r)' BY <1>15, <1>17, <3>4
    <3>6. KInv' BY <3>2, <3>4, <3>5 DEF KInv
    <3> QED BY <3>3, <3>6
  <2> QED BY <2>1, <2>2 DEF Locks
<1> QED BY <1>5, <1>7, <1>8, <1>10, <1>11, <1>13, <1>14, <1>18 DEF IInv

\* The tail of a sequence.
LEMMA Tails ==
  ASSUME NEW S, NEW s \in Seq(S), s # <<>>
  PROVE  /\ Tail(s) \in Seq(S) /\ Head(s) = s[1] /\ s[1] \in S /\ 1 \in DOMAIN s
         /\ \A i \in DOMAIN Tail(s) : i \in Nat \ {0} /\ i + 1 \in DOMAIN s /\ Tail(s)[i] = s[i + 1]
         /\ \A i \in DOMAIN s : i # 1 => i - 1 \in DOMAIN Tail(s) /\ Tail(s)[i - 1] = s[i]
BY SMT

\* qunlock with a queue: the lock passes to its head without ever being free.
LEMMA StepPasses ==
  ASSUME IInv, NEW p \in Procs, NEW q \in Locks, Passes(p, q)
  PROVE  IInv'
<1>1. Places /\ Types /\ XInv /\ LInv /\ UseInv /\ QueueInv /\ PostInv /\ ReadInv /\ KInv
  BY DEF IInv
<1>0. queue[q] \in Seq(Procs) /\ queue[q] # <<>> BY <1>1 DEF Types, Passes
<1>b. PICK h \in Procs : h = Head(queue[q]) BY SMT, <1>0, Tails
<1>2. /\ Qunlocking(p, q) /\ step[p] = 2 /\ queue[q] # <<>>
      /\ use' = [use EXCEPT ![q] = None] /\ queue' = [queue EXCEPT ![q] = Tail(queue[q])]
      /\ woken' = [woken EXCEPT ![p] = h]
      /\ Move(p, op[p], pos[p], 3)
      /\ locked' = locked /\ l' = l /\ readers' = readers /\ sem' = sem
  BY <1>b DEF Passes
<1>3. /\ op'[p] = op[p] /\ pos'[p] = pos[p] /\ step'[p] = 3
      /\ \A r \in Procs \ {p} : op'[r] = op[r] /\ pos'[r] = pos[r] /\ step'[r] = step[r]
  BY <1>1, <1>2, Moved
<1>4. UseInv'
  <2>1. Calling(p, q) /\ 3 # 2 BY SMT, <1>2 DEF Calling
  <2> QED BY <1>1, <1>2, <2>1, UseUnlocked
<1>5. /\ queue[q] \in Seq(Procs) /\ queue'[q] = Tail(queue[q])
      /\ \A w \in Locks : w # q => queue'[w] = queue[w]
      /\ h = queue[q][1] /\ 1 \in DOMAIN queue[q]
  <2>1. queue'[q] = Tail(queue[q]) /\ \A w \in Locks : w # q => queue'[w] = queue[w]
    BY <1>1, <1>2 DEF Types
  <2> QED BY <1>0, <1>b, <2>1, Tails
<1>6. Waits(h, q) /\ step[h] = 3 /\ Queued(h, q) /\ h # p
  <2>1. Waits(h, q) BY <1>1, <1>5 DEF QueueInv
  <2>2. Queued(h, q) BY <1>5 DEF Queued
  <2> QED BY SMT, <1>2, <2>1, <2>2 DEF Waits
<1>7. \A i, j \in DOMAIN queue[q] : queue[q][i] = queue[q][j] => i = j BY <1>1 DEF QueueInv
<1>8. \A i \in DOMAIN queue'[q] : i + 1 \in DOMAIN queue[q] /\ queue'[q][i] = queue[q][i + 1] /\ i \in Nat \ {0}
  BY SMT, <1>0, <1>5, Tails
<1>9. \A i \in DOMAIN queue[q] : i # 1 => i - 1 \in DOMAIN queue'[q] /\ queue'[q][i - 1] = queue[q][i]
  BY SMT, <1>0, <1>5, Tails
<1>10. \A r \in Procs : Queued(r, q)' <=> Queued(r, q) /\ r # h
  <2>1. ASSUME NEW r \in Procs, Queued(r, q)' PROVE Queued(r, q) /\ r # h
    <3>1. PICK i \in DOMAIN queue'[q] : queue'[q][i] = r BY <2>1 DEF Queued
    <3>2. i + 1 \in DOMAIN queue[q] /\ queue[q][i + 1] = r /\ i + 1 # 1 BY SMT, <1>8, <3>1
    <3> QED BY <1>5, <1>7, <3>2 DEF Queued
  <2>2. ASSUME NEW r \in Procs, Queued(r, q), r # h PROVE Queued(r, q)'
    <3>1. PICK i \in DOMAIN queue[q] : queue[q][i] = r BY <2>2 DEF Queued
    <3>2. i # 1 BY <1>5, <2>2, <3>1
    <3>3. i - 1 \in DOMAIN queue'[q] /\ queue'[q][i - 1] = r BY <1>9, <3>1, <3>2
    <3> QED BY <3>3 DEF Queued
  <2> QED BY <2>1, <2>2
<1>11. \A r \in Procs, w \in Locks : Queued(r, w)' <=> Queued(r, w) /\ ~(r = h /\ w = q)
  <2>1. \A r \in Procs, w \in Locks : w # q => (Queued(r, w)' <=> Queued(r, w)) BY <1>5 DEF Queued
  <2> QED BY <1>10, <2>1
<1>12. Types'
  <2>1. queue' \in [Locks -> Seq(Procs)] BY SMT, <1>1, <1>2, <1>5 DEF Types
  <2>2. woken' \in [Procs -> Procs \cup {None}] BY <1>1, <1>2, <1>5 DEF Types
  <2>3. use' \in [Locks -> Procs \cup {None}] BY <1>1, <1>2 DEF Types
  <2> QED BY <1>1, <1>2, <2>1, <2>2, <2>3 DEF Types
<1>13. Places'
  <2>1. Valid(p)' BY SMT, <1>2, <1>3 DEF Valid, Reader, Qunlocking
  <2>2. op[p] \in Ops \cup {"out", "reading", "writing"} /\ pos[p] \in 1..6 BY <1>1, Calls DEF Places
  <2> QED BY SMTT(30), <1>1, <1>2, <2>1, <2>2, FramePlaces
<1>14. /\ \A r \in Procs, w \in Locks : Waits(r, w)' <=> Waits(r, w)
       /\ \A w \in Locks : ~Waits(p, w)
  <2>1. \A r \in Procs \ {p}, w \in Locks : Waits(r, w)' <=> Waits(r, w) BY <1>3, Stays
  <2>2. \A w \in Locks : ~Waits(p, w) /\ ~Waits(p, w)'
    BY SMT, <1>2, <1>3 DEF Waits, Qlocking, Qunlocking, Reader
  <2> QED BY <2>1, <2>2
<1>15. QueueInv'
  <2>1. \A w \in Locks, r \in Procs : Queued(r, w)' => Waits(r, w)'
    <3>1. \A w \in Locks, r \in Procs : Queued(r, w) => Waits(r, w) BY <1>1, QueuedWaits
    <3> QED BY <1>11, <1>14, <3>1
  <2>2. \A i, j \in DOMAIN queue'[q] : queue'[q][i] = queue'[q][j] => i = j
    BY SMT, <1>7, <1>8
  <2>3. \A w \in Locks : \A i, j \in DOMAIN queue'[w] : queue'[w][i] = queue'[w][j] => i = j
    <3>1. ASSUME NEW w \in Locks, w # q
          PROVE  \A i, j \in DOMAIN queue'[w] : queue'[w][i] = queue'[w][j] => i = j
      <4>1. queue'[w] = queue[w] BY <1>5, <3>1
      <4> QED BY <1>1, <4>1 DEF QueueInv
    <3> QED BY <2>2, <3>1
  <2>4. \A w \in Locks : ~locked'[w] => queue'[w] = <<>> BY <1>1, <1>2, <1>5 DEF QueueInv
  <2> QED BY <1>12, <2>1, <2>3, <2>4, QueueIs
<1>16. /\ \A r \in Procs, w \in Locks : r # h => (Given(r, w)' <=> Given(r, w))
       /\ Given(h, q)'
       /\ \A w \in Locks : ~Given(h, w)
       /\ \A w \in Locks : w # q => ~Given(h, w)'
  <2>1. \A w \in Locks : Waits(h, w) => w = q BY <1>6, OneWait
  <2>2. \A r \in Procs, w \in Locks : r # h => (Given(r, w)' <=> Given(r, w)) BY <1>11, <1>14 DEF Given
  <2>3. Given(h, q)' BY <1>5, <1>6, <1>11, <1>14 DEF Given
  <2>4. \A w \in Locks : ~Given(h, w) BY <1>6, <2>1 DEF Given
  <2>5. \A w \in Locks : w # q => ~Given(h, w)' BY <1>5, <1>14, <2>1 DEF Given
  <2> QED BY <2>2, <2>3, <2>4, <2>5
<1>17. PostInv'
  <2>1. ~Handing(p) /\ Handing(p)' /\ woken[p] = None
    <3>1. ~Handing(p) BY SMT, <1>2 DEF Handing
    <3>2. Handing(p)' BY <1>2, <1>3 DEF Handing, Qunlocking, Reader
    <3> QED BY <1>1, <3>1, <3>2 DEF PostInv
  <2>2. \A r \in Procs \ {p} : Handing(r)' <=> Handing(r) BY <1>3, Stays
  <2>3. woken'[p] = h /\ \A r \in Procs \ {p} : woken'[r] = woken[r] BY <1>1, <1>2 DEF Types
  <2>4. sem[h] = 0 /\ \A r \in Procs : woken[r] # h
    <3>1. ~(Given(h, "x") \/ Given(h, "k")) BY <1>16 DEF Locks
    <3>2. sem[h] # 1 /\ \A r \in Procs : woken[r] # h BY <1>1, <1>5, <3>1 DEF PostInv
    <3>3. sem[h] \in 0..1 BY <1>1, <1>5 DEF Types
    <3> QED BY SMT, <3>2, <3>3
  <2>5. \A r \in Procs : woken'[r] # None <=> Handing(r)'
    BY <1>1, <1>5, <2>1, <2>2, <2>3, QLocksAssumption DEF PostInv
  <2>6. \A r, w \in Procs : woken'[r] # None /\ woken'[r] = woken'[w] => r = w
    BY SMTT(30), <1>1, <2>3, <2>4 DEF PostInv
  <2>7. \A r, w \in Procs : woken'[r] = w => sem'[w] = 0
    BY SMT, <1>1, <1>2, <2>3, <2>4 DEF PostInv
  <2>8. ASSUME NEW w \in Procs
        PROVE  sem'[w] = 1 \/ (\E r \in Procs : woken'[r] = w) <=> (Given(w, "x") \/ Given(w, "k"))'
    <3>1. CASE w = h
      <4>1. (Given(w, "x") \/ Given(w, "k"))' BY <1>16, <3>1 DEF Locks
      <4> QED BY <2>3, <3>1, <4>1
    <3>2. CASE w # h
      <4>1. Given(w, "x") \/ Given(w, "k") <=> (Given(w, "x") \/ Given(w, "k"))'
        BY <1>16, <3>2 DEF Locks
      <4>2. \A r \in Procs : woken'[r] = w <=> woken[r] = w BY <2>1, <2>3, <3>2, QLocksAssumption
      <4>3. sem[w] = 1 \/ (\E r \in Procs : woken[r] = w) <=> Given(w, "x") \/ Given(w, "k")
        BY <1>1 DEF PostInv
      <4> QED BY <1>2, <4>1, <4>2, <4>3
    <3> QED BY <3>1, <3>2
  <2> QED BY <2>5, <2>6, <2>7, <2>8 DEF PostInv
<1>18. /\ InL(p)' <=> InL(p)
       /\ Entering(p)' <=> Entering(p)
       /\ Leaving(p)' <=> Leaving(p)
       /\ Reads(p)' <=> Reads(p)
  BY <1>3 DEF InL, Entering, Leaving, Reads, Reader
<1>19. LInv' BY <1>1, <1>2, <1>18, QuietL
<1>20. ReadInv' BY <1>1, <1>2, <1>18, QuietR
<1>21. \A r \in Procs \ {p, h} : (HoldsX(r)' <=> HoldsX(r)) /\ (HoldsK(r)' <=> HoldsK(r))
  <2>1. \A r \in Procs \ {p, h}, w \in Locks : Queued(r, w)' <=> Queued(r, w) BY <1>11
  <2> QED BY <1>3, <2>1, Stays DEF Locks
<1>22. h \in Procs \ {p} /\ op'[h] = op[h] /\ pos'[h] = pos[h] BY <1>3, <1>5, <1>6
<1>23. ~Passing(p)' BY <1>3 DEF Passing
<1>24. ~Given(p, "x") /\ ~Given(p, "k") /\ ~Given(p, "x")' /\ ~Given(p, "k")'
  BY <1>14 DEF Given, Locks
<1>25. CASE q = "x"
  <2>1. HoldsX(p) BY SMTT(30), <1>2, <1>25 DEF HoldsX, Qunlocking
  <2>2. ~HoldsX(p)' BY SMT, <1>2, <1>3, <1>24, <1>25 DEF HoldsX, Qunlocking, Reader
  <2>3. HoldsX(h)' BY <1>16, <1>25 DEF HoldsX
  <2>4. \A r \in Procs \ {p, h} : ~HoldsX(r)' BY <1>1, <1>21, <2>1 DEF XInv
  <2>5. locked'["x"] BY <1>1, <1>2, <2>1 DEF XInv
  <2>6. XInv' BY <1>22, <2>2, <2>3, <2>4, <2>5 DEF XInv
  <2>7. ~HoldsK(p) /\ ~HoldsK(p)' /\ ~Passing(p)
    BY <1>2, <1>3, <1>24, <1>25 DEF HoldsK, Qunlocking, Passing, Leaving, Reader
  <2>8. ~HoldsK(h) /\ ~HoldsK(h)'
    <3>1. op[h] \in {"rlock", "wlock"} BY <1>6, <1>25 DEF Waits, Qlocking
    <3>2. ~Given(h, "k") /\ ~Given(h, "k")' BY <1>16, <1>25 DEF Locks
    <3> QED BY <1>22, <3>1, <3>2 DEF HoldsK
  <2>9. \A r \in Procs : HoldsK(r)' <=> HoldsK(r) BY <1>21, <2>7, <2>8
  <2>10. \A r \in Procs : (Entering(r)' <=> Entering(r)) /\ (Passing(r)' <=> Passing(r))
    BY <1>1, <1>2, <1>18, <1>23, <2>7, Extend
  <2>11. ReadersHave' <=> ReadersHave BY <1>2, <2>10, FrameHave
  <2>12. KInv' BY <1>1, <1>2, <2>9, <2>11, FrameK
  <2> QED BY <1>4, <1>12, <1>13, <1>15, <1>17, <1>19, <1>20, <2>6, <2>12 DEF IInv
<1>26. CASE q = "k"
  <2>1. op[h] = "wlock" /\ pos[h] = 2 BY <1>6, <1>26 DEF Waits, Qlocking
  <2>2. HoldsX(h) /\ HoldsX(h)' BY <1>22, <2>1 DEF HoldsX
  <2>3. op[p] = "runlock" /\ pos[p] = 3
    <3>1. ~HoldsX(p) BY <1>1, <1>22, <2>2 DEF XInv
    <3> QED BY <1>2, <1>26, <3>1 DEF Qunlocking, HoldsX
  <2>4. ~HoldsX(p) /\ ~HoldsX(p)' /\ ~HoldsK(p)'
    BY <1>3, <1>24, <2>3 DEF HoldsX, HoldsK, Reader
  <2>5. \A r \in Procs : HoldsX(r)' <=> HoldsX(r) BY <1>21, <2>2, <2>4
  <2>6. XInv' BY <1>1, <1>2, <2>5, FrameX
  <2>7. Leaving(p) /\ Passing(p) BY SMT, <1>2, <2>3 DEF Leaving, Passing
  <2>8. ReadersHave BY <2>7 DEF ReadersHave
  <2>9. ~ReadersHave' BY <1>1, <1>2, <1>23, <2>7, LastGone
  <2>10. HoldsK(h)' BY <1>16, <1>26 DEF HoldsK
  <2>11. locked'["k"] BY <1>1, <1>2, <2>8 DEF KInv
  <2>12. KInv' BY <1>22, <2>9, <2>10, <2>11 DEF KInv
  <2> QED BY <1>4, <1>12, <1>13, <1>15, <1>17, <1>19, <1>20, <2>6, <2>12 DEF IInv
<1> QED BY <1>25, <1>26 DEF Locks

----------------------------------------------------------------------------
(* Steps of readers that change their number.                              *)

\* None are counted as 0.
LEMMA CountNone == Counts(0, {})
<1>1. PICK g : g = [i \in 1..0 |-> i] OBVIOUS
<1>2. Numbers(g, 0, {}) BY SMT, <1>1 DEF Numbers
<1> QED BY <1>2 DEF Counts, Numbers

\* One more is one more.
LEMMA CountIn ==
  ASSUME NEW S, NEW n, Counts(n, S), NEW x, x \notin S
  PROVE  Counts(n + 1, S \cup {x})
<1>1. PICK g \in [1..n -> S] : Numbers(g, n, S) BY DEF Counts
<1>2. n \in Nat BY DEF Counts
<1>3. PICK h : h = [i \in 1..n + 1 |-> IF i <= n THEN g[i] ELSE x] OBVIOUS
<1>4. Numbers(h, n + 1, S \cup {x}) BY SMT, <1>1, <1>2, <1>3 DEF Numbers
<1>5. n + 1 \in Nat BY SMT, <1>2
<1> QED BY <1>4, <1>5 DEF Counts, Numbers

\* One less is one less: the last one takes its number.
LEMMA CountOut ==
  ASSUME NEW S, NEW n, Counts(n, S), NEW x \in S
  PROVE  n \in Nat /\ n > 0 /\ Counts(n - 1, S \ {x})
<1>1. PICK g \in [1..n -> S] : Numbers(g, n, S) BY DEF Counts
<1>2. n \in Nat BY DEF Counts
<1>3. PICK k \in 1..n : g[k] = x BY <1>1 DEF Numbers
<1>4. PICK h : h = [i \in 1..n - 1 |-> IF i = k THEN g[n] ELSE g[i]] OBVIOUS
<1>5. n > 0 /\ n - 1 \in Nat BY SMT, <1>2, <1>3
<1>6. h \in [1..n - 1 -> S \ {x}]
  <2>1. ASSUME NEW i \in 1..n - 1 PROVE h[i] \in S \ {x} BY SMT, <1>1, <1>2, <1>3, <1>4 DEF Numbers
  <2> QED BY SMT, <1>4, <2>1
<1>7. ASSUME NEW i \in 1..n - 1, NEW j \in 1..n - 1, h[i] = h[j] PROVE i = j
  BY SMT, <1>1, <1>2, <1>3, <1>4, <1>7 DEF Numbers
<1>8. ASSUME NEW y \in S \ {x} PROVE \E i \in 1..n - 1 : h[i] = y
  <2>1. PICK i \in 1..n : g[i] = y BY <1>1 DEF Numbers
  <2>2. i # k BY <1>3, <2>1
  <2>3. CASE i = n BY SMT, <1>2, <1>3, <1>4, <2>1, <2>2, <2>3
  <2>4. CASE i # n BY SMT, <1>2, <1>3, <1>4, <2>1, <2>2, <2>4
  <2> QED BY <2>3, <2>4
<1>9. Numbers(h, n - 1, S \ {x}) BY <1>6, <1>7, <1>8 DEF Numbers
<1> QED BY <1>2, <1>5, <1>6, <1>9 DEF Counts

\* The count of readers in the next state.
LEMMA ReadNext ==
  ASSUME NEW R, {p \in Procs : Reads(p)}' = R, Counts(readers', R),
         \A p \in Procs : Leaving(p)' => readers' = 0
  PROVE  ReadInv'
<1>1. Counts(readers, {p \in Procs : Reads(p)})' <=> Counts(readers', {p \in Procs : Reads(p)}')
  BY DEF Counts, Numbers
<1> QED BY <1>1 DEF ReadInv

\* A thread that counts as a reader is counted.
LEMMA ReadersCounted ==
  ASSUME ReadInv
  PROVE  readers \in Nat /\ \A p \in Procs : Reads(p) => readers > 0
<1>1. PICK R : R = {p \in Procs : Reads(p)} OBVIOUS
<1>2. Counts(readers, R) BY <1>1 DEF ReadInv
<1>3. readers \in Nat BY <1>2 DEF Counts
<1>4. ASSUME NEW p \in Procs, Reads(p) PROVE readers > 0
  <2>1. p \in R BY <1>1, <1>4
  <2> QED BY <1>2, <2>1, CountOut
<1> QED BY <1>3, <1>4

\* A reader counts itself.  Until canqlock k is not locked for the first one.
LEMMA StepEnter ==
  ASSUME IInv, NEW p \in Procs, Enter(p)
  PROVE  IInv'
<1>1. Places /\ Types /\ UseInv /\ LInv /\ XInv /\ ReadInv /\ KInv BY DEF IInv
<1>2. Busy(p) /\ Call(p)[1] = "enter" /\ step[p] = 1 BY DEF Enter, In
<1>3. Reader(p) /\ pos[p] = 3 BY SMT, <1>1, <1>2, LockCalls
<1>4. Move(p, op[p], 4, 1) /\ op[p] \in Ops
  <2>1. pos[p] + 1 <= Len(Code[op[p]]) BY SMT, <1>3, Calls DEF Reader
  <2>2. Move(p, op[p], pos[p] + 1, 1) BY SMT, <1>1, <1>2, <2>1, Advances DEF Enter
  <2> QED BY SMTT(30), <1>3, <2>2 DEF Reader, Ops
<1>5. op'[p] = op[p] /\ pos'[p] = 4 /\ step'[p] = 1 BY SMT, <1>1, <1>4, Moved
<1>6. UNCHANGED <<use, locked, queue, l, sem, woken>> /\ readers' = readers + 1 BY DEF Enter
<1>7. UseInv' BY SMT, <1>1, <1>2, <1>4, <1>6, FrameUse
<1>8. Types' BY <1>1, <1>6 DEF Types
<1>9. Valid(p)' BY SMT, <1>3, <1>5 DEF Valid, Reader
<1>10. /\ ~Handing(p) /\ ~Handing(p)'
       /\ \A r \in Locks : ~Waits(p, r) /\ ~Waits(p, r)'
  BY SMTT(30), <1>2, <1>5 DEF Handing, Waits
<1>11. HoldsX(p)' /\ HoldsX(p) BY SMT, <1>3, <1>5 DEF HoldsX, Reader
<1>12. Places' /\ XInv' /\ QueueInv' /\ PostInv' BY SMT, <1>4, <1>6, <1>9, <1>10, <1>11, QuietX
<1>13. InL(p) /\ InL(p)' BY SMT, <1>3, <1>5 DEF InL, Reader
<1>14. LInv' BY <1>1, <1>4, <1>6, <1>13, QuietL
<1>15. \A r \in Procs \ {p} : ~Entering(r) /\ ~Leaving(r) /\ ~Entering(r)' /\ ~Leaving(r)'
  <2>1. \A r \in Procs \ {p} : ~InL(r) BY <1>1, <1>13 DEF LInv
  <2>2. \A r \in Procs \ {p} : ~Entering(r) /\ ~Leaving(r)
    <3>1. 4 \in 3..5 /\ 3 \in 2..4 BY SMT
    <3> QED BY <2>1, <3>1 DEF InL, Entering, Leaving
  <2>3. \A r \in Procs \ {p} : (Entering(r)' <=> Entering(r)) /\ (Leaving(r)' <=> Leaving(r))
    BY <1>1, <1>4, Moved, Stays
  <2> QED BY <2>2, <2>3
<1>16. ~Entering(p) /\ Entering(p)' /\ ~Leaving(p) /\ ~Leaving(p)'
  BY SMT, <1>3, <1>5 DEF Entering, Leaving, Reader
<1>17. ReadInv'
  <2>0. PICK R : R = {r \in Procs : Reads(r)} OBVIOUS
  <2>1. p \notin R /\ Reads(p)' BY SMT, <1>3, <1>5, <2>0 DEF Reads, Reader
  <2>2. \A r \in Procs \ {p} : Reads(r)' <=> Reads(r) BY <1>1, <1>4, Moved, Stays
  <2>3. {r \in Procs : Reads(r)}' = R \cup {p} BY <2>0, <2>1, <2>2
  <2>4. Counts(readers, R) BY <1>1, <2>0 DEF ReadInv
  <2>5. Counts(readers', R \cup {p}) BY <1>6, <2>1, <2>4, CountIn
  <2>6. \A r \in Procs : ~Leaving(r)' BY <1>15, <1>16
  <2> QED BY <2>3, <2>5, <2>6, ReadNext
<1>18. KInv'
  <2>1. readers \in Nat BY <1>1, ReadersCounted
  <2>2. \A r \in Procs : ~Passing(r) /\ ~Passing(r)' BY <1>15, <1>16 DEF Passing
  <2>3. ReadersHave <=> readers > 0 BY <1>15, <1>16, <2>2 DEF ReadersHave
  <2>4. ReadersHave' <=> readers > 0 BY SMT, <1>6, <1>16, <2>1, <2>2 DEF ReadersHave
  <2>5. HoldsK(p)' <=> HoldsK(p)
    BY <1>3, <1>5, <1>10 DEF HoldsK, Given, Reader, Locks
  <2>6. \A r \in Procs : HoldsK(r)' <=> HoldsK(r) BY <1>1, <1>4, <1>6, <2>5, Extend
  <2> QED BY <1>1, <1>6, <2>3, <2>4, <2>6, FrameK
<1> QED BY <1>7, <1>8, <1>12, <1>14, <1>17, <1>18 DEF IInv

\* A reader discounts itself; the last one has k to unlock.
LEMMA StepLeave ==
  ASSUME IInv, NEW p \in Procs, Leave(p)
  PROVE  IInv'
<1>1. Places /\ Types /\ UseInv /\ LInv /\ XInv /\ ReadInv /\ KInv BY DEF IInv
<1>2. Busy(p) /\ Call(p)[1] = "leave" /\ step[p] = 1 BY DEF Leave, In
<1>3. op[p] = "runlock" /\ pos[p] = 2 BY SMT, <1>1, <1>2, LockCalls
<1>4. Move(p, "runlock", IF readers = 1 THEN 3 ELSE 4, 1)
  <2>1. CASE readers = 1
    <3>1. Advance(p, 1) BY <2>1 DEF Leave
    <3> QED BY SMT, <1>1, <1>2, <1>3, <2>1, <3>1, Advances, Calls
  <2>2. CASE readers # 1
    <3>1. Advance(p, 2) BY <2>2 DEF Leave
    <3> QED BY SMT, <1>1, <1>2, <1>3, <2>2, <3>1, Advances, Calls
  <2> QED BY <2>1, <2>2
<1>5. PICK n \in {3, 4} : Move(p, "runlock", n, 1) /\ (n = 3 <=> readers = 1) BY SMT, <1>4
<1>6. op'[p] = "runlock" /\ pos'[p] = n /\ step'[p] = 1 BY SMT, <1>1, <1>5, Moved
<1>7. UNCHANGED <<use, locked, queue, l, sem, woken>> /\ readers' = readers - 1 BY DEF Leave
<1>8. UseInv' BY SMT, <1>1, <1>2, <1>5, <1>7, FrameUse
<1>9. Types' BY <1>1, <1>7 DEF Types
<1>10. Valid(p)' BY SMTT(30), <1>5, <1>6 DEF Valid, Reader
<1>11. /\ ~Handing(p) /\ ~Handing(p)'
       /\ \A r \in Locks : ~Waits(p, r) /\ ~Waits(p, r)'
  BY SMT, <1>2, <1>6 DEF Handing, Waits
<1>12. ~HoldsX(p)' /\ ~HoldsX(p)
  BY <1>3, <1>6, <1>11 DEF HoldsX, Given, Reader, Locks
<1>13. Places' /\ XInv' /\ QueueInv' /\ PostInv'
  BY SMT, <1>5, <1>7, <1>10, <1>11, <1>12, QuietX DEF Ops
<1>14. InL(p) /\ InL(p)' BY SMT, <1>3, <1>5, <1>6 DEF InL, Reader
<1>15. LInv' BY <1>1, <1>5, <1>7, <1>14, QuietL
<1>16. \A r \in Procs \ {p} : ~Entering(r) /\ ~Leaving(r) /\ ~Entering(r)' /\ ~Leaving(r)'
  <2>1. \A r \in Procs \ {p} : ~InL(r) BY <1>1, <1>14 DEF LInv
  <2>2. \A r \in Procs \ {p} : ~Entering(r) /\ ~Leaving(r)
    <3>1. 4 \in 3..5 /\ 3 \in 2..4 BY SMT
    <3> QED BY <2>1, <3>1 DEF InL, Entering, Leaving
  <2>3. \A r \in Procs \ {p} : op'[r] = op[r] /\ pos'[r] = pos[r] /\ step'[r] = step[r]
    BY <1>1, <1>5, Moved
  <2> QED BY <2>2, <2>3, Stays
<1>17. ~Entering(p) /\ ~Entering(p)' /\ ~Leaving(p) /\ (Leaving(p)' <=> readers = 1)
  BY SMT, <1>3, <1>5, <1>6 DEF Entering, Leaving, Reader
<1>18. PICK R : R = {r \in Procs : Reads(r)} OBVIOUS
<1>19. p \in R BY SMT, <1>3, <1>18 DEF Reads
<1>20. Counts(readers, R) BY <1>1, <1>18 DEF ReadInv
<1>21. readers \in Nat /\ readers > 0 BY <1>19, <1>20, CountOut
<1>22. ReadInv'
  <2>1. ~Reads(p)' BY SMT, <1>5, <1>6 DEF Reads, Reader
  <2>2. \A r \in Procs \ {p} : Reads(r)' <=> Reads(r) BY <1>1, <1>5, Moved, Stays
  <2>3. {r \in Procs : Reads(r)}' = R \ {p} BY <1>18, <2>1, <2>2
  <2>4. \A r \in Procs : Leaving(r)' => readers' = 0 BY SMT, <1>7, <1>16, <1>17
  <2>5. Counts(readers', R \ {p}) BY <1>7, <1>19, <1>20, CountOut
  <2> QED BY <2>3, <2>4, <2>5, ReadNext
<1>23. KInv'
  <2>1. ReadersHave BY <1>16, <1>17, <1>21 DEF ReadersHave
  <2>2. ReadersHave'
    <3>1. CASE readers = 1 BY SMT, <1>6, <1>17, <3>1 DEF ReadersHave, Passing
    <3>2. CASE readers # 1 BY SMT, <1>7, <1>16, <1>17, <1>21, <3>2 DEF ReadersHave
    <3> QED BY <3>1, <3>2
  <2>3. HoldsK(p)' <=> HoldsK(p)
    BY <1>3, <1>6, <1>11 DEF HoldsK, Given, Reader, Locks
  <2>4. \A r \in Procs : HoldsK(r)' <=> HoldsK(r) BY <1>1, <1>5, <1>7, <2>3, Extend
  <2> QED BY <1>1, <1>7, <2>1, <2>2, <2>4, FrameK
<1> QED BY <1>8, <1>9, <1>13, <1>15, <1>22, <1>23 DEF IInv

----------------------------------------------------------------------------
(* The theorems.                                                           *)

\* The invariant holds at the start.
LEMMA InitInv == Init => IInv
<1> SUFFICES ASSUME Init PROVE IInv BY SMT
<1>1. /\ op = [p \in Procs |-> "out"] /\ pos = [p \in Procs |-> 1] /\ step = [p \in Procs |-> 1]
      /\ use = [q \in Locks |-> None] /\ locked = [q \in Locks |-> FALSE]
      /\ queue = [q \in Locks |-> <<>>] /\ l = None /\ readers = 0
      /\ sem = [p \in Procs |-> 0] /\ woken = [p \in Procs |-> None]
  BY DEF Init
<1>2. \A p \in Procs : op[p] = "out" /\ pos[p] = 1 /\ step[p] = 1 BY <1>1
<1>3. \A p \in Procs : /\ ~HoldsX(p) /\ ~HoldsK(p) /\ ~InL(p) /\ ~Entering(p)
                       /\ ~Leaving(p) /\ ~Reads(p) /\ ~Handing(p)
                       /\ ~Given(p, "x") /\ ~Given(p, "k") /\ Valid(p)
  <2> SUFFICES ASSUME NEW p \in Procs
               PROVE  /\ ~HoldsX(p) /\ ~HoldsK(p) /\ ~InL(p) /\ ~Entering(p)
                      /\ ~Leaving(p) /\ ~Reads(p) /\ ~Handing(p)
                      /\ ~Given(p, "x") /\ ~Given(p, "k") /\ Valid(p)
    OBVIOUS
  <2>1. op[p] = "out" /\ pos[p] = 1 /\ step[p] = 1 /\ step[p] # 3 BY SMT, <1>2
  <2>2. \A q : ~Given(p, q) BY <2>1 DEF Given, Waits
  <2>3. ~Handing(p) /\ Valid(p) /\ ~Reader(p) BY <2>1 DEF Handing, Valid, Reader
  <2>4. ~InL(p) /\ ~Entering(p) /\ ~Leaving(p) /\ ~Reads(p) BY <2>1, <2>3 DEF InL, Entering, Leaving, Reads
  <2>5. ~HoldsX(p) /\ ~HoldsK(p) BY <2>1, <2>2, <2>3 DEF HoldsX, HoldsK
  <2> QED BY <2>2, <2>3, <2>4, <2>5
<1>4. Places BY SMT, <1>1, <1>3 DEF Places
<1>5. Types BY SMT, <1>1 DEF Types
<1>6. locked["x"] = FALSE /\ locked["k"] = FALSE BY <1>1 DEF Locks
<1>7. XInv BY <1>3, <1>6 DEF XInv
<1>8. LInv BY <1>1, <1>3, QLocksAssumption DEF LInv
<1>9. UseInv BY SMT, <1>1, <1>2, QLocksAssumption DEF UseInv
<1>10. QueueInv BY SMTT(30), <1>1 DEF QueueInv
<1>11. PostInv
  <2>1. \A p \in Procs : woken[p] = None /\ sem[p] = 0 BY <1>1
  <2> QED BY SMT, <1>3, <2>1, QLocksAssumption DEF PostInv
<1>12. ReadInv
  <2>1. {p \in Procs : Reads(p)} = {} BY <1>3
  <2>2. Counts(readers, {}) BY <1>1, CountNone
  <2> QED BY <1>3, <2>1, <2>2 DEF ReadInv
<1>13. ~ReadersHave BY SMT, <1>1, <1>3 DEF ReadersHave, Passing
<1>14. KInv BY <1>3, <1>6, <1>13 DEF KInv
<1> QED BY <1>4, <1>5, <1>7, <1>8, <1>9, <1>10, <1>11, <1>12, <1>14 DEF IInv

\* Every step keeps it.
LEMMA NextInv == IInv /\ [Next]_vars => IInv'
<1> SUFFICES ASSUME IInv, [Next]_vars PROVE IInv' BY SMT
<1>1. Places /\ Types BY DEF IInv
<1>2. CASE UNCHANGED vars
  <2>1. /\ op' = op /\ pos' = pos /\ step' = step /\ use' = use /\ locked' = locked
        /\ queue' = queue /\ l' = l /\ readers' = readers /\ sem' = sem /\ woken' = woken
    BY <1>2 DEF vars
  <2>2. \A r, q : Queued(r, q)' <=> Queued(r, q) BY <2>1 DEF Queued
  <2>3. ASSUME NEW r
        PROVE  /\ Valid(r)' <=> Valid(r)
               /\ \A q : /\ Qlocking(r, q)' <=> Qlocking(r, q)
                         /\ Qunlocking(r, q)' <=> Qunlocking(r, q)
                         /\ Trying(r, q)' <=> Trying(r, q)
                         /\ Waits(r, q)' <=> Waits(r, q)
               /\ InL(r)' <=> InL(r)
               /\ Entering(r)' <=> Entering(r)
               /\ Leaving(r)' <=> Leaving(r)
               /\ Passing(r)' <=> Passing(r)
               /\ Handing(r)' <=> Handing(r)
               /\ Reads(r)' <=> Reads(r)
               /\ HoldsX(r)' <=> HoldsX(r)
               /\ HoldsK(r)' <=> HoldsK(r)
    <3>1. op'[r] = op[r] /\ pos'[r] = pos[r] /\ step'[r] = step[r] BY <2>1
    <3>2. (Queued(r, "x")' <=> Queued(r, "x")) /\ (Queued(r, "k")' <=> Queued(r, "k")) BY <2>2
    <3> QED BY <3>1, <3>2, Stays
  <2>4. \A r, q : (Calling(r, q)' <=> Calling(r, q)) /\ (Given(r, q)' <=> Given(r, q))
    BY <2>2, <2>3 DEF Calling, Given
  <2>5. Places' /\ Types' BY <1>1, <2>1, <2>3 DEF Places, Types
  <2>6. XInv' BY <2>1, <2>3, FrameX DEF IInv
  <2>7. LInv' BY <2>1, <2>3, FrameL DEF IInv
  <2>8. UseInv' BY <2>1, <2>4 DEF UseInv, IInv
  <2>9. QueueInv' BY <1>1, <2>1, <2>3, FrameQueue DEF IInv
  <2>10. PostInv' BY <2>1, <2>3, <2>4, FramePost DEF IInv
  <2>11. ReadInv' BY <2>1, <2>3, FrameRead DEF IInv
  <2>12. ReadersHave' <=> ReadersHave BY <2>1, <2>3, FrameHave
  <2>13. KInv' BY <2>1, <2>3, <2>12, FrameK DEF IInv
  <2> QED BY <2>5, <2>6, <2>7, <2>8, <2>9, <2>10, <2>11, <2>13 DEF IInv
<1>3. ASSUME NEW p \in Procs, Start(p) PROVE IInv' BY <1>3, StepStart
<1>4. ASSUME NEW p \in Procs,
             LockUse(p) \/ Qlock(p) \/ Osblock(p) \/ Qunlock(p) \/ Osready(p)
               \/ Canqlock(p) \/ CanqlockBody(p)
      PROVE  IInv'
  <2>1. PICK q \in Locks : QStep(p, q) BY <1>1, <1>4, QSteps
  <2>2. CASE TakesUse(p, q) BY <2>2, StepTakesUse
  <2>3. CASE UseTaken(p, q) BY <2>3, StepUseTaken
  <2>4. CASE Takes(p, q) BY <2>4, StepTakes
  <2>5. CASE Queues(p, q) BY <2>5, StepQueues
  <2>6. CASE Wakes(p, q) BY <2>6, StepWakes
  <2>7. CASE Passes(p, q) BY <2>7, StepPasses
  <2>8. CASE Drops(p, q) BY <2>8, StepDrops
  <2>9. CASE Posts(p, q) BY <2>9, StepPosts
  <2>10. CASE Tries(p, q)
    <3>1. Reads(p) => readers > 0 BY ReadersCounted DEF IInv
    <3> QED BY <2>10, <3>1, StepTries
  <2> QED BY <2>1, <2>2, <2>3, <2>4, <2>5, <2>6, <2>7, <2>8, <2>9, <2>10 DEF QStep
<1>5. ASSUME NEW p \in Procs, LockL(p) \/ UnlockL(p) \/ Enter(p) \/ Leave(p) PROVE IInv'
  BY <1>5, StepLockL, StepUnlockL, StepEnter, StepLeave
<1> QED BY <1>2, <1>3, <1>4, <1>5 DEF Next, Step

\* The invariant holds in every state.
THEOREM Invariance == Spec => []IInv
BY InitInv, NextInv, PTL DEF Spec

\* Every variable keeps its type, and the count of readers is never negative.
THEOREM TypeCorrect == Spec => []TypeOK
<1>1. IInv => TypeOK
  <2> SUFFICES ASSUME IInv PROVE TypeOK BY SMT
  <2>1. Places /\ Types /\ LInv /\ ReadInv BY DEF IInv
  <2>3. readers \in Nat BY <2>1, ReadersCounted
  <2> QED BY <2>1, <2>3 DEF TypeOK, Places, Types, LInv
<1> QED BY <1>1, Invariance, PTL

\* A writer shares the lock with no reader and no other writer.
THEOREM WriterIsAlone == Spec => []WriterAlone
<1>1. IInv => WriterAlone
  <2> SUFFICES ASSUME IInv, NEW p \in Procs, NEW q \in Procs, p # q, op[p] = "writing"
               PROVE  op[q] \notin {"reading", "writing"}
    BY DEF WriterAlone
  <2>1. XInv /\ KInv /\ ReadInv /\ LInv BY DEF IInv
  <2>2. HoldsX(p) /\ HoldsK(p) BY DEF HoldsX, HoldsK
  <2>3. op[q] # "writing"
    <3>1. op[q] = "writing" => HoldsX(q) BY DEF HoldsX
    <3> QED BY <2>1, <2>2, <3>1 DEF XInv
  <2>4. op[q] # "reading"
    <3> SUFFICES ASSUME op[q] = "reading" PROVE FALSE BY SMT
    <3>1. ~ReadersHave BY <2>1, <2>2 DEF KInv
    <3>5. readers > 0
      <4>1. Reads(q) BY DEF Reads
      <4> QED BY <2>1, <4>1, ReadersCounted
    <3>6. PICK r \in Procs : Entering(r) BY <3>1, <3>5 DEF ReadersHave
    <3>7. HoldsX(r) /\ op[r] # "writing" BY SMT, <3>6 DEF Entering, HoldsX, Reader
    <3> QED BY <2>1, <2>2, <3>7 DEF XInv
  <2> QED BY <2>3, <2>4
<1> QED BY <1>1, Invariance, PTL

\* While there are readers and l->l is free, k is locked for them: the
\* canqlock whose result rlock ignores has not failed.
THEOREM KHeldForReaders == Spec => []ReadersHoldK
<1>1. IInv => ReadersHoldK
  <2> SUFFICES ASSUME IInv, readers > 0, l = None PROVE locked["k"] BY DEF ReadersHoldK
  <2>1. LInv /\ KInv BY DEF IInv
  <2>2. \A r \in Procs : ~Entering(r)
    <3>1. \A r \in Procs : ~InL(r) BY <2>1, QLocksAssumption DEF LInv
    <3>2. 4 \in 3 .. 5 BY SMT
    <3> QED BY <3>1, <3>2 DEF Entering, InL
  <2>3. ReadersHave BY <2>2 DEF ReadersHave
  <2> QED BY <2>1, <2>3 DEF KInv
<1> QED BY <1>1, Invariance, PTL

\* osready and osblock pair up: a post is meant for a thread that has been
\* taken from the queue, there is one of it, and none is left over.
THEOREM PostsPairUp == Spec => []PostsExact
<1>1. IInv => PostsExact
  <2> SUFFICES ASSUME IInv, NEW p \in Procs
               PROVE  LET wakers == {q \in Procs : woken[q] = p}
                      IN  IF In(p, "qlock", 3) /\ \A q \in Locks : ~Queued(p, q)
                          THEN \/ sem[p] = 1 /\ wakers = {}
                               \/ sem[p] = 0 /\ \E q \in Procs : wakers = {q}
                          ELSE sem[p] = 0 /\ wakers = {}
    BY DEF PostsExact
  <2>1. Places /\ Types /\ QueueInv /\ PostInv BY DEF IInv
  <2>2. PICK W : W = {q \in Procs : woken[q] = p} OBVIOUS
  <2>3. sem[p] = 0 \/ sem[p] = 1 BY SMT, <2>1 DEF Types
  <2>4. sem[p] = 1 => W = {} BY SMT, <2>1, <2>2 DEF PostInv
  <2>5. W # {} => \E q \in Procs : W = {q}
    <3> SUFFICES ASSUME NEW q \in Procs, woken[q] = p PROVE W = {q} BY <2>2
    <3>1. p # None BY QLocksAssumption
    <3> QED BY <2>1, <2>2, <3>1 DEF PostInv
  <2>6. sem[p] = 1 \/ (\E q \in Procs : woken[q] = p) <=> Given(p, "x") \/ Given(p, "k")
    BY <2>1 DEF PostInv
  <2>7. In(p, "qlock", 3) <=> \E q \in Locks : Waits(p, q)
    <3>1. Busy(p) => (Call(p)[1] = "qlock" <=> \E q \in Locks : Qlocking(p, q))
      <4> SUFFICES ASSUME Busy(p) PROVE Call(p)[1] = "qlock" <=> \E q \in Locks : Qlocking(p, q)
        BY SMT
      <4>1. Call(p)[1] = "qlock" => \E q \in Locks : Qlocking(p, q) BY SMT, <2>1, LockCalls DEF Locks
      <4>2. ASSUME NEW q \in Locks, Qlocking(p, q) PROVE Call(p)[1] = "qlock"
        BY SMT, <4>2, CallAt DEF Qlocking
      <4> QED BY <4>1, <4>2
    <3>2. (\E q \in Locks : Qlocking(p, q)) => Busy(p) BY Calls DEF Qlocking, Busy, Ops
    <3> QED BY <3>1, <3>2 DEF In, Waits
  <2>9. In(p, "qlock", 3) /\ (\A q \in Locks : ~Queued(p, q)) <=> Given(p, "x") \/ Given(p, "k")
    <3>1. ASSUME NEW q \in Locks, Given(p, q) PROVE \A w \in Locks : ~Queued(p, w)
      <4>1. \A w \in Locks : Queued(p, w) => w = q BY <2>1, <3>1, QueuedWaits, OneWait DEF Given
      <4> QED BY <3>1, <4>1 DEF Given
    <3>2. (\E q \in Locks : Waits(p, q)) /\ (\A q \in Locks : ~Queued(p, q)) <=> \E q \in Locks : Given(p, q)
      BY <3>1 DEF Given
    <3> QED BY <2>7, <3>2 DEF Locks
  <2>10. (In(p, "qlock", 3) /\ \A q \in Locks : ~Queued(p, q)) <=> (sem[p] = 1 \/ W # {})
    BY <2>2, <2>6, <2>9
  <2>11. sem[p] = 1 => sem[p] # 0 BY SMT, <2>3
  <2> QED BY <2>2, <2>3, <2>4, <2>5, <2>10, <2>11
<1> QED BY <1>1, Invariance, PTL

=============================================================================
