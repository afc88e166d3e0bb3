------------------------------- MODULE QLocks -------------------------------
(***************************************************************************)
(* The queueing locks of emu/port/lock.c: QLock, which hands the lock to   *)
(* the first waiter, and RWlock, made of two QLocks and a spin lock: x     *)
(* (exclusion, held by a writer and briefly by an entering reader), k      *)
(* (held by a writer or, together, by the readers) and l (the count).      *)
(*                                                                         *)
(* An operation of RWlock is a sequence of calls, Code[op]; each call      *)
(* takes a few steps, one for every critical section.                      *)
(***************************************************************************)
EXTENDS Integers, Sequences

CONSTANTS Procs, None

ASSUME QLocksAssumption == None \notin Procs

VARIABLES
  op,      \* the operation a proc executes, or "out", "reading", "writing"
  pos,     \* the index in Code[op] of the call it is in
  step,    \* the step of that call
  use,     \* q->use: who holds the spin lock of QLock q
  locked,  \* q->locked
  queue,   \* q->head ... q->tail
  l,       \* the holder of the spin lock l->l
  readers, \* l->readers
  sem,     \* the semaphores of osblock and osready
  woken    \* the proc that a qunlock took off the queue and has yet to post

vars == <<op, pos, step, use, locked, queue, l, readers, sem, woken>>

Locks == {"x", "k"}

RlockCode == <<<<"qlock", "x">>, <<"lock", "l">>, <<"enter", "l">>,
               <<"canqlock", "k">>, <<"unlock", "l">>, <<"qunlock", "x">>>>
CanrlockCode == [RlockCode EXCEPT ![1] = <<"tryqlock", "x">>]
RunlockCode == <<<<"lock", "l">>, <<"leave", "l">>, <<"qunlock", "k">>, <<"unlock", "l">>>>
WlockNoK == <<<<"qlock", "x">>>>                                    \* mutant
WlockCode == <<<<"qlock", "x">>, <<"qlock", "k">>>>
WunlockCode == <<<<"qunlock", "k">>, <<"qunlock", "x">>>>

Code == [rlock |-> RlockCode, canrlock |-> CanrlockCode, runlock |-> RunlockCode,
         wlock |-> WlockCode, wunlock |-> WunlockCode]

\* Where an operation leaves its caller.
After == [rlock |-> "reading", canrlock |-> "reading", runlock |-> "out",
          wlock |-> "writing", wunlock |-> "out"]

Busy(p) == op[p] \in DOMAIN Code
Call(p) == Code[op[p]][pos[p]]
In(p, f, n) == Busy(p) /\ Call(p)[1] = f /\ step[p] = n
Lk(p) == Call(p)[2]

Init ==
  /\ op = [p \in Procs |-> "out"]
  /\ pos = [p \in Procs |-> 1]
  /\ step = [p \in Procs |-> 1]
  /\ use = [q \in Locks |-> None]
  /\ locked = [q \in Locks |-> FALSE]
  /\ queue = [q \in Locks |-> <<>>]
  /\ l = None
  /\ readers = 0
  /\ sem = [p \in Procs |-> 0]
  /\ woken = [p \in Procs |-> None]

\* p goes on n calls further, or returns from the operation.
Advance(p, n) ==
  LET end == pos[p] + n > Len(Code[op[p]])
  IN  /\ op' = [op EXCEPT ![p] = IF end THEN After[@] ELSE @]
      /\ pos' = [pos EXCEPT ![p] = IF end THEN 1 ELSE @ + n]
      /\ step' = [step EXCEPT ![p] = 1]

Return(p, to) ==
  /\ op' = [op EXCEPT ![p] = to]
  /\ pos' = [pos EXCEPT ![p] = 1]
  /\ step' = [step EXCEPT ![p] = 1]

ToStep(p, n) == step' = [step EXCEPT ![p] = n] /\ UNCHANGED <<op, pos>>

Start(p) ==
  /\ \/ op[p] = "out" /\ \E o \in {"rlock", "canrlock", "wlock"} : Return(p, o)
     \/ op[p] = "reading" /\ Return(p, "runlock")
     \/ op[p] = "writing" /\ Return(p, "wunlock")
  /\ UNCHANGED <<use, locked, queue, l, readers, sem, woken>>

----------------------------------------------------------------------------
(* qlock, qunlock and canqlock *)

\* lock(&q->use)
LockUse(p) ==
  /\ In(p, "qlock", 1) \/ In(p, "qunlock", 1)
  /\ use[Lk(p)] = None
  /\ use' = [use EXCEPT ![Lk(p)] = p]
  /\ ToStep(p, 2)
  /\ UNCHANGED <<locked, queue, l, readers, sem, woken>>

QlockFront(p) ==                                                   \* mutant
  /\ In(p, "qlock", 2)
  /\ use' = [use EXCEPT ![Lk(p)] = None]
  /\ IF ~locked[Lk(p)]
     THEN /\ locked' = [locked EXCEPT ![Lk(p)] = TRUE]
          /\ Advance(p, 1)
          /\ UNCHANGED queue
     ELSE /\ queue' = [queue EXCEPT ![Lk(p)] = <<p>> \o @]
          /\ ToStep(p, 3)
          /\ UNCHANGED locked
  /\ UNCHANGED <<l, readers, sem, woken>>
Qlock(p) ==
  /\ In(p, "qlock", 2)
  /\ use' = [use EXCEPT ![Lk(p)] = None]
  /\ IF ~locked[Lk(p)]
     THEN /\ locked' = [locked EXCEPT ![Lk(p)] = TRUE]
          /\ Advance(p, 1)
          /\ UNCHANGED queue
     ELSE /\ queue' = [queue EXCEPT ![Lk(p)] = Append(@, p)]
          /\ ToStep(p, 3)
          /\ UNCHANGED locked
  /\ UNCHANGED <<l, readers, sem, woken>>

Osblock(p) ==
  /\ In(p, "qlock", 3) /\ sem[p] > 0
  /\ sem' = [sem EXCEPT ![p] = @ - 1]
  /\ Advance(p, 1)
  /\ UNCHANGED <<use, locked, queue, l, readers, woken>>

Qunlock(p) ==
  /\ In(p, "qunlock", 2)
  /\ use' = [use EXCEPT ![Lk(p)] = None]
  /\ IF queue[Lk(p)] # <<>>
     THEN /\ woken' = [woken EXCEPT ![p] = Head(queue[Lk(p)])]
          /\ queue' = [queue EXCEPT ![Lk(p)] = Tail(@)]
          /\ ToStep(p, 3)
          /\ UNCHANGED locked
     ELSE /\ locked' = [locked EXCEPT ![Lk(p)] = FALSE]
          /\ Advance(p, 1)
          /\ UNCHANGED <<queue, woken>>
  /\ UNCHANGED <<l, readers, sem>>

OsreadyNot(p) ==                                                   \* mutant
  /\ In(p, "qunlock", 3)
  /\ woken' = [woken EXCEPT ![p] = None]
  /\ Advance(p, 1)
  /\ UNCHANGED <<use, locked, queue, l, readers, sem>>
Osready(p) ==
  /\ In(p, "qunlock", 3)
  /\ sem' = [sem EXCEPT ![woken[p]] = @ + 1]
  /\ woken' = [woken EXCEPT ![p] = None]
  /\ Advance(p, 1)
  /\ UNCHANGED <<use, locked, queue, l, readers>>

\* canqlock fails when the spin lock is held, whatever the state of q.  rlock
\* ignores the result of canqlock(&l->k), canrlock gives up without l->x.
Refused(p) == IF Call(p)[1] = "tryqlock" THEN Return(p, "out") ELSE Advance(p, 1)

Canqlock(p) ==
  /\ In(p, "canqlock", 1) \/ In(p, "tryqlock", 1)
  /\ IF use[Lk(p)] # None THEN Refused(p) /\ UNCHANGED use
     ELSE use' = [use EXCEPT ![Lk(p)] = p] /\ ToStep(p, 2)
  /\ UNCHANGED <<locked, queue, l, readers, sem, woken>>

CanqlockBody(p) ==
  /\ In(p, "canqlock", 2) \/ In(p, "tryqlock", 2)
  /\ use' = [use EXCEPT ![Lk(p)] = None]
  /\ IF locked[Lk(p)] THEN Refused(p) ELSE Advance(p, 1)
  /\ locked' = [locked EXCEPT ![Lk(p)] = TRUE]
  /\ UNCHANGED <<queue, l, readers, sem, woken>>

----------------------------------------------------------------------------
(* The spin lock l->l and the count of readers *)

LockL(p) ==
  /\ In(p, "lock", 1) /\ l = None
  /\ l' = p
  /\ Advance(p, 1)
  /\ UNCHANGED <<use, locked, queue, readers, sem, woken>>

UnlockL(p) ==
  /\ In(p, "unlock", 1)
  /\ l' = None
  /\ Advance(p, 1)
  /\ UNCHANGED <<use, locked, queue, readers, sem, woken>>

Enter(p) ==
  /\ In(p, "enter", 1)
  /\ readers' = readers + 1
  /\ Advance(p, 1)
  /\ UNCHANGED <<use, locked, queue, l, sem, woken>>

\* Only the last reader unlocks k.
Leave(p) ==
  /\ In(p, "leave", 1)
  /\ readers' = readers - 1
  /\ Advance(p, IF readers = 1 THEN 1 ELSE 2)
  /\ UNCHANGED <<use, locked, queue, l, sem, woken>>

----------------------------------------------------------------------------
Step(p) ==
  \/ LockUse(p) \/ Qlock(p) \/ Osblock(p) \/ Qunlock(p) \/ Osready(p)
  \/ Canqlock(p) \/ CanqlockBody(p)
  \/ LockL(p) \/ UnlockL(p) \/ Enter(p) \/ Leave(p)

Next == \E p \in Procs : Start(p) \/ Step(p)

Spec == Init /\ [][Next]_vars

\* A spin lock that is free again and again is taken at last; whoever has the
\* lock releases it.
Fairness ==
  \A p \in Procs : SF_vars(Step(p)) /\ WF_vars(op[p] # "out" /\ Start(p))

FairSpec == Spec /\ Fairness

----------------------------------------------------------------------------
(* Properties *)

\* Type invariant.
TypeOK ==
  /\ op \in [Procs -> DOMAIN Code \cup {"out", "reading", "writing"}]
  /\ pos \in [Procs -> 1..6] /\ step \in [Procs -> 1..3]
  /\ use \in [Locks -> Procs \cup {None}]
  /\ locked \in [Locks -> BOOLEAN]
  /\ queue \in [Locks -> Seq(Procs)]
  /\ l \in Procs \cup {None}
  /\ readers \in Nat
  /\ sem \in [Procs -> 0..1]
  /\ woken \in [Procs -> Procs \cup {None}]

\* A writer is alone: rlock, canrlock and wlock together exclude readers and
\* other writers, although rlock ignores whether canqlock(&l->k) succeeded.
WriterAlone ==
  \A p, q \in Procs : p # q /\ op[p] = "writing" => op[q] \notin {"reading", "writing"}

\* While there are readers, and none of them is inside the critical section
\* of l, the lock k is held for them: canqlock never fails for the first one,
\* neither because k is locked nor because its spin lock is taken.
ReadersHoldK == readers > 0 /\ l = None => locked["k"]

Queued(p, q) == \E i \in DOMAIN queue[q] : queue[q][i] = p

\* A post is meant for a proc that waits and has left the queue, and there is
\* one per hand-over: none is left for a later osblock of the same thread.
PostsExact ==
  \A p \in Procs :
    LET wakers == {q \in Procs : woken[q] = p}
    IN  IF In(p, "qlock", 3) /\ \A q \in Locks : ~Queued(p, q)
        THEN \/ sem[p] = 1 /\ wakers = {}
             \/ sem[p] = 0 /\ \E q \in Procs : wakers = {q}
        ELSE sem[p] = 0 /\ wakers = {}

\* Who asks for the lock gets it: the queues are served in order and a stream
\* of readers cannot keep a writer out.
Granted ==
  \A p \in Procs : /\ op[p] = "rlock" ~> op[p] = "reading"
                   /\ op[p] = "wlock" ~> op[p] = "writing"

=============================================================================
