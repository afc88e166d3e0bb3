---------------------------- MODULE RendezProofs ----------------------------
(***************************************************************************)
(* Proofs about Sleep, Wakeup and swiproc (emu/port/proc.c), for any       *)
(* number of threads that call Wakeup and swiproc on the sleeping Proc.    *)
(***************************************************************************)
EXTENDS Rendez, TLAPS

\* Where the threads may be, by what they are.
Places ==
  /\ pc[Sleeper] \in {"out", "sleep", "test", "queued", "block", "relock", "wake",
                      "host", "leave", "spin"}
  /\ \A w \in Wakers : pc[w] \in {"out", "wakeup"}
  /\ \A i \in Intrs : pc[i] \in {"out", "rendez", "sysio", "signal"}

\* Which code holds which lock, and what up->r says about the sleeper.
LockInv ==
  /\ rlock = Sleeper <=> pc[Sleeper] \in {"sleep", "test", "queued", "wake"}
  /\ \A i \in Intrs : rlock = i <=> pc[i] = "rendez"
  /\ rl = IF pc[Sleeper] = "test" THEN Sleeper ELSE None
  /\ ur <=> pc[Sleeper] \in {"block", "relock"}

\* A queued sleeper is known to r->p or has been posted, never both.
PostInv ==
  /\ pc[Sleeper] \in {"queued", "block"} => (rp /\ sem = 0) \/ (~rp /\ sem = 1)
  /\ pc[Sleeper] \notin {"queued", "block"} => ~rp /\ sem = 0

\* What Sleep has tested stays false until someone sees up->r and r->p.
PendInv ==
  /\ pc[Sleeper] \in {"queued", "block"} /\ rp /\ cond => \E w \in Wakers : At(w, "wakeup")
  /\ pc[Sleeper] = "queued" => ~killed
  /\ NoLostKill

\* One signal, sent or about to be sent, for intwait.
SignalInv ==
  /\ syscall <=> pc[Sleeper] \in {"host", "leave"}
  /\ intwait => pc[Sleeper] \in {"host", "leave", "spin"}
  /\ \A i \in Intrs : pc[i] = "signal" => intwait /\ signals = 0
  /\ \A i, j \in Intrs : pc[i] = "signal" /\ pc[j] = "signal" => i = j
  /\ signals = 0 \/ (signals = 1 /\ intwait)

\* The inductive invariant.
Inv == TypeOK /\ Places /\ LockInv /\ PostInv /\ PendInv /\ SignalInv

----------------------------------------------------------------------------
\* Type correctness: every step of Sleep, Wakeup, swiproc, osenter and osleave
\* leaves the locks, flags and counts what they are.
LEMMA TypeStep ==
  ASSUME TypeOK, Next
  PROVE  TypeOK'
<1> USE DEF TypeOK, Threads, Labels, Goto, At
<1>1. CASE SleepLock
  BY <1>1 DEF SleepLock
<1>2. CASE SleepRendez
  BY <1>2 DEF SleepRendez
<1>3. CASE SleepTest
  BY <1>3 DEF SleepTest
<1>4. CASE SleepUnlock
  BY <1>4 DEF SleepUnlock
<1>5. CASE Osblock
  BY <1>5 DEF Osblock
<1>6. CASE SleepRelock
  BY <1>6 DEF SleepRelock
<1>7. CASE SleepReturn
  BY <1>7 DEF SleepReturn
<1>8. CASE Osenter
  BY <1>8 DEF Osenter
<1>9. CASE OsleaveLock
  BY <1>9 DEF OsleaveLock
<1>10. CASE OsleaveSysio
  BY <1>10 DEF OsleaveSysio
<1>11. CASE OsleaveSpin
  BY <1>11 DEF OsleaveSpin
<1>12. CASE Notkilled
  BY <1>12 DEF Notkilled
<1>13. CASE Handler
  <2>1. signals' \in Nat
    BY <1>13 DEF Handler
  <2>2. intwait' \in BOOLEAN
    BY <1>13, Zenon DEF Handler
  <2> QED BY <1>13, <2>1, <2>2, Zenon DEF Handler
<1>14. ASSUME NEW w \in Wakers, MakeTrue(w)
       PROVE  TypeOK'
  BY <1>14 DEF MakeTrue
<1>19. ASSUME NEW w \in Wakers, Wakeup(w)
       PROVE  TypeOK'
  <2>1. sem' \in Nat
    BY <1>19 DEF Wakeup
  <2>2. pc' \in [Threads -> Labels]
    BY <1>19 DEF Wakeup
  <2> QED BY <1>19, <2>1, <2>2, Zenon DEF Wakeup
<1>15. ASSUME NEW i \in Intrs, SwiLock(i) PROVE TypeOK'
  BY <1>15 DEF SwiLock
<1>16. ASSUME NEW i \in Intrs, SwiRendez(i) PROVE TypeOK'
  <2>1. sem' \in Nat
    BY <1>16 DEF SwiRendez
  <2>2. pc' \in [Threads -> Labels]
    BY <1>16 DEF SwiRendez
  <2>3. swipend' \in BOOLEAN
    BY <1>16, Zenon DEF SwiRendez
  <2> QED BY <1>16, <2>1, <2>2, <2>3, Zenon DEF SwiRendez
<1>17. ASSUME NEW i \in Intrs, SwiSysio(i) PROVE TypeOK'
  <2>1. pc' \in [Threads -> Labels]
    BY <1>17 DEF SwiSysio
  <2>2. swipend' \in BOOLEAN /\ intwait' \in BOOLEAN
    BY <1>17, Zenon DEF SwiSysio
  <2> QED BY <1>17, <2>1, <2>2, Zenon DEF SwiSysio
<1>18. ASSUME NEW i \in Intrs, Oshostintr(i) PROVE TypeOK'
  BY <1>18 DEF Oshostintr
<1> QED
  BY <1>1, <1>2, <1>3, <1>4, <1>5, <1>6, <1>7, <1>8, <1>9, <1>10, <1>11, <1>12, <1>13, <1>14, <1>15, <1>16, <1>17, <1>18, <1>19 DEF Next

\* Sleep, the system call bracket and the host signal: every step of the
\* sleeping Proc keeps the invariant.
LEMMA SleeperStep ==
  ASSUME Inv, SleepLock \/ SleepRendez \/ SleepTest \/ SleepUnlock \/ Osblock
              \/ SleepRelock \/ SleepReturn
              \/ Osenter \/ OsleaveLock \/ OsleaveSysio \/ OsleaveSpin
              \/ Notkilled \/ Handler
  PROVE  Inv'
<1> USE RendezAssumption DEF Inv, TypeOK, Places, LockInv, PostInv, PendInv, SignalInv,
                             NoLostKill, Threads, Labels, Goto, At
<1>1. CASE SleepLock
  BY <1>1 DEF SleepLock
<1>2. CASE SleepRendez
  BY <1>2 DEF SleepRendez
<1>3. CASE SleepTest
  <2>1. TypeOK'
    BY TypeStep DEF Next, Inv
  <2>2. Places'
    BY <1>3 DEF SleepTest
  <2>3. LockInv'
    BY <1>3 DEF SleepTest
  <2>4. PostInv'
    BY <1>3 DEF SleepTest
  <2>5. PendInv'
    BY <1>3 DEF SleepTest
  <2>6. SignalInv'
    BY <1>3 DEF SleepTest
  <2> QED BY <2>1, <2>2, <2>3, <2>4, <2>5, <2>6 DEF Inv
<1>4. CASE SleepUnlock
  BY <1>4 DEF SleepUnlock
<1>5. CASE Osblock
  BY <1>5 DEF Osblock
<1>6. CASE SleepRelock
  BY <1>6 DEF SleepRelock
<1>7. CASE SleepReturn
  BY <1>7 DEF SleepReturn
<1>8. CASE Osenter
  BY <1>8 DEF Osenter
<1>9. CASE OsleaveLock
  BY <1>9 DEF OsleaveLock
<1>10. CASE OsleaveSysio
  <2>1. TypeOK'
    BY TypeStep DEF Next, Inv
  <2>2. Places' /\ LockInv'
    BY <1>10 DEF OsleaveSysio
  <2>3. PostInv' /\ PendInv'
    BY <1>10 DEF OsleaveSysio
  <2>4. SignalInv'
    BY <1>10 DEF OsleaveSysio
  <2> QED BY <2>1, <2>2, <2>3, <2>4 DEF Inv
<1>11. CASE OsleaveSpin
  BY <1>11 DEF OsleaveSpin
<1>12. CASE Notkilled
  BY <1>12 DEF Notkilled
<1>13. CASE Handler
  <2>1. TypeOK'
    BY TypeStep DEF Next, Inv
  <2>2. Places'
    BY <1>13 DEF Handler
  <2>3. LockInv'
    BY <1>13 DEF Handler
  <2>4. PostInv'
    BY <1>13 DEF Handler
  <2>5. PendInv'
    BY <1>13 DEF Handler
  <2>6. SignalInv'
    BY <1>13 DEF Handler
  <2> QED BY <2>1, <2>2, <2>3, <2>4, <2>5, <2>6 DEF Inv
<1> QED BY <1>1, <1>2, <1>3, <1>4, <1>5, <1>6, <1>7, <1>8, <1>9, <1>10, <1>11, <1>12, <1>13

\* Wakeup, and the code that makes the condition true, keep the invariant.
LEMMA WakerStep ==
  ASSUME Inv, NEW w \in Wakers, MakeTrue(w) \/ Wakeup(w)
  PROVE  Inv'
<1> USE RendezAssumption DEF Inv, TypeOK, Places, LockInv, PostInv, PendInv, SignalInv,
                             NoLostKill, Threads, Labels, Goto, At
<1>1. CASE MakeTrue(w)
  BY <1>1 DEF MakeTrue
<1>2. CASE Wakeup(w)
  <2>1. TypeOK'
    BY TypeStep DEF Next, Inv
  <2>2. Places'
    BY <1>2 DEF Wakeup
  <2>3. LockInv'
    BY <1>2 DEF Wakeup
  <2>4. PostInv'
    BY <1>2 DEF Wakeup
  <2>5. PendInv'
    BY <1>2 DEF Wakeup
  <2>6. SignalInv'
    BY <1>2 DEF Wakeup
  <2> QED BY <2>1, <2>2, <2>3, <2>4, <2>5, <2>6 DEF Inv
<1> QED BY <1>1, <1>2

\* swiproc keeps the invariant, whoever calls it.
LEMMA IntrStep ==
  ASSUME Inv, NEW i \in Intrs,
         SwiLock(i) \/ SwiRendez(i) \/ SwiSysio(i) \/ Oshostintr(i)
  PROVE  Inv'
<1> USE RendezAssumption DEF Inv, TypeOK, Places, LockInv, PostInv, PendInv, SignalInv,
                             NoLostKill, Threads, Labels, Goto, At
<1>1. CASE SwiLock(i)
  BY <1>1 DEF SwiLock
<1>2. CASE SwiRendez(i)
  <2>1. TypeOK'
    BY TypeStep DEF Next, Inv
  <2>2. Places'
    BY <1>2 DEF SwiRendez
  <2>3. LockInv'
    BY <1>2 DEF SwiRendez
  <2>4. PostInv'
    BY <1>2 DEF SwiRendez
  <2>5. PendInv'
    BY <1>2 DEF SwiRendez
  <2>6. SignalInv'
    BY <1>2 DEF SwiRendez
  <2> QED BY <2>1, <2>2, <2>3, <2>4, <2>5, <2>6 DEF Inv
<1>3. CASE SwiSysio(i)
  <2>1. TypeOK'
    BY TypeStep DEF Next, Inv
  <2>2. Places'
    BY <1>3 DEF SwiSysio
  <2>3. LockInv'
    BY <1>3 DEF SwiSysio
  <2>4. PostInv'
    BY <1>3 DEF SwiSysio
  <2>5. PendInv'
    BY <1>3 DEF SwiSysio
  <2>6. SignalInv'
    BY <1>3 DEF SwiSysio
  <2> QED BY <2>1, <2>2, <2>3, <2>4, <2>5, <2>6 DEF Inv
<1>4. CASE Oshostintr(i)
  BY <1>4 DEF Oshostintr
<1> QED BY <1>1, <1>2, <1>3, <1>4

\* The invariant holds in every state of Sleep, Wakeup and swiproc.
THEOREM Invariance == Spec => []Inv
<1>1. Init => Inv
  <2> SUFFICES ASSUME Init PROVE Inv
    OBVIOUS
  <2> USE RendezAssumption DEF Init, Threads
  <2>1. TypeOK
    BY DEF TypeOK, Labels
  <2>2. Places /\ LockInv
    BY DEF Places, LockInv
  <2>3. PostInv /\ PendInv /\ SignalInv
    BY DEF PostInv, PendInv, SignalInv, NoLostKill, At
  <2> QED BY <2>1, <2>2, <2>3 DEF Inv
<1>2. Inv /\ [Next]_vars => Inv'
  <2> SUFFICES ASSUME Inv, [Next]_vars PROVE Inv'
    OBVIOUS
  <2>1. CASE UNCHANGED vars
    BY <2>1 DEF vars, Inv, TypeOK, Places, LockInv, PostInv, PendInv, SignalInv, NoLostKill, At
  <2>2. CASE Next
    BY <2>2, SleeperStep, WakerStep, IntrStep DEF Next
  <2> QED BY <2>1, <2>2
<1> QED BY <1>1, <1>2, PTL DEF Spec

\* A thread that is put to sleep by Sleep is posted once for it, by Wakeup or
\* by swiproc, and never when it does not sleep: with any number of wakers
\* and interrupters no post is left for another osblock.
THEOREM PostsExact == Spec => []OnePostPerSleep
<1>1. Inv => OnePostPerSleep
  BY DEF Inv, PostInv, OnePostPerSleep
<1> QED BY <1>1, Invariance, PTL

\* No Wakeup and no kill is lost: Sleep tests the condition and up->killed
\* under the locks that Wakeup and swiproc take.
THEOREM SleepsEnd == Spec => []NothingLost
<1>1. Inv => NothingLost
  BY DEF Inv, PendInv, NothingLost, NoLostWakeup, At
<1> QED BY <1>1, Invariance, PTL

\* Every variable of Sleep, Wakeup, swiproc, osenter and osleave keeps its type.
THEOREM TypeCorrect == Spec => []TypeOK
<1>1. Inv => TypeOK
  BY DEF Inv
<1> QED BY <1>1, Invariance, PTL

\* oshostintr signals a thread only while it is in a host system call or in
\* osleave, and once: trapUSR1 always finds intwait set.
THEOREM SignalsExpected == Spec => []SignalExpected
<1>1. Inv => SignalExpected
  BY DEF Inv, SignalInv, SignalExpected
<1> QED BY <1>1, Invariance, PTL

=============================================================================
