------------------------------- MODULE Rendez -------------------------------
(***************************************************************************)
(* Sleep, Wakeup and swiproc of emu/port/proc.c, and the bracket osenter / *)
(* osleave around host system calls.  One Proc sleeps on its Rendez or is  *)
(* in a host system call; wakers make the condition true and call Wakeup;  *)
(* interrupters call swiproc.  The steps are the critical sections of the  *)
(* spin locks up->rlock and r->l, which nest, and up->sysio, which is one  *)
(* step each time it is held.                                              *)
(***************************************************************************)
EXTENDS Naturals, FiniteSets

CONSTANTS Wakers, Intrs, None, Sleeper

ASSUME RendezAssumption ==
  /\ Wakers \cap Intrs = {}
  /\ {None, Sleeper} \cap (Wakers \cup Intrs) = {} /\ None # Sleeper
  /\ IsFiniteSet(Wakers) /\ IsFiniteSet(Intrs)

VARIABLES
  pc,        \* where each thread is
  rlock,     \* the holder of up->rlock
  rl,        \* the holder of r->l
  rp,        \* r->p is the sleeper
  ur,        \* up->r is the rendez
  cond,      \* the condition f(arg) of the Sleep
  swipend, killed, syscall, intwait,   \* fields of the sleeping Proc
  found,     \* swipend as osleave found it
  sem,       \* the semaphore of osblock and osready
  signals    \* host signals sent to the thread and not handled yet

vars == <<pc, rlock, rl, rp, ur, cond, swipend, killed, syscall,
          intwait, found, sem, signals>>

Threads == Wakers \cup Intrs \cup {Sleeper}

Init ==
  /\ pc = [t \in Threads |-> "out"]
  /\ rlock = None /\ rl = None
  /\ rp = FALSE /\ ur = FALSE /\ cond = FALSE
  /\ swipend = FALSE /\ killed = FALSE /\ syscall = FALSE /\ intwait = FALSE
  /\ found = FALSE
  /\ sem = 0 /\ signals = 0

Goto(t, l) == pc' = [pc EXCEPT ![t] = l]
At(t, l) == pc[t] = l

----------------------------------------------------------------------------
(* Sleep *)

SleepLock ==
  /\ At(Sleeper, "out") /\ rlock = None
  /\ rlock' = Sleeper
  /\ Goto(Sleeper, "sleep")
  /\ UNCHANGED <<rl, rp, ur, cond, swipend, killed, syscall, intwait,
                 found, sem, signals>>

SleepRendez ==
  /\ At(Sleeper, "sleep") /\ rl = None
  /\ rl' = Sleeper
  /\ Goto(Sleeper, "test")
  /\ UNCHANGED <<rlock, rp, ur, cond, swipend, killed, syscall, intwait,
                 found, sem, signals>>

\* Not sleeping after all, or r->p = up.  A second sleeper would panic.
SleepTestOnce ==                                                   \* mutant
  /\ At(Sleeper, "test")
  /\ rl' = None
  /\ IF killed THEN Goto(Sleeper, "wake") /\ UNCHANGED rp
     ELSE Goto(Sleeper, "queued") /\ rp' = TRUE
  /\ UNCHANGED <<rlock, ur, cond, swipend, killed, syscall, intwait,
                 found, sem, signals>>
SleepTest ==
  /\ At(Sleeper, "test")
  /\ rl' = None
  /\ IF killed \/ cond THEN Goto(Sleeper, "wake") /\ UNCHANGED rp
     ELSE Goto(Sleeper, "queued") /\ rp' = TRUE
  /\ UNCHANGED <<rlock, ur, cond, swipend, killed, syscall, intwait,
                 found, sem, signals>>

SleepUnlock ==
  /\ At(Sleeper, "queued")
  /\ swipend' = FALSE /\ ur' = TRUE /\ rlock' = None
  /\ Goto(Sleeper, "block")
  /\ UNCHANGED <<rl, rp, cond, killed, syscall, intwait, found,
                 sem, signals>>

Osblock ==
  /\ At(Sleeper, "block") /\ sem > 0
  /\ sem' = sem - 1
  /\ Goto(Sleeper, "relock")
  /\ UNCHANGED <<rlock, rl, rp, ur, cond, swipend, killed, syscall,
                 intwait, found, signals>>

SleepRelock ==
  /\ At(Sleeper, "relock") /\ rlock = None
  /\ rlock' = Sleeper /\ ur' = FALSE
  /\ Goto(Sleeper, "wake")
  /\ UNCHANGED <<rl, rp, cond, swipend, killed, syscall, intwait, found, sem, signals>>

\* error(Eintr), or the return to a caller that consumes the condition.
SleepReturn ==
  /\ At(Sleeper, "wake")
  /\ rlock' = None
  /\ IF killed \/ swipend
     THEN killed' = FALSE /\ swipend' = FALSE /\ UNCHANGED cond
     ELSE cond' = FALSE /\ UNCHANGED <<killed, swipend>>
  /\ Goto(Sleeper, "out")
  /\ UNCHANGED <<rl, rp, ur, syscall, intwait, found, sem, signals>>

----------------------------------------------------------------------------
(* osenter, the system call, osleave *)

Osenter ==
  /\ At(Sleeper, "out")
  /\ syscall' = TRUE
  /\ Goto(Sleeper, "host")
  /\ UNCHANGED <<rlock, rl, rp, ur, cond, swipend, killed, intwait,
                 found, sem, signals>>

OsleaveLock ==
  /\ At(Sleeper, "host") /\ rlock = None
  /\ found' = swipend /\ swipend' = FALSE
  /\ Goto(Sleeper, "leave")
  /\ UNCHANGED <<rlock, rl, rp, ur, cond, killed, syscall, intwait, sem, signals>>

OsleaveSysio ==
  /\ At(Sleeper, "leave")
  /\ syscall' = FALSE
  /\ Goto(Sleeper, "spin")
  /\ UNCHANGED <<rlock, rl, rp, ur, cond, swipend, killed, intwait,
                 found, sem, signals>>

OsleaveSpinNot ==                                                  \* mutant
  /\ At(Sleeper, "spin")
  /\ found' = FALSE
  /\ Goto(Sleeper, "out")
  /\ UNCHANGED <<rlock, rl, rp, ur, cond, swipend, killed, syscall,
                 intwait, sem, signals>>
OsleaveSpin ==
  /\ At(Sleeper, "spin") /\ ~intwait
  /\ found' = FALSE
  /\ Goto(Sleeper, "out")
  /\ UNCHANGED <<rlock, rl, rp, ur, cond, swipend, killed, syscall,
                 intwait, sem, signals>>

\* notkilled, called by the slaves of exportfs before they look for work.
Notkilled ==
  /\ At(Sleeper, "out") /\ rlock = None
  /\ killed' = FALSE
  /\ UNCHANGED <<pc, rlock, rl, rp, ur, cond, swipend, syscall, intwait,
                 found, sem, signals>>

\* The handler of the signal runs in the thread, wherever that is.
HandlerKeep ==                                                     \* mutant
  /\ signals > 0
  /\ signals' = signals - 1
  /\ UNCHANGED <<pc, rlock, rl, rp, ur, cond, swipend, killed, syscall,
                 intwait, found, sem>>
Handler ==
  /\ signals > 0
  /\ signals' = signals - 1
  /\ intwait' = FALSE
  /\ UNCHANGED <<pc, rlock, rl, rp, ur, cond, swipend, killed, syscall,
                 found, sem>>

----------------------------------------------------------------------------
(* Wakeup *)

MakeTrue(w) ==
  /\ At(w, "out")
  /\ cond' = TRUE
  /\ Goto(w, "wakeup")
  /\ UNCHANGED <<rlock, rl, rp, ur, swipend, killed, syscall, intwait,
                 found, sem, signals>>

WakeupKeep(w) ==                                                   \* mutant
  /\ At(w, "wakeup") /\ rl = None
  /\ sem' = IF rp THEN sem + 1 ELSE sem
  /\ Goto(w, "out")
  /\ UNCHANGED <<rlock, rl, rp, ur, cond, swipend, killed, syscall,
                 intwait, found, signals>>
WakeupSilent(w) ==                                                 \* mutant
  /\ At(w, "wakeup") /\ rl = None
  /\ rp' = FALSE
  /\ Goto(w, "out")
  /\ UNCHANGED <<rlock, rl, ur, cond, swipend, killed, syscall, intwait,
                 found, sem, signals>>
Wakeup(w) ==
  /\ At(w, "wakeup") /\ rl = None
  /\ rp' = FALSE
  /\ sem' = IF rp THEN sem + 1 ELSE sem
  /\ Goto(w, "out")
  /\ UNCHANGED <<rlock, rl, ur, cond, swipend, killed, syscall, intwait,
                 found, signals>>

----------------------------------------------------------------------------
(* swiproc *)

SwiLock(i) ==
  /\ At(i, "out") /\ rlock = None
  /\ \E interp \in BOOLEAN : killed' = (killed \/ ~interp)
  /\ IF ur THEN rlock' = i /\ Goto(i, "rendez")
     ELSE UNCHANGED rlock /\ Goto(i, "sysio")
  /\ UNCHANGED <<rl, rp, ur, cond, swipend, syscall, intwait, found, sem,
                 signals>>

SwiRendez(i) ==
  /\ At(i, "rendez") /\ rl = None
  /\ swipend' = (swipend \/ rp) /\ rp' = FALSE
  /\ sem' = IF rp THEN sem + 1 ELSE sem
  /\ rlock' = None
  /\ Goto(i, "out")
  /\ UNCHANGED <<rl, ur, cond, killed, syscall, intwait, found, signals>>

SwiSysio(i) ==
  /\ At(i, "sysio")
  /\ IF syscall /\ ~intwait
     THEN swipend' = TRUE /\ intwait' = TRUE /\ Goto(i, "signal")
     ELSE UNCHANGED <<swipend, intwait>> /\ Goto(i, "out")
  /\ UNCHANGED <<rlock, rl, rp, ur, cond, killed, syscall, found,
                 sem, signals>>

Oshostintr(i) ==
  /\ At(i, "signal")
  /\ signals' = signals + 1
  /\ Goto(i, "out")
  /\ UNCHANGED <<rlock, rl, rp, ur, cond, swipend, killed, syscall,
                 intwait, found, sem>>

----------------------------------------------------------------------------
Next ==
  \/ SleepLock \/ SleepRendez \/ SleepTest \/ SleepUnlock \/ Osblock
  \/ SleepRelock \/ SleepReturn
  \/ Osenter \/ OsleaveLock \/ OsleaveSysio \/ OsleaveSpin
  \/ Notkilled \/ Handler
  \/ \E w \in Wakers : MakeTrue(w) \/ Wakeup(w)
  \/ \E i \in Intrs : SwiLock(i) \/ SwiRendez(i) \/ SwiSysio(i) \/ Oshostintr(i)

Spec == Init /\ [][Next]_vars

\* Every thread goes on, signals are delivered, and a spin lock that is free
\* again and again is taken at last.
Fairness ==
  /\ WF_vars(SleepTest \/ SleepUnlock \/ Osblock \/ SleepReturn \/ OsleaveSpin)
  /\ SF_vars(SleepRendez) /\ SF_vars(SleepRelock)
  /\ SF_vars(OsleaveLock) /\ SF_vars(OsleaveSysio)
  /\ WF_vars(Handler)
  /\ \A w \in Wakers : SF_vars(Wakeup(w))
  /\ \A i \in Intrs : SF_vars(SwiRendez(i)) /\ SF_vars(SwiSysio(i)) /\ WF_vars(Oshostintr(i))

FairSpec == Spec /\ Fairness

----------------------------------------------------------------------------
(* Properties *)

Labels == {"out", "sleep", "test", "queued", "block", "relock", "wake", "host",
           "leave", "spin", "wakeup", "rendez", "sysio", "signal"}

\* Type invariant.
TypeOK ==
  /\ pc \in [Threads -> Labels]
  /\ rlock \in Threads \cup {None} /\ rl \in Threads \cup {None}
  /\ rp \in BOOLEAN /\ ur \in BOOLEAN /\ cond \in BOOLEAN
  /\ swipend \in BOOLEAN /\ killed \in BOOLEAN
  /\ syscall \in BOOLEAN /\ intwait \in BOOLEAN /\ found \in BOOLEAN
  /\ sem \in Nat /\ signals \in Nat

\* Every osready is matched by one osblock: the sleeper has been posted at
\* most once, and only while it is in the Sleep that the post is for.  A post
\* left over would end the next osblock of the thread, which may be one in
\* acquire or qlock, without the lock having been handed over.
OnePostPerSleep ==
  /\ sem <= 1
  /\ sem = 1 => ~rp /\ pc[Sleeper] \in {"queued", "block"}
  /\ rp => sem = 0 /\ pc[Sleeper] \in {"queued", "block"}

\* A sleeper whose condition is true is awake, or a Wakeup is under way.
NoLostWakeup ==
  At(Sleeper, "block") /\ rp /\ cond => \E w \in Wakers : At(w, "wakeup")

\* A killed sleeper is awake, or its killer is about to wake it.
NoLostKill ==
  At(Sleeper, "block") /\ rp /\ killed => \E i \in Intrs : At(i, "rendez")

\* Nobody sleeps on although the condition has come true, or although killed:
\* Sleep tests both before it queues, under the locks Wakeup and swiproc take.
NothingLost == NoLostWakeup /\ NoLostKill

\* A host signal reaches the thread only between osenter and the end of
\* osleave, with intwait set: trapUSR1 takes any other for a fault.
SignalExpected ==
  signals > 0 => /\ signals = 1 /\ intwait
                 /\ pc[Sleeper] \in {"host", "leave", "spin"}

\* A true condition ends the Sleep.
Woken == (pc[Sleeper] \in {"sleep", "test", "queued", "block"} /\ cond) ~> At(Sleeper, "out")

\* osleave returns: the spin on intwait ends.
Leaves == At(Sleeper, "leave") ~> At(Sleeper, "out")

=============================================================================
