------------------------------- MODULE VmToken ------------------------------
(***************************************************************************)
(* What dis.c promises of the virtual machine: a lock handed from thread   *)
(* to thread.  Threads that ask while it is taken are served in the order  *)
(* they asked, and before the spare threads of the pool; it is free only   *)
(* when nobody wants it.                                                   *)
(***************************************************************************)
EXTENDS Sequences

CONSTANTS Procs, None

VARIABLES owner,  \* the thread that has the machine, or None
          queue,  \* the threads that asked for it, in order
          pool    \* spare threads, to be given it when nobody asked

tvars == <<owner, queue, pool>>

Waits(p) == p \in pool \/ \E i \in DOMAIN queue : queue[i] = p

TokenInit == owner = None /\ queue = <<>> /\ pool = {}

(* A thread takes the free machine.                                        *)
Take(p) ==
  /\ owner = None
  /\ owner' = p
  /\ UNCHANGED <<queue, pool>>

(* A thread asks for the machine, or joins the pool, while it is taken.    *)
Ask(p) ==
  /\ owner \notin {None, p} /\ ~Waits(p)
  /\ \/ queue' = Append(queue, p) /\ UNCHANGED pool
     \/ pool' = pool \cup {p} /\ UNCHANGED queue
  /\ UNCHANGED owner

(* The owner passes it on, and may join the pool when it passes it to a    *)
(* thread that asked.                                                      *)
Pass ==
  /\ owner # None /\ queue # <<>>
  /\ owner' = Head(queue)
  /\ queue' = Tail(queue)
  /\ pool' \in {pool, pool \cup {owner}}

Retire ==
  /\ owner # None /\ queue = <<>>
  /\ \/ owner' \in pool /\ pool' = pool \ {owner'}
     \/ pool = {} /\ owner' = None /\ UNCHANGED pool
  /\ UNCHANGED queue

TokenNext == Pass \/ Retire \/ \E p \in Procs : Take(p) \/ Ask(p)

TokenSpec == TokenInit /\ [][TokenNext]_tvars
=============================================================================
