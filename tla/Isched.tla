------------------------------- MODULE Isched -------------------------------
(***************************************************************************)
(* The Dis virtual machine is executed by one host thread (a Proc) at a    *)
(* time.  emu/port/dis.c passes the machine between the interpreter        *)
(* threads (Interps, which run vmachine), and the other kernel threads     *)
(* that have work to do inside it (Kprocs: acquire ... release, as rproc   *)
(* of proc.c does).  A thread waits for the machine on its own counting    *)
(* semaphore (osblock / osready); the idle interpreter waits on the same   *)
(* semaphore inside Sleep(&isched.irend).                                  *)
(*                                                                         *)
(* A section under isched.l is one step, and so is each osready, osblock   *)
(* and Wakeup outside it.  Code that runs inside the machine reads and     *)
(* writes the run queue without a lock.                                    *)
(*                                                                         *)
(* An element of the run queue is a Dis Prog, or a Proc standing for the   *)
(* Prog that newproc attaches to every kernel thread (up->prog).           *)
(***************************************************************************)
EXTENDS Integers, Sequences, FiniteSets

CONSTANTS Progs,    \* the Dis processes there can be
          Interps,  \* the threads kproc("dis", vmachine) can create
          Kprocs,   \* other kernel threads that enter the machine
          Boot,     \* the thread that runs disinit
          Root,     \* the Prog of the initial module
          YieldAfter, \* slices run while an acquirer waits: 2 in vmachine
          Finalizers, \* whether collected objects have files to close
          None

Procs == Interps \cup Kprocs

ASSUME IschedAssumption ==
  /\ Boot \in Interps /\ Root \in Progs
  /\ Interps \cap Kprocs = {}
  /\ Progs \cap Procs = {}
  /\ None \notin Progs \cup Procs
  /\ YieldAfter \in Nat
  /\ Finalizers \in BOOLEAN

(* Memory is finite.                                                       *)
ASSUME ProgsFinite == IsFiniteSet(Progs)

VARIABLES runq,      \* isched.runhd ... isched.runtl
          idle,      \* isched.idle: nobody has the machine
          creating,  \* isched.creating: an interpreter is on its way
          vmq,       \* isched.vmq: threads in acquire, first come first served
          idlevmq,   \* isched.idlevmq: interpreters with nothing to run, a stack
          irend,     \* isched.irend.p: the interpreter asleep in vmachine
          sem,       \* each thread's semaphore
          pc,        \* where each thread is
          exiting,   \* the threads inside delprog
          handoff,   \* the thread release or iyield has popped and must ready
          utype,     \* up->type: Interp, or a collector (BusyGC, IdleGC)
          iprog,     \* up->iprog: the Prog an interpreter took out with it
          cur,       \* vmachine's local r: the Prog being executed
          cycles,    \* vmachine's local cycles
          pstate,    \* Prog.state
          gchalt     \* gclock()/gcunlock() count of libinterp/gc.c

vmlock == <<idle, creating, vmq, idlevmq>>           \* what isched.l protects
block  == <<sem, irend, handoff>>
local  == <<exiting, utype, cur, cycles, gchalt>>
progs  == <<runq, iprog, pstate>>
vars   == <<vmlock, block, local, progs, pc>>

InVM      == {"loop", "idlegc", "sleep", "idleblk", "xec", "gc", "busygc",
              "finalized", "exit", "kwork", "cleanexit"}
Handing   == {"relready", "yieldready"}
VMBlocked == {"acqwake", "acqblock", "startblock", "yieldblock"}
Outside   == {"none", "startup", "relkproc", "released"}
Labels    == InVM \cup Handing \cup VMBlocked \cup Outside

Collecting == {"BusyGC", "IdleGC"}
Types      == Collecting \cup {"Interp", "Kproc"}
States     == {"none", "Pready", "Prelease", "Pblocked", "Pbroken"}

Goto(p, l) == pc' = [pc EXCEPT ![p] = l]
Set(f, p, v) == [f EXCEPT ![p] = v]

(* A semaphore is posted, or taken by the thread that waits on it.         *)
osready(p) == sem' = [sem EXCEPT ![p] = @ + 1]
osblock(p) == sem[p] > 0 /\ sem' = [sem EXCEPT ![p] = @ - 1]

(* p->state; the Prog of a kernel thread is in no other list.              *)
Mark(x, st) == pstate' = IF x \in Progs THEN Set(pstate, x, st) ELSE pstate

tready == runq # <<>> \/ vmq # <<>>

Init ==
  /\ runq = <<Root>>
  /\ idle = TRUE /\ creating = FALSE
  /\ vmq = <<>> /\ idlevmq = <<>>
  /\ irend = None
  /\ sem = [p \in Procs |-> 0]
  /\ pc = [p \in Procs |-> IF p = Boot THEN "startup" ELSE "none"]
  /\ exiting = {}
  /\ handoff = [p \in Procs |-> None]
  /\ utype = [p \in Procs |-> IF p \in Interps THEN "Interp" ELSE "Kproc"]
  /\ iprog = [p \in Procs |-> None]
  /\ cur = [p \in Procs |-> None]
  /\ cycles = [p \in Procs |-> 0]
  /\ pstate = [x \in Progs |-> IF x = Root THEN "Pready" ELSE "none"]
  /\ gchalt = 0

-----------------------------------------------------------------------------
(* acquire.  A thread enters with the Prog it took out (an interpreter) or *)
(* with its own, which goes to the front of the run queue, and carries on  *)
(* with what it left the machine for.                                      *)
Carried(p) == IF utype[p] = "Interp" THEN iprog[p] ELSE p

PushCarriedLast(p) == Append(runq, Carried(p))      \* mutant
PushCarried(p) == <<Carried(p)>> \o runq

Back(p) == IF utype[p] = "Kproc" THEN "kwork"
           ELSE IF utype[p] \in Collecting THEN "finalized"
           ELSE IF p \in exiting THEN "exit" ELSE "xec"

Enter(p) ==
  /\ runq' = PushCarried(p)
  /\ Mark(Carried(p), "Pready")
  /\ iprog' = Set(iprog, p, None)
  /\ Goto(p, Back(p))
  /\ UNCHANGED local

QueueFirst(p) == <<p>> \o vmq                       \* mutant
QueueLast(p) == Append(vmq, p)

NoWakeup == "acqblock"                              \* mutant
AfterQueueing == IF vmq = <<>> THEN "acqwake" ELSE "acqblock"

Acquire(p) ==
  \/ /\ idle
     /\ idle' = FALSE
     /\ Enter(p)
     /\ UNCHANGED <<creating, vmq, idlevmq, block>>
  \/ /\ ~idle
     /\ vmq' = QueueLast(p)
     /\ Goto(p, AfterQueueing)
     /\ UNCHANGED <<idle, creating, idlevmq, block, local, progs>>

(* The first thread to queue wakes the idle interpreter: Wakeup(&irend).   *)
AcquireWake(p) ==
  /\ pc[p] = "acqwake"
  /\ IF irend = None THEN UNCHANGED sem ELSE osready(irend)
  /\ irend' = None
  /\ Goto(p, "acqblock")
  /\ UNCHANGED <<vmlock, handoff, local, progs>>

AcquireGo(p) ==
  /\ pc[p] = "acqblock" /\ osblock(p)
  /\ Enter(p)
  /\ UNCHANGED <<vmlock, irend, handoff>>

(* release: isave/delrun takes the head of the run queue off; then, under  *)
(* isched.l, the machine goes to the first acquirer, else to the latest    *)
(* idle interpreter, else to nobody, with an interpreter created for it    *)
(* unless one is on its way.                                               *)
AlwaysCreate == "relkproc"                          \* mutant
NeverCreate == "released"                           \* mutant
AfterIdling == IF creating THEN "released" ELSE "relkproc"

Release(p) ==
  /\ runq' = Tail(runq)
  /\ Mark(Head(runq), "Prelease")
  /\ iprog' = IF utype[p] = "Interp" THEN Set(iprog, p, Head(runq)) ELSE iprog
  /\ \/ /\ vmq = <<>> /\ idlevmq = <<>>
        /\ idle' = TRUE /\ creating' = TRUE
        /\ Goto(p, AfterIdling)
        /\ UNCHANGED <<vmq, idlevmq, handoff>>
     \/ /\ vmq # <<>>
        /\ handoff' = Set(handoff, p, Head(vmq))
        /\ vmq' = Tail(vmq)
        /\ Goto(p, "relready")
        /\ UNCHANGED <<idle, creating, idlevmq>>
     \/ /\ vmq = <<>> /\ idlevmq # <<>>
        /\ handoff' = Set(handoff, p, Head(idlevmq))
        /\ idlevmq' = Tail(idlevmq)
        /\ Goto(p, "relready")
        /\ UNCHANGED <<idle, creating, vmq>>
  /\ UNCHANGED <<irend, sem, utype, cur, cycles>>

ReleaseReady(p) ==
  /\ pc[p] = "relready" /\ osready(handoff[p])
  /\ handoff' = Set(handoff, p, None)
  /\ Goto(p, "released")
  /\ UNCHANGED <<vmlock, irend, local, progs>>

(* kproc("dis", vmachine, nil, 0) in release.                              *)
ReleaseKproc(p, n) ==
  /\ pc[p] = "relkproc" /\ pc[n] = "none"
  /\ pc' = [pc EXCEPT ![p] = "released", ![n] = "startup"]
  /\ UNCHANGED <<vmlock, block, local, progs>>

(* The work done outside the machine (a system call, the closing of a dead *)
(* Prog's files or of a collected object's) ends; or a kernel thread has   *)
(* something to do inside (rproc).                                         *)
Return(p) ==
  /\ pc[p] = "released"
  /\ Acquire(p)

-----------------------------------------------------------------------------
(* vmachine.                                                               *)
TakesAnyway == TRUE                                 \* mutant
StartupTakes == idle

Startup(p) ==
  /\ pc[p] = "startup"
  /\ creating' = FALSE
  /\ IF StartupTakes
     THEN /\ idle' = FALSE
          /\ Goto(p, "loop")
          /\ UNCHANGED idlevmq
     ELSE /\ idlevmq' = <<p>> \o idlevmq
          /\ Goto(p, "startblock")
          /\ UNCHANGED idle
  /\ UNCHANGED <<vmq, block, local, progs>>

StartupGo(p) ==
  /\ pc[p] = "startblock" /\ osblock(p)
  /\ Goto(p, "loop")
  /\ UNCHANGED <<vmlock, irend, handoff, local, progs>>

(* Nothing to do: execatidle enters the collector's Prog on the (empty)    *)
(* run queue.                                                              *)
ExecAtIdle(p) ==
  /\ pc[p] = "loop" /\ ~tready
  /\ utype' = Set(utype, p, "IdleGC")
  /\ runq' = Append(runq, p)
  /\ Goto(p, "idlegc")
  /\ UNCHANGED <<vmlock, block, exiting, cur, cycles, gchalt, iprog, pstate>>

(* rungc does nothing when gclock is held; otherwise a finalizer it runs   *)
(* under gclock may close a file, outside the machine.                     *)
GcAlways == TRUE                                    \* mutant
gcruns == gchalt = 0

Finalize(p) ==
  /\ pc[p] \in {"idlegc", "busygc"} /\ Finalizers /\ gcruns
  /\ gchalt' = gchalt + 1
  /\ Release(p)
  /\ UNCHANGED exiting

EndFinalize(p) ==
  /\ pc[p] = "finalized"
  /\ gchalt' = gchalt - 1
  /\ Goto(p, IF utype[p] = "IdleGC" THEN "idlegc" ELSE "busygc")
  /\ UNCHANGED <<vmlock, block, exiting, utype, cur, cycles, progs>>

(* The collector stops: delrunq takes its Prog off the run queue.          *)
delrunq(x) ==
  IF \E i \in DOMAIN runq : runq[i] = x
  THEN LET f == CHOOSE i \in DOMAIN runq :
                  runq[i] = x /\ \A j \in 1..(i-1) : runq[j] # x
       IN  [j \in 1..(Len(runq) - 1) |-> IF j < f THEN runq[j] ELSE runq[j + 1]]
  ELSE runq

EndGC(p) ==
  /\ pc[p] \in {"idlegc", "busygc"}
  /\ runq' = delrunq(p)
  /\ utype' = Set(utype, p, "Interp")
  /\ Goto(p, IF pc[p] = "idlegc" THEN "sleep" ELSE "loop")
  /\ UNCHANGED <<vmlock, block, exiting, cur, cycles, gchalt, iprog, pstate>>

(* Sleep(&isched.irend, tready, 0), still owning the machine.  tready is   *)
(* then true, and stays so: only the owner takes from either queue.        *)
IdleSleep(p) ==
  /\ pc[p] = "sleep"
  /\ IF tready THEN Goto(p, "loop") /\ UNCHANGED irend
               ELSE Goto(p, "idleblk") /\ irend' = p
  /\ UNCHANGED <<vmlock, sem, handoff, local, progs>>

IdleWoken(p) ==
  /\ pc[p] = "idleblk" /\ osblock(p)
  /\ Goto(p, "loop")
  /\ UNCHANGED <<vmlock, irend, handoff, local, progs>>

(* r = isched.runhd; if(r != nil) r->xec(r)                                *)
RunHead(p) ==
  IF runq = <<>>
  THEN Goto(p, "gc") /\ UNCHANGED cur
  ELSE Goto(p, "xec") /\ cur' = Set(cur, p, Head(runq))

(* if(isched.vmq != nil && (isched.runhd == nil || ++cycles > 2)) iyield() *)
MayRun(p) == cycles[p] < YieldAfter

Run(p) ==
  /\ pc[p] = "loop" /\ tready
  /\ \/ vmq = <<>> /\ UNCHANGED cycles
     \/ vmq # <<>> /\ runq # <<>> /\ MayRun(p) /\ cycles' = [cycles EXCEPT ![p] = @ + 1]
  /\ RunHead(p)
  /\ UNCHANGED <<vmlock, block, exiting, utype, gchalt, progs>>

Yield(p) ==
  /\ pc[p] = "loop"
  /\ vmq # <<>> /\ (runq = <<>> \/ cycles[p] >= YieldAfter)
  /\ handoff' = Set(handoff, p, Head(vmq))
  /\ vmq' = Tail(vmq)
  /\ idlevmq' = <<p>> \o idlevmq
  /\ cycles' = Set(cycles, p, 0)
  /\ Goto(p, "yieldready")
  /\ UNCHANGED <<idle, creating, sem, irend, exiting, utype, cur, gchalt, progs>>

YieldReady(p) ==
  /\ pc[p] = "yieldready" /\ osready(handoff[p])
  /\ handoff' = Set(handoff, p, None)
  /\ Goto(p, "yieldblock")
  /\ UNCHANGED <<vmlock, irend, local, progs>>

YieldGo(p) ==
  /\ pc[p] = "yieldblock" /\ osblock(p)
  /\ RunHead(p)
  /\ UNCHANGED <<vmlock, irend, handoff, exiting, utype, cycles, gchalt, progs>>

(* The slice ends and the Prog goes to the back of the run queue, if it is *)
(* still at the front and not alone.                                       *)
NoRotation(q) == q                                  \* mutant
RotateCopy(q) == Append(q, Head(q))                 \* mutant
Rotate(q) == Append(Tail(q), Head(q))

EndSlice(p) ==
  /\ pc[p] = "xec"
  /\ runq' = IF runq # <<>> /\ Head(runq) = cur[p] /\ Len(runq) > 1
             THEN Rotate(runq) ELSE runq
  /\ cur' = Set(cur, p, None)
  /\ Goto(p, "gc")
  /\ UNCHANGED <<vmlock, block, exiting, utype, cycles, gchalt, iprog, pstate>>

(* The Prog blocks on a channel: delrun(Psend), delrun(Precv), delrun(Palt). *)
Block(p) ==
  /\ pc[p] = "xec"
  /\ runq' = Tail(runq)
  /\ Mark(Head(runq), "Pblocked")
  /\ cur' = Set(cur, p, None)
  /\ Goto(p, "gc")
  /\ UNCHANGED <<vmlock, block, exiting, utype, cycles, gchalt, iprog>>

(* The Prog, or a kernel thread inside the machine, makes another one      *)
(* ready: addrun.  A Prog also creates one: newprog.                       *)
Addrun(p, x) ==
  /\ \/ pc[p] = "xec" /\ pstate[x] \in {"Pblocked", "none"}
     \/ pc[p] = "kwork" /\ pstate[x] = "Pblocked"
  /\ runq' = Append(runq, x)
  /\ Mark(x, "Pready")
  /\ UNCHANGED <<vmlock, block, local, pc, iprog>>

(* The Prog calls a builtin that starts a kernel thread: rptproc.          *)
Rptproc(p, k) ==
  /\ pc[p] = "xec" /\ pc[k] = "none"
  /\ Goto(k, "released")
  /\ UNCHANGED <<vmlock, block, local, progs>>

Syscall(p) ==
  /\ pc[p] = "xec"
  /\ Release(p)
  /\ UNCHANGED <<exiting, gchalt>>

(* The Prog handles an exception: vmachine's loop restarts, with the Prog  *)
(* where it was in the run queue.                                          *)
Exception(p) ==
  /\ pc[p] = "xec"
  /\ cur' = Set(cur, p, None)
  /\ cycles' = Set(cycles, p, 0)
  /\ Goto(p, "loop")
  /\ UNCHANGED <<vmlock, block, exiting, utype, gchalt, progs>>

(* An exception that it does not handle leaves it Pbroken (progexit), or   *)
(* ends it (Exit).                                                         *)
Broken(p) ==
  /\ pc[p] = "xec"
  /\ runq' = Tail(runq)
  /\ Mark(Head(runq), "Pbroken")
  /\ cur' = Set(cur, p, None)
  /\ cycles' = Set(cycles, p, 0)
  /\ Goto(p, "loop")
  /\ UNCHANGED <<vmlock, block, exiting, utype, gchalt, iprog>>

(* progexit calls delprog, which closes the Prog's name space and files    *)
(* outside the machine and then takes it off the run queue, all under      *)
(* gclock.  The emulator ends with its last Prog.                          *)
Exit(p) ==
  /\ pc[p] = "xec"
  /\ gchalt' = gchalt + 1
  /\ exiting' = exiting \cup {p}
  /\ Release(p)

Delprog(p) ==
  /\ pc[p] = "exit"
  /\ runq' = IF runq # <<>> /\ Head(runq) = cur[p] THEN Tail(runq) ELSE runq
  /\ Mark(cur[p], "none")
  /\ cur' = Set(cur, p, None)
  /\ cycles' = Set(cycles, p, 0)
  /\ gchalt' = gchalt - 1
  /\ exiting' = exiting \ {p}
  /\ Goto(p, IF \A x \in Progs \ {cur[p]} : pstate[x] = "none" THEN "cleanexit" ELSE "loop")
  /\ UNCHANGED <<vmlock, block, utype, iprog>>

(* Every 256th time round, or when memory is low, a slice of collection:   *)
(* pushrun(up->prog), rungc.                                               *)
BusyGC(p) ==
  /\ pc[p] = "gc"
  /\ \/ /\ runq # <<>>
        /\ utype' = Set(utype, p, "BusyGC")
        /\ runq' = <<p>> \o runq
        /\ Goto(p, "busygc")
     \/ /\ Goto(p, "loop")
        /\ UNCHANGED <<runq, utype>>
  /\ UNCHANGED <<vmlock, block, exiting, cur, cycles, gchalt, iprog, pstate>>

-----------------------------------------------------------------------------
(* A kernel thread leaves the machine (rproc).                             *)
KprocRelease(k) ==
  /\ pc[k] = "kwork"
  /\ Release(k)
  /\ UNCHANGED <<exiting, gchalt>>

(* What a thread does of its own accord once it is scheduled.              *)
Step(p) ==
  \/ AcquireWake(p) \/ AcquireGo(p) \/ ReleaseReady(p)
  \/ \E n \in Interps : ReleaseKproc(p, n)
  \/ Startup(p) \/ StartupGo(p) \/ ExecAtIdle(p) \/ EndFinalize(p) \/ EndGC(p)
  \/ IdleSleep(p) \/ IdleWoken(p) \/ Run(p) \/ Yield(p) \/ YieldReady(p) \/ YieldGo(p)
  \/ EndSlice(p) \/ Delprog(p) \/ BusyGC(p) \/ KprocRelease(p)

(* What depends on the Progs, on the collector's finalizers and on the     *)
(* outside world.                                                          *)
Choice(p) ==
  \/ Return(p) \/ Finalize(p) \/ Block(p) \/ Syscall(p) \/ Exception(p)
  \/ Broken(p) \/ Exit(p)
  \/ \E x \in Progs : Addrun(p, x)
  \/ \E k \in Kprocs : Rptproc(p, k)

Next == \E p \in Procs : Step(p) \/ Choice(p)

Spec == Init /\ [][Next]_vars

(* The host schedules every thread that can run.                           *)
Scheduled == \A p \in Procs : WF_vars(Step(p))

(* No Prog goes on raising and handling exceptions for ever: an exception  *)
(* restarts vmachine's loop without ending the slice and with cycles = 0.  *)
ExceptionsStop == \A p \in Interps : <>[][~Exception(p)]_vars

(* rungc inspects a bounded number of objects (quanta), and execatidle     *)
(* stops after three epochs.                                               *)
CollectorEnds == \A p \in Interps : SF_vars(EndGC(p))

HostSpec == Spec /\ Scheduled /\ CollectorEnds
FairSpec == HostSpec /\ ExceptionsStop

-----------------------------------------------------------------------------
ProtocolType ==
  /\ idle \in BOOLEAN /\ creating \in BOOLEAN
  /\ vmq \in Seq(Procs) /\ idlevmq \in Seq(Procs)
  /\ irend \in Procs \cup {None}
  /\ sem \in [Procs -> Nat]
  /\ pc \in [Procs -> Labels]
  /\ handoff \in [Procs -> Procs \cup {None}]

DataType ==
  /\ runq \in Seq(Progs \cup Procs)
  /\ exiting \subseteq Procs
  /\ utype \in [Procs -> Types]
  /\ iprog \in [Procs -> Progs \cup Procs \cup {None}]
  /\ cur \in [Procs -> Progs \cup Procs \cup {None}]
  /\ cycles \in [Procs -> 0..YieldAfter]
  /\ pstate \in [Progs -> States]
  /\ gchalt \in Int

(* The type invariant.                                                     *)
TypeOK == ProtocolType /\ DataType

(* The machine is one token: a thread has it when it is inside, when it is *)
(* about to ready the thread it popped, and when its semaphore has been    *)
(* posted for it.                                                          *)
HasToken(p) ==
  \/ pc[p] \in InVM \cup Handing
  \/ pc[p] \in VMBlocked /\ sem[p] > 0

(* The machine is neither lost nor duplicated by the hand-offs in acquire, *)
(* release, iyield and startup: it is idle, or exactly one thread has it.  *)
OneToken ==
  IF idle THEN \A p \in Procs : ~HasToken(p)
  ELSE \E p \in Procs : HasToken(p) /\ \A q \in Procs \ {p} : ~HasToken(q)

(* isched.creating suppresses the creation of an interpreter only while    *)
(* one is on its way: an idle machine always has a thread coming for it.   *)
IdleIsTemporary ==
  idle => \E p \in Procs : pc[p] \in {"startup", "relkproc"}

InRunq(x) == \E i \in DOMAIN runq : runq[i] = x

(* Every Prog is exactly where its state says, and once: Pready on the run *)
(* queue, Prelease with the one interpreter that took it out; and an       *)
(* interpreter inside the machine holds no Prog back ("iyield but iprog"). *)
ProgsAccounted ==
  /\ \A i, j \in DOMAIN runq : runq[i] = runq[j] => i = j
  /\ \A x \in Progs :
       /\ pstate[x] = "Pready" <=> InRunq(x)
       /\ pstate[x] = "Prelease" <=> \E p \in Procs : iprog[p] = x
       /\ \A p, q \in Procs : iprog[p] = x /\ iprog[q] = x => p = q
  /\ \A p \in Procs : pc[p] \in InVM => iprog[p] = None

(* release takes whatever is at the head of the run queue out with it:     *)
(* that is always the Prog the releasing thread is working for, whatever   *)
(* ran while it was last outside.                                          *)
ReleaseTakesOwn ==
  \A p \in Procs :
    /\ pc[p] \in {"xec", "exit"} => runq # <<>> /\ Head(runq) = cur[p]
    /\ pc[p] \in {"idlegc", "busygc", "finalized", "kwork"}
         => runq # <<>> /\ Head(runq) = p

(* The collector's position in the heap (gc.c: base, ptr) is static, and   *)
(* its finalizers leave the machine: no second collector starts from the   *)
(* object being finalized.                                                 *)
CollectorAlone ==
  \A p, q \in Procs :
    /\ utype[p] \in Collecting /\ pc[p] \notin {"idlegc", "busygc"}
    /\ utype[q] \in Collecting /\ pc[q] \notin {"idlegc", "busygc"}
    => p = q

(* Interpreters are created only when every other one is out with a Prog   *)
(* or with the collector's finalizer, so there are never more of them than *)
(* Progs and a few.                                                        *)
InterpsBounded ==
  Cardinality({p \in Interps : pc[p] # "none"})
    + Cardinality({p \in Procs : pc[p] = "relkproc"})
      <= Cardinality(Progs) + (IF Finalizers THEN 2 ELSE 1)

-----------------------------------------------------------------------------
(* The inductive invariant behind OneToken: a thread waits in one place    *)
(* (queued, popped, posted, or asleep on irend), and the rest of its state *)
(* agrees with where it is.                                                *)
SemInv ==
  \A p \in Procs : sem[p] = 0 \/ (sem[p] = 1 /\ pc[p] \in VMBlocked \cup {"idleblk"})

VmqInv ==
  /\ \A i \in 1..Len(vmq) : pc[vmq[i]] \in {"acqwake", "acqblock"} /\ sem[vmq[i]] = 0
  /\ \A i, j \in 1..Len(vmq) : vmq[i] = vmq[j] => i = j

IdlevmqInv ==
  /\ \A i \in 1..Len(idlevmq) :
       pc[idlevmq[i]] \in {"startblock", "yieldready", "yieldblock"} /\ sem[idlevmq[i]] = 0
  /\ \A i, j \in 1..Len(idlevmq) : idlevmq[i] = idlevmq[j] => i = j

HandoffInv ==
  \A p \in Procs : pc[p] \in Handing =>
    /\ handoff[p] \in Procs /\ pc[handoff[p]] \in VMBlocked /\ sem[handoff[p]] = 0
    /\ \A i \in 1..Len(vmq) : vmq[i] # handoff[p]
    /\ \A i \in 1..Len(idlevmq) : idlevmq[i] # handoff[p]

IrendInv == irend # None => pc[irend] = "idleblk" /\ sem[irend] = 0

TokenInv ==
  /\ idle => \A p \in Procs : ~HasToken(p)
  /\ ~idle => \E p \in Procs : HasToken(p)
  /\ \A p, q \in Procs : HasToken(p) /\ HasToken(q) => p = q

KprocLabels == {"none", "relready", "relkproc", "released", "acqwake", "acqblock", "kwork"}

CarryInv ==
  \A p \in Procs :
    /\ pc[p] \in {"idlegc", "busygc", "finalized"} => utype[p] \in Collecting
    /\ pc[p] = "kwork" => utype[p] = "Kproc"
    /\ pc[p] \in {"relready", "relkproc", "released", "acqwake", "acqblock"}
         /\ utype[p] = "Interp" => iprog[p] = cur[p] /\ iprog[p] # None
    /\ p \in Kprocs => utype[p] = "Kproc" /\ pc[p] \in KprocLabels

ProtocolInv ==
  ProtocolType /\ SemInv /\ VmqInv /\ IdlevmqInv /\ HandoffInv /\ IrendInv /\ TokenInv

IInv == ProtocolInv /\ DataType /\ CarryInv /\ ReleaseTakesOwn

-----------------------------------------------------------------------------
(* The thread the machine belongs to, from the moment it is popped.        *)
Owns(p) ==
  \/ pc[p] \in InVM
  \/ pc[p] \in VMBlocked /\ sem[p] > 0
  \/ \E q \in Procs : handoff[q] = p

Holder == IF idle THEN None ELSE CHOOSE p \in Procs : Owns(p)

Spare == {idlevmq[i] : i \in DOMAIN idlevmq}

Token == INSTANCE VmToken WITH owner <- Holder, queue <- vmq, pool <- Spare

(* The machine of dis.c is the lock of VmToken: first come first served    *)
(* for the threads in acquire, before the interpreters with nothing to run.*)
IsVmToken == Token!TokenSpec

Ended == \E p \in Interps : pc[p] = "cleanexit"

(* A thread in acquire gets the machine (or the emulator ends): the wakeup *)
(* of the idle interpreter is never lost, and the running one yields.      *)
AcquirerServed ==
  \A p \in Procs : pc[p] \in {"acqwake", "acqblock"} ~> pc[p] \in InVM \/ Ended

(* A Prog on the run queue gets to run (or the emulator ends), although    *)
(* every Prog that returns from a system call is put in front of it.       *)
ReadyProgRuns ==
  \A x \in Progs :
    pstate[x] = "Pready" ~> (\E p \in Interps : cur[p] = x) \/ Ended

=============================================================================
