-------------------------------- MODULE Qio ---------------------------------
(***************************************************************************)
(* The queues of the kernel (emu/port/qio.c) under the devices that use    *)
(* them: one queue of a pipe (emu/port/devpipe.c), which one end writes,   *)
(* the other reads, and the last close of either end hangs up or closes    *)
(* until both are closed; the keyboard queue of the console (kbd), fed     *)
(* with qproduce and qwrite; its queue of keyboard events (ekbd), which it *)
(* also flushes and reopens while others read (devcons.c as built for      *)
(* Linux); message queues (devprog, devcmd); and the queue of kernel       *)
(* messages (kprint), coalescing and non-blocking.                         *)
(*                                                                         *)
(* A step is a section under q->l or one Wakeup after it.  Sleep and       *)
(* Wakeup are what module Rendez promises of them, rlock and wlock what    *)
(* module QLocks does.  Blocks carry the identity of their bytes.          *)
(***************************************************************************)
EXTENDS Naturals, Sequences, SequencesExt, FiniteSets, FiniteSetsExt

CONSTANTS
  Readers, Writers,  \* the processes at the two ends
  None,
  Limit,             \* q->limit, in bytes
  Maxatomic,         \* the largest block of one qbwrite
  ReadSizes, WriteSizes, \* bound: the lengths read and written
  MaxBlocks,         \* bound: a write starts on fewer queued blocks
  Interrupted,       \* bound: the processes that are ever interrupted
  Modes              \* which devices open the queue

ASSUME QioAssumption ==
  /\ Readers \cap Writers = {}
  /\ None \notin Readers \cup Writers
  /\ {Maxatomic, MaxBlocks} \cup ReadSizes \cup WriteSizes \subseteq Nat \ {0}
  /\ Limit \in Nat /\ Limit > 1
  /\ Modes \subseteq {"pipe", "kbd", "ekbd", "msg", "kprint"}

VARIABLES
  mode,      \* the device: it fixes Qmsg, Qcoalesce and noblock
  q,         \* bfirst..blast: blocks [alloc, data]
  len, dlen, \* q->len, q->dlen
  starve, flow, closed,  \* the bits Qstarve, Qflow, Qclosed of q->state
  rlock, wlock, plock,   \* holders of q->rlock, q->wlock and the pipe's l
  pc,        \* per process, where it is in its call
  left,      \* per process, the bytes its call has still to move
  held,      \* per process, blocks taken off the queue and being copied
  fd,        \* the processes that have their file on the queue open
  swi,       \* the processes with an interrupt pending (up->swipend, killed)
  got        \* per reader, what its latest read has returned

qvars == <<q, len, dlen, starve, flow, closed>>
lvars == <<rlock, wlock, plock>>
vars == <<mode, qvars, lvars, pc, left, held, fd, swi, got>>

Procs == Readers \cup Writers

Block(data) == [alloc |-> Len(data), data |-> data]

RECURSIVE Flat(_)
Flat(bs) == IF bs = <<>> THEN <<>> ELSE Head(bs).data \o Flat(Tail(bs))

\* blockalloclen: the space a list of blocks takes.
RECURSIVE Alloc(_)
Alloc(bs) == IF bs = <<>> THEN 0 ELSE Head(bs).alloc + Alloc(Tail(bs))

Goto(p, l) == pc' = [pc EXCEPT ![p] = l]

Nothing == [eof |-> FALSE, data |-> <<>>]

\* qopen, with the mode the device asks for.
Init ==
  /\ mode \in Modes
  /\ q = <<>> /\ len = 0 /\ dlen = 0
  /\ starve = TRUE /\ flow = FALSE /\ closed = FALSE
  /\ rlock = None /\ wlock = None /\ plock = None
  /\ pc = [p \in Procs |-> "idle"]
  /\ left = [p \in Procs |-> 0]
  /\ held = [p \in Procs |-> <<>>]
  /\ fd = Procs /\ swi = {}
  /\ got = [r \in Readers |-> Nothing]

\* The sleepers on rr and on wr, made ready by a Wakeup.
Woken(from, to) == [x \in Procs |-> IF pc[x] = from THEN to ELSE pc[x]]

WakeRr(p, l) == pc' = [Woken("rr", "rwoken") EXCEPT ![p] = l]

WakeWr(p, l) == pc' = [Woken("wr", "wwoken") EXCEPT ![p] = l]

notempty == closed \/ q # <<>>

qnotfull == len < Limit \/ closed

-----------------------------------------------------------------------------
(* Readers.                                                                *)

\* qread and qbread take q->rlock.
ReadStart(r) == \E n \in ReadSizes :
  /\ pc[r] = "idle" /\ r \in fd /\ rlock = None
  /\ rlock' = r
  /\ left' = [left EXCEPT ![r] = n]
  /\ got' = [got EXCEPT ![r] = Nothing]
  /\ Goto(r, "qwait")
  /\ UNCHANGED <<mode, qvars, wlock, plock, held, fd, swi>>

\* A read returns, or raises an error: q->rlock is released.
ReadDone(r) == rlock' = None /\ left' = [left EXCEPT ![r] = 0]

\* mutant: the reader does not ask to be woken before it sleeps
qwaitSilent(r) ==
  /\ pc[r] = "qwait" /\ q = <<>>
  /\ IF closed
     THEN /\ Goto(r, "idle") /\ ReadDone(r)
          /\ got' = [got EXCEPT ![r] = [eof |-> TRUE, data |-> <<>>]]
     ELSE Goto(r, "rsleep") /\ UNCHANGED <<rlock, left, got>>
  /\ UNCHANGED <<mode, qvars, wlock, plock, held, fd, swi>>

\* qwait on an empty queue: the end of a hung-up one (the fourth time an
\* error), else ask to be woken.
qwait(r) ==
  /\ pc[r] = "qwait" /\ q = <<>>
  /\ IF closed
     THEN /\ Goto(r, "idle") /\ ReadDone(r)
          /\ got' = [got EXCEPT ![r] = [eof |-> TRUE, data |-> <<>>]]
          /\ UNCHANGED starve
     ELSE /\ Goto(r, "rsleep")
          /\ starve' = TRUE
          /\ UNCHANGED <<rlock, left, got>>
  /\ UNCHANGED <<mode, q, len, dlen, flow, closed, wlock, plock, held, fd, swi>>

SleepRr(r) ==
  /\ pc[r] = "rsleep"
  /\ Goto(r, IF notempty \/ r \in swi THEN "rwoken" ELSE "rr")
  /\ UNCHANGED <<mode, qvars, lvars, left, held, fd, swi, got>>

\* Sleep returns into qwait, or raises Eintr and the read ends.
WokenRr(r) ==
  /\ pc[r] = "rwoken"
  /\ IF r \in swi
     THEN Goto(r, "idle") /\ ReadDone(r) /\ swi' = swi \ {r}
     ELSE Goto(r, "qwait") /\ UNCHANGED <<rlock, left, swi>>
  /\ UNCHANGED <<mode, qvars, wlock, plock, held, fd, got>>

\* qread takes the first block, when coalescing also those that fit whole.
Taken(n) ==
  IF mode # "kprint" THEN 1
  ELSE Max({1} \cup {k \in 1 .. Len(q) : Len(Flat(SubSeq(q, 1, k))) <= n})

qread(r) ==
  /\ pc[r] = "qwait" /\ q # <<>>
  /\ LET k == Taken(left[r]) IN
       /\ held' = [held EXCEPT ![r] = SubSeq(q, 1, k)]
       /\ q' = SubSeq(q, k + 1, Len(q))
       /\ len' = len - Alloc(SubSeq(q, 1, k))
       /\ dlen' = dlen - Len(Flat(SubSeq(q, 1, k)))
  /\ Goto(r, "copy")
  /\ UNCHANGED <<mode, starve, flow, closed, lvars, left, fd, swi, got>>

\* bl2mem: what is left of the blocks after n bytes have been copied out: the
\* block it stopped in, whose space is still counted whole, or nothing.
bl2mem(bs, n) ==
  LET rest == Flat(bs) IN
  IF Len(rest) <= n THEN <<>>
  ELSE <<[alloc |-> Last(bs).alloc, data |-> SubSeq(rest, n + 1, Len(rest))]>>

\* mutant: the space of the block put back is not counted again
RestartUncounted(r, bs, qq, l, dl) ==
  /\ q' = bs \o qq
  /\ len' = l
  /\ dlen' = dl + Len(Flat(bs))
  /\ IF flow /\ l < Limit \div 2
     THEN /\ flow' = FALSE /\ Goto(r, "kickwr")
          /\ UNCHANGED <<rlock, left>>
     ELSE Goto(r, "idle") /\ ReadDone(r) /\ UNCHANGED flow

\* mutant: Qflow is cleared although the writer is not restarted
RestartForgets(r, bs, qq, l, dl) ==
  LET n == l + Alloc(bs) IN
  /\ q' = bs \o qq
  /\ len' = n
  /\ dlen' = dl + Len(Flat(bs))
  /\ flow' = FALSE
  /\ IF flow /\ n < Limit \div 2
     THEN Goto(r, "kickwr") /\ UNCHANGED <<rlock, left>>
     ELSE Goto(r, "idle") /\ ReadDone(r)

\* mutant: the rest of a block is put back at the tail
RestartTail(r, bs, qq, l, dl) ==
  LET n == l + Alloc(bs) IN
  /\ q' = qq \o bs
  /\ len' = n
  /\ dlen' = dl + Len(Flat(bs))
  /\ IF flow /\ n < Limit \div 2
     THEN /\ flow' = FALSE /\ Goto(r, "kickwr")
          /\ UNCHANGED <<rlock, left>>
     ELSE Goto(r, "idle") /\ ReadDone(r) /\ UNCHANGED flow

\* qputback of bs on a queue holding qq, then qwakeup_unlock: a writer held
\* by flow control is restarted below half the limit.
Restart(r, bs, qq, l, dl) ==
  LET n == l + Alloc(bs) IN
  /\ q' = bs \o qq
  /\ len' = n
  /\ dlen' = dl + Len(Flat(bs))
  /\ IF flow /\ n < Limit \div 2
     THEN /\ flow' = FALSE /\ Goto(r, "kickwr")
          /\ UNCHANGED <<rlock, left>>
     ELSE Goto(r, "idle") /\ ReadDone(r) /\ UNCHANGED flow

\* The copy done, the left-over part goes back, or in a message queue away.
Copied(r) ==
  /\ pc[r] = "copy"
  /\ LET rest == bl2mem(held[r], left[r]) IN
       Restart(r, IF mode = "msg" THEN <<>> ELSE rest, q, len, dlen)
  /\ got' = [got EXCEPT ![r] =
       [eof |-> FALSE,
        data |-> SubSeq(Flat(held[r]), 1, Min({left[r], Len(Flat(held[r]))}))]]
  /\ held' = [held EXCEPT ![r] = <<>>]
  /\ UNCHANGED <<mode, starve, closed, wlock, plock, fd, swi>>

\* qbread splits the block under q->l: the rest is a new, smaller block.
qbread(r) ==
  /\ pc[r] = "qwait" /\ q # <<>>
  /\ LET b == Head(q)
         n == left[r]
         rest == SubSeq(b.data, n + 1, Len(b.data)) IN
       /\ Restart(r, IF rest = <<>> \/ mode = "msg" THEN <<>> ELSE <<Block(rest)>>,
                  Tail(q), len - b.alloc, dlen - Len(b.data))
       /\ got' = [got EXCEPT ![r] =
            [eof |-> FALSE, data |-> SubSeq(b.data, 1, Min({n, Len(b.data)}))]]
  /\ UNCHANGED <<mode, starve, closed, wlock, plock, held, fd, swi>>

KickWr(r) ==
  /\ pc[r] = "kickwr"
  /\ WakeWr(r, "idle")
  /\ ReadDone(r)
  /\ UNCHANGED <<mode, qvars, wlock, plock, held, fd, swi, got>>

-----------------------------------------------------------------------------
(* Writers.                                                                *)

WriteStart(w) == \E n \in WriteSizes :
  /\ pc[w] = "idle" /\ w \in fd /\ mode \notin {"ekbd", "msg"} /\ Len(q) < MaxBlocks
  /\ left' = [left EXCEPT ![w] = n]
  /\ Goto(w, "put")
  /\ UNCHANGED <<mode, qvars, lvars, held, fd, swi, got>>

\* The next block of a write: each byte is named by its writer and its place.
NextBlock(w) ==
  Block([i \in 1 .. Min({Maxatomic, left[w]}) |-> <<w, left[w] + 1 - i>>])

\* A block is linked at the tail; a starved reader is to be woken.
Link(b) ==
  /\ q' = Append(q, b)
  /\ len' = len + b.alloc
  /\ dlen' = dlen + Len(b.data)
  /\ starve' = FALSE

\* qbwrite of the next block of a qwrite, up to the Wakeup of the reader: it
\* takes q->wlock for this block only.
qbwrite(w) ==
  /\ pc[w] = "put" /\ wlock = None
  /\ IF closed \/ (mode = "kprint" /\ len >= Limit)
     THEN /\ Goto(w, IF ~closed /\ left[w] > Maxatomic THEN "put" ELSE "idle")
          /\ left' = [left EXCEPT ![w] =
               IF ~closed /\ left[w] > Maxatomic THEN left[w] - Maxatomic ELSE 0]
          /\ UNCHANGED <<q, len, dlen, starve, wlock>>
     ELSE /\ wlock' = w
          /\ Link(NextBlock(w))
          /\ left' = [left EXCEPT ![w] = left[w] - Len(NextBlock(w).data)]
          /\ Goto(w, IF starve THEN "kickrr" ELSE "full")
  /\ UNCHANGED <<mode, flow, closed, rlock, plock, held, fd, swi, got>>

KickRr(w) ==
  /\ pc[w] = "kickrr"
  /\ WakeRr(w, "full")
  /\ UNCHANGED <<mode, qvars, lvars, left, held, fd, swi, got>>

\* The loop of qbwrite tests for room without q->l; there being room, the
\* write goes on with its next block or returns.
Full(w) ==
  /\ pc[w] = "full"
  /\ IF mode = "kprint" \/ qnotfull
     THEN /\ wlock' = None
          /\ Goto(w, IF left[w] > 0 THEN "put" ELSE "idle")
     ELSE Goto(w, "setflow") /\ UNCHANGED wlock
  /\ UNCHANGED <<mode, qvars, rlock, plock, left, held, fd, swi, got>>

SetFlow(w) ==
  /\ pc[w] = "setflow"
  /\ flow' = TRUE
  /\ Goto(w, "wsleep")
  /\ UNCHANGED <<mode, q, len, dlen, starve, closed, lvars, left, held, fd, swi, got>>

SleepWr(w) ==
  /\ pc[w] = "wsleep"
  /\ Goto(w, IF qnotfull \/ w \in swi THEN "wwoken" ELSE "wr")
  /\ UNCHANGED <<mode, qvars, lvars, left, held, fd, swi, got>>

\* mutant: a woken writer goes back to sleep without looking for room
WokenWrAgain(w) ==
  /\ pc[w] = "wwoken"
  /\ IF w \in swi
     THEN /\ Goto(w, "idle") /\ wlock' = None
          /\ swi' = swi \ {w}
          /\ left' = [left EXCEPT ![w] = 0]
     ELSE Goto(w, "setflow") /\ UNCHANGED <<wlock, left, swi>>
  /\ UNCHANGED <<mode, qvars, rlock, plock, held, fd, got>>

\* Sleep returns into the loop, or raises Eintr: what is queued stays queued.
WokenWr(w) ==
  /\ pc[w] = "wwoken"
  /\ IF w \in swi
     THEN /\ Goto(w, "idle") /\ wlock' = None
          /\ swi' = swi \ {w}
          /\ left' = [left EXCEPT ![w] = 0]
     ELSE Goto(w, "full") /\ UNCHANGED <<wlock, left, swi>>
  /\ UNCHANGED <<mode, qvars, rlock, plock, held, fd, got>>

\* qproduce of n bytes: all or nothing, never blocking; the Wakeup of a
\* starved reader is the last thing its caller does.
qproduce(p, n) ==
  IF closed \/ len >= Limit
  THEN /\ flow' = (flow \/ ~closed)
       /\ Goto(p, "idle")
       /\ UNCHANGED <<q, len, dlen, starve>>
  ELSE LET b == Block([i \in 1 .. n |-> <<p, n + 1 - i>>]) IN
       /\ Link(b)
       /\ flow' = (flow \/ len + b.alloc >= Limit)
       /\ Goto(p, IF starve THEN "produced" ELSE "idle")

\* The keyboard, or a process whose state changes, produces.
Produce(w) == \E n \in WriteSizes :
  /\ pc[w] = "idle" /\ mode \in {"kbd", "ekbd", "msg"}
  /\ qproduce(w, n)
  /\ UNCHANGED <<mode, closed, lvars, left, held, fd, swi, got>>

Produced(p) ==
  /\ pc[p] = "produced"
  /\ WakeRr(p, "idle")
  /\ UNCHANGED <<mode, qvars, lvars, left, held, fd, swi, got>>

-----------------------------------------------------------------------------
(* Closing and flushing.                                                   *)

Empty == q' = <<>> /\ len' = 0 /\ dlen' = 0

qreopen == closed' = FALSE /\ starve' = TRUE

\* pipeopen counts one more reference on its end.
PipeOpen(p) ==
  /\ mode = "pipe" /\ pc[p] = "idle" /\ p \notin fd /\ plock = None
  /\ fd' = fd \cup {p}
  /\ UNCHANGED <<mode, qvars, lvars, pc, left, held, swi, got>>

\* pipeclose by the last reader closes the queue, by the last writer hangs it
\* up; the Wakeups follow.
PipeClose(p) ==
  /\ mode = "pipe" /\ pc[p] = "idle" /\ p \in fd /\ plock = None
  /\ fd' = fd \ {p}
  /\ LET side == IF p \in Readers THEN Readers ELSE Writers IN
     IF side \cap fd # {p}
     THEN UNCHANGED <<qvars, plock, pc>>
     ELSE /\ plock' = p
          /\ closed' = TRUE
          /\ IF p \in Readers
             THEN Empty /\ flow' = FALSE /\ starve' = FALSE
             ELSE UNCHANGED <<q, len, dlen, flow, starve>>
          /\ Goto(p, "closerr")
  /\ UNCHANGED <<mode, rlock, wlock, left, held, swi, got>>

CloseRr(p) ==
  /\ pc[p] = "closerr"
  /\ WakeRr(p, "closewr")
  /\ UNCHANGED <<mode, qvars, lvars, left, held, fd, swi, got>>

\* The last Wakeup; both ends being closed, the queue is reopened.
CloseWr(p) ==
  /\ pc[p] = "closewr"
  /\ WakeWr(p, "idle")
  /\ plock' = None
  /\ IF fd = {} THEN qreopen ELSE UNCHANGED <<closed, starve>>
  /\ UNCHANGED <<mode, q, len, dlen, flow, rlock, wlock, left, held, fd, swi, got>>

\* consopen of the event keyboard: the first open reopens the queue, each one
\* flushes it.
EkbdOpen(p) ==
  /\ mode = "ekbd" /\ pc[p] = "idle" /\ p \notin fd
  /\ fd' = fd \cup {p}
  /\ IF fd \cap Readers = {} THEN qreopen ELSE UNCHANGED <<closed, starve>>
  /\ Goto(p, "opened")
  /\ UNCHANGED <<mode, q, len, dlen, flow, lvars, left, held, swi, got>>

\* qflush, up to its Wakeup, on the way to label l.
qflush(p, l) ==
  /\ Empty
  /\ Goto(p, l)
  /\ UNCHANGED <<mode, starve, flow, closed, lvars, left, held, swi, got>>

Opened(p) == pc[p] = "opened" /\ qflush(p, "flushed") /\ UNCHANGED fd

\* consclose: the last close flushes the queue and then wakes its readers.
EkbdClose(p) ==
  /\ mode = "ekbd" /\ pc[p] = "idle" /\ p \in fd
  /\ fd' = fd \ {p}
  /\ IF fd \cap Readers = {p}
     THEN qflush(p, "rawoff")
     ELSE UNCHANGED <<mode, qvars, lvars, pc, left, held, swi, got>>

\* "rawoff" written to consctl, or its last close, does the same.
Rawoff(p) == mode = "ekbd" /\ pc[p] = "idle" /\ qflush(p, "rawoff") /\ UNCHANGED fd

\* "rawon" reopens the queue.
Rawon(p) ==
  /\ mode = "ekbd" /\ pc[p] = "idle"
  /\ qreopen
  /\ UNCHANGED <<mode, q, len, dlen, flow, lvars, pc, left, held, fd, swi, got>>

\* The Wakeup that ends qflush; wakeekbdreaders follows: it reopens the queue
\* and produces one byte.
Flushed(p) ==
  /\ pc[p] \in {"flushed", "rawoff"}
  /\ WakeWr(p, IF pc[p] = "flushed" THEN "idle" ELSE "reopen")
  /\ UNCHANGED <<mode, qvars, lvars, left, held, fd, swi, got>>

wakeekbdreaders(p) ==
  \/ /\ pc[p] = "reopen"
     /\ qreopen
     /\ Goto(p, "wakekbd")
     /\ UNCHANGED <<mode, q, len, dlen, flow, lvars, left, held, fd, swi, got>>
  \/ /\ pc[p] = "wakekbd"
     /\ qproduce(p, 1)
     /\ UNCHANGED <<mode, closed, lvars, left, held, fd, swi, got>>

\* swiproc takes a process out of Sleep, or marks one that is on its way.
Swiproc(p) ==
  /\ p \in Interrupted \ swi /\ pc[p] \notin {"idle", "rwoken", "wwoken"}
  /\ swi' = swi \cup {p}
  /\ pc' = [pc EXCEPT ![p] = CASE @ = "rr" -> "rwoken" [] @ = "wr" -> "wwoken"
                               [] OTHER -> @]
  /\ UNCHANGED <<mode, qvars, lvars, left, held, fd, got>>

-----------------------------------------------------------------------------
\* The steps a process takes once its call has begun.
Step(p) ==
  \/ p \in Readers /\ \/ qwait(p) \/ SleepRr(p) \/ WokenRr(p)
                      \/ qread(p) \/ qbread(p) \/ Copied(p) \/ KickWr(p)
                      \/ Opened(p)
  \/ p \in Writers /\ \/ qbwrite(p) \/ KickRr(p) \/ Full(p) \/ SetFlow(p)
                      \/ SleepWr(p) \/ WokenWr(p)
  \/ CloseRr(p) \/ CloseWr(p) \/ Flushed(p) \/ wakeekbdreaders(p) \/ Produced(p)

Next == \E p \in Procs :
  \/ Step(p)
  \/ p \in Readers /\ (ReadStart(p) \/ EkbdOpen(p) \/ EkbdClose(p))
  \/ p \in Writers /\ (WriteStart(p) \/ Produce(p) \/ Rawoff(p) \/ Rawon(p))
  \/ PipeOpen(p) \/ PipeClose(p) \/ Swiproc(p)

Spec == Init /\ [][Next]_vars

\* A host thread that can run does.
FairSpec == Spec /\ \A p \in Procs : WF_vars(Step(p))

-----------------------------------------------------------------------------
\* Type invariant: the counters q->len and q->dlen, kept by six functions, are
\* those of the blocks on the queue, and a lock is held by a process in a call.
TypeOK ==
  /\ mode \in Modes /\ {starve, flow, closed} \subseteq BOOLEAN
  /\ rlock \in Readers \cup {None} /\ wlock \in Writers \cup {None}
  /\ plock \in Procs \cup {None}
  /\ \A l \in {rlock, wlock, plock} \ {None} : pc[l] # "idle"
  /\ fd \subseteq Procs /\ swi \subseteq Procs
  /\ left \in [Procs -> 0 .. Max(ReadSizes \cup WriteSizes)]

\* q->len is the space of the queued blocks and q->dlen their bytes, whatever
\* mixture of reads, put-backs, flushes and closes, and no queued block is empty:
\* what qlen tells and what the limit is compared with is what is there.
LensExact ==
  /\ \A b \in Range(q) : b.data # <<>> /\ Len(b.data) <= b.alloc
  /\ len = Alloc(q) /\ dlen = Len(Flat(q))

\* A reader sleeps on q->rr although there is data, or no more to come, and
\* nobody is about to Wakeup it.
ReaderForgotten ==
  /\ notempty /\ \E r \in Readers : pc[r] = "rr"
  /\ \A x \in Procs : pc[x] \notin {"kickrr", "produced", "closerr",
                                  "rawoff", "reopen", "wakekbd"}

\* No lost wakeup of a reader of a queue that is not flushed under it: qbwrite,
\* qproduce, qhangup and qclose wake it after they have dropped q->l, and it
\* asks for that in a section before its Sleep.
ReaderWoken == mode # "ekbd" => ~ReaderForgotten

\* The same of the queue of keyboard events (man/10/qio: "readers normally
\* block when the queue is empty, until a writer arrives with data").
EventReaderWoken == mode = "ekbd" => ~ReaderForgotten

\* No lost wakeup of a writer of a pipe, although it tests for room and asks
\* for flow control in two sections before its Sleep: while it sleeps on q->wr
\* and the queue is below the low-water mark or closed, somebody is about to
\* Wakeup it, or to find Qflow set when it has finished its copy.
WriterWoken ==
  (mode = "pipe" /\ (closed \/ len < Limit \div 2) /\ \E w \in Writers : pc[w] = "wr")
    => \E x \in Procs : \/ pc[x] \in {"kickwr", "closerr", "closewr"}
                        \/ pc[x] = "copy" /\ flow

\* The bytes written and not yet read: those being copied come first.
InFlight == IF rlock = None THEN <<>> ELSE Flat(held[rlock])

Abstract == INSTANCE Stream WITH bytes <- InFlight \o Flat(q)

\* The queue is a stream (module Stream): although a read copies without q->l
\* and puts the rest of its block back, no byte is lost, repeated or reordered,
\* and the end is seen only after everything written before the hangup.
IsStream == Abstract!StreamSpec

\* A writer of a pipe held by flow control goes on, as long as the other end
\* keeps reading (man/10/qio: "writes normally block until a reader drains the
\* queue below its low water mark").
WriterGoesOn == \A w \in Writers :
  []<>(rlock # None)
    => ((pc[w] = "wr" /\ mode = "pipe") ~> pc[w] \in {"put", "idle"})
=============================================================================
