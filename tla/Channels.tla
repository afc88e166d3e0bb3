------------------------------ MODULE Channels ------------------------------
(***************************************************************************)
(* Communication between Dis progs: the send, recv and alt instructions    *)
(* (libinterp/xec.c, libinterp/alt.c), the wait queues of a channel, the   *)
(* same operations made from inside the kernel (csend and crecv of         *)
(* emu/port/inferno.c, used by the file2chan device), and everything that  *)
(* takes a waiting prog out of a queue: a partner, killprog, exprog and    *)
(* the death of the channel (emu/port/dis.c).                              *)
(*                                                                         *)
(* A step of the running prog is one Dis instruction.  The virtual machine *)
(* is a token (module Isched): only its holder executes instructions, and  *)
(* a prog that waits inside the kernel has given it up and takes it again  *)
(* with acquire.  Here the token is free exactly when slice is FALSE.      *)
(***************************************************************************)
EXTENDS Integers, Sequences, FiniteSets, SequencesExt

CONSTANTS
  Progs,      \* Prog structures
  Chans,      \* Channel structures
  Kchans,     \* the channels used by the kernel (file2chan)
  Freeable,   \* the channels whose last reference may be dropped
  Cap,        \* Cap[c] is the length of c's buffer, 0 when c->buf is H
  Alts,       \* the tables the programs' alt instructions use
  AltRefs,    \* TRUE when an alt table holds references to its channels
  Marks,      \* the number of values that can be told apart
  None

ASSUME ChannelsAssumption ==
  /\ None \notin Progs
  /\ Kchans \subseteq Chans /\ Freeable \subseteq Chans
  /\ Cap \in [Chans -> Nat]
  /\ Alts \subseteq [send : Seq(Chans), recv : Seq(Chans), nilref : BOOLEAN]
  /\ AltRefs \in BOOLEAN
  /\ Marks \in Nat

VARIABLES
  runq,     \* isched.runhd ... isched.runtl
  state,    \* p->state, "none" when the Prog is free
  chan,     \* p->chan, or the channel of the csend or crecv p is in
  alt,      \* the table and the value of the alt p waits in (p->R.s)
  ptr,      \* p->ptr: a value to send, Dst for a place to receive, Nil
            \* (the three are forgotten when the wait is over)
  kill,     \* p->kill: "no", "ex" an exception, "killed" the empty string
  addrun,   \* p->addrun is cwakeme
  kop,      \* what p does while it has released the machine
  kph,      \* how far it is with it
  victim,   \* the prog that p is deleting
  posting,  \* the released prog the running prog is posting an exception to
  slice,    \* the head of runq is in the middle of its time slice
  send,     \* c->send, the queue of progs waiting to send
  recv,     \* c->recv
  buf,      \* the values in c->buf
  last,     \* the marked value received last from c
  next      \* the next marked value to be sent

vars == <<runq, state, chan, alt, ptr, kill, addrun, kop, kph, victim,
          posting, slice, send, recv, buf, last, next>>

\* Values: most are Plain; the marked ones, 1..Marks, are sent once each and
\* in this order.  As the code moves values without looking at them, what
\* happens to the marked values happens to any values.
Plain == 0
Dst == -1
Nil == -2
Values == Plain..Marks
Gone == <<None>>    \* a queue whose head pointer has become nil
NoAlt == [tab |-> [send |-> <<>>, recv |-> <<>>, nilref |-> FALSE], msg |-> Nil]

----------------------------------------------------------------------------
(* Wait queues.  An empty queue is one node without a prog.                *)

cqadd(q, p) == Append(q, p)
cqdel(q) == Tail(q)

\* Every node of p goes; of two or more nodes the last one is freed as well,
\* and the head pointer is then nil.
cqdelp(q, p) ==
  LET rest == SelectSeq(q, LAMBDA x : x # p)
  IN  IF Len(q) > 1 /\ rest = <<>> THEN Gone ELSE rest

CanGet(c) == buf[c] # <<>>
CanPut(c) == Len(buf[c]) < Cap[c]

----------------------------------------------------------------------------
(* The instructions work on the following part of the state.               *)

Here == [runq |-> runq, state |-> state, chan |-> chan, ptr |-> ptr,
         addrun |-> addrun, kph |-> kph, send |-> send, recv |-> recv,
         buf |-> buf, last |-> last, alt |-> alt]

Become(w) ==
  /\ runq' = w.runq /\ state' = w.state /\ chan' = w.chan /\ ptr' = w.ptr
  /\ addrun' = w.addrun /\ kph' = w.kph /\ send' = w.send /\ recv' = w.recv
  /\ buf' = w.buf /\ last' = w.last /\ alt' = w.alt

\* Put p on the run queue, or wake it where it sleeps in cblock.
Addrun(w, p) ==
  IF w.addrun[p]
  THEN [w EXCEPT !.addrun[p] = FALSE,
                 !.kph[p] = IF @ = "asleep" THEN "woken" ELSE @]
  ELSE [w EXCEPT !.state[p] = "Pready", !.runq = Append(@, p), !.ptr[p] = Nil,
                 !.chan[p] = None, !.alt[p] = NoAlt]

Delrun(w, st) == [w EXCEPT !.state[Head(w.runq)] = st, !.runq = Tail(@)]

\* Take p out of the queues of every channel of its alt table.
Altdone(w, p, a) ==
  [w EXCEPT !.send = [c \in Chans |->
      IF c \in Range(a.tab.send) THEN cqdelp(w.send[c], p) ELSE w.send[c]],
            !.recv = [c \in Chans |->
      IF c \in Range(a.tab.recv) THEN cqdelp(w.recv[c], p) ELSE w.recv[c]]]

\* The partner q, if it waits in an alt, leaves it and p->ptr becomes the
\* place the table gives for the selected channel.
AltSelected(w, q, c, side) ==
  IF w.state[q] # "Palt" THEN w
  ELSE LET d == Altdone(w, q, alt[q])
       IN  IF side = "send" /\ c \in Range(alt[q].tab.send)
           THEN [d EXCEPT !.ptr[q] = alt[q].msg]
           ELSE IF side = "recv" /\ c \in Range(alt[q].tab.recv)
           THEN [d EXCEPT !.ptr[q] = Dst]
           ELSE d

\* A value has been received.
Got(w, c, m) == [w EXCEPT !.last[c] = IF m > Plain THEN m ELSE @]

\* The send instruction of the running prog p with value m.
IsendBarging(w, p, c, m) ==                                        \* mutant
  IF Len(w.buf[c]) < Cap[c] THEN [w EXCEPT !.buf[c] = Append(@, m)]
  ELSE IF w.recv[c] = <<>>
  THEN [Delrun(w, "Psend") EXCEPT !.ptr[p] = m, !.chan[p] = c,
                                  !.send[c] = cqadd(@, p)]
  ELSE LET q == Head(w.recv[c])
           s == AltSelected([w EXCEPT !.recv[c] = cqdel(@)], q, c, "recv")
       IN  Addrun(Got([s EXCEPT !.ptr[q] = Nil], c, m), q)
Isend(w, p, c, m) ==
  IF w.recv[c] = <<>>
  THEN IF Len(w.buf[c]) < Cap[c]
       THEN [w EXCEPT !.buf[c] = Append(@, m)]
       ELSE [Delrun(w, "Psend") EXCEPT !.ptr[p] = m, !.chan[p] = c,
                                       !.send[c] = cqadd(@, p)]
  ELSE LET q == Head(w.recv[c])
           s == AltSelected([w EXCEPT !.recv[c] = cqdel(@)], q, c, "recv")
       IN  Addrun(Got([s EXCEPT !.ptr[q] = Nil], c, m), q)

\* The recv instruction of the running prog p.  With a buffer, the value of
\* the first waiting sender takes the place freed at the buffer's end.
IrecvDirect(w, p, c) ==                                            \* mutant
  IF w.send[c] = <<>>
  THEN IF w.buf[c] # <<>>
       THEN Got([w EXCEPT !.buf[c] = Tail(@)], c, Head(w.buf[c]))
       ELSE [Delrun(w, "Precv") EXCEPT !.ptr[p] = Dst, !.chan[p] = c,
                                       !.recv[c] = cqadd(@, p)]
  ELSE LET q == Head(w.send[c])
           s == AltSelected([w EXCEPT !.send[c] = cqdel(@)], q, c, "send")
       IN  Addrun(Got([s EXCEPT !.ptr[q] = Nil], c, s.ptr[q]), q)
Irecv(w, p, c) ==
  IF w.send[c] = <<>>
  THEN IF w.buf[c] # <<>>
       THEN Got([w EXCEPT !.buf[c] = Tail(@)], c, Head(w.buf[c]))
       ELSE [Delrun(w, "Precv") EXCEPT !.ptr[p] = Dst, !.chan[p] = c,
                                       !.recv[c] = cqadd(@, p)]
  ELSE LET q == Head(w.send[c])
           s == AltSelected([w EXCEPT !.send[c] = cqdel(@)], q, c, "send")
           all == w.buf[c] \o <<s.ptr[q]>>
       IN  IF Cap[c] > 0 /\ w.buf[c] = <<>>
           THEN Addrun([s EXCEPT !.ptr[q] = Nil, !.buf[c] = all], q)
           ELSE Addrun(Got([s EXCEPT !.ptr[q] = Nil, !.buf[c] = Tail(all)],
                           c, Head(all)), q)

----------------------------------------------------------------------------
Init ==
  /\ \E p \in Progs : /\ runq = <<p>>
                      /\ state = [q \in Progs |-> IF q = p THEN "Pready" ELSE "none"]
  /\ chan = [p \in Progs |-> None]
  /\ alt = [p \in Progs |-> NoAlt]
  /\ ptr = [p \in Progs |-> Nil]
  /\ kill = [p \in Progs |-> "no"]
  /\ addrun = [p \in Progs |-> FALSE]
  /\ kop = [p \in Progs |-> "none"]
  /\ kph = [p \in Progs |-> "run"]
  /\ victim = [p \in Progs |-> None]
  /\ posting = None
  /\ slice = FALSE
  /\ send = [c \in Chans |-> <<>>]
  /\ recv = [c \in Chans |-> <<>>]
  /\ buf = [c \in Chans |-> <<>>]
  /\ last = [c \in Chans |-> Plain]
  /\ next = 1

AtHead(p) == runq # <<>> /\ p = Head(runq) /\ posting = None

\* p executes an instruction: an exception posted to it has been raised
\* before (xec and mcall look at p->kill).
Running(p) == AtHead(p) /\ kill[p] = "no"

\* After the instruction p goes on with its slice unless it left the queue.
StillAt(p, q) == q # <<>> /\ Head(q) = p

\* m is a value the program may send now.
Fresh(m) ==
  /\ m = Plain \/ (m = next /\ next <= Marks)
  /\ next' = IF m = Plain THEN next ELSE next + 1

Send(p, c, m) ==
  /\ Running(p) /\ Fresh(m)
  /\ Become(Isend(Here, p, c, m))
  /\ slice' = StillAt(p, runq')
  /\ UNCHANGED <<kill, kop, victim, posting>>

Recv(p, c) ==
  /\ Running(p)
  /\ Become(Irecv(Here, p, c))
  /\ slice' = StillAt(p, runq')
  /\ UNCHANGED <<kill, kop, victim, posting, next>>

----------------------------------------------------------------------------
(* alt: pass 1 (altrdy) puts p in every queue of the table and counts the  *)
(* ready entries, pass 2 (altcomm) communicates over one of them, pass 3   *)
(* (altdone) takes p out again.  An array of channels is entered member by *)
(* member, so a table is two sequences of channels; nilref says that it    *)
(* also has a nil entry.                                                   *)

Times(s, c) == Cardinality({i \in DOMAIN s : s[i] = c})
Copies(p, n) == [i \in 1..n |-> p]

Marked(p, a) == [c \in Chans |-> recv[c] \o Copies(p, Times(a.recv, c))]

\* A send entry whose channel p itself is the first to receive from.
Clash(p, a) ==
  {i \in DOMAIN a.send : /\ Marked(p, a)[a.send[i]] # <<>>
                         /\ Head(Marked(p, a)[a.send[i]]) = p}

AltMark(p, a) ==
  [Here EXCEPT !.recv = Marked(p, a),
               !.send = [c \in Chans |-> send[c] \o Copies(p,
      Cardinality({i \in DOMAIN a.send \ Clash(p, a) : a.send[i] = c}))]]

\* The number of ready entries as pass 1 counts them.
Nrdy(p, a) ==
  Cardinality({i \in DOMAIN a.recv : send[a.recv[i]] # <<>> \/ CanGet(a.recv[i])}) +
  Cardinality({i \in DOMAIN a.send :
                 Marked(p, a)[a.send[i]] # <<>> \/ CanPut(a.send[i])})

\* The ready entries as pass 2 meets them, with p in the queues.
AltReady(w, a) ==
  LET out == SelectSeq(a.send, LAMBDA c : w.recv[c] # <<>> \/ CanPut(c))
      in  == SelectSeq(a.recv, LAMBDA c : w.send[c] # <<>> \/ CanGet(c))
  IN  [i \in DOMAIN out |-> <<"send", out[i]>>] \o [i \in DOMAIN in |-> <<"recv", in[i]>>]

AltEntry(a, m) == [tab |-> a, msg |-> m]

\* error(e) in the running prog: the exception is raised before anything else.
AltError(p, a, m) ==
  /\ a.nilref \/ Clash(p, a) # {}
  /\ Become(Altdone(AltMark(p, a), p, AltEntry(a, m)))
  /\ kill' = [kill EXCEPT ![p] = "ex"]
  /\ slice' = TRUE

AltBlock(p, a, m) ==
  /\ ~a.nilref /\ Clash(p, a) = {} /\ Nrdy(p, a) = 0
  /\ Become([Delrun(AltMark(p, a), "Palt") EXCEPT !.alt[p] = AltEntry(a, m)])
  /\ slice' = FALSE
  /\ UNCHANGED kill

NbaltNone(p, a, m) ==
  /\ ~a.nilref /\ Clash(p, a) = {} /\ Nrdy(p, a) = 0
  /\ Become(Altdone(AltMark(p, a), p, AltEntry(a, m)))
  /\ slice' = TRUE
  /\ UNCHANGED kill

\* When p finds itself as the first sender of an entry to receive from, the
\* value is moved from p->ptr, which is nil: the instruction faults in irecv
\* and pass 3 is not reached.
AltComm(p, a, m) ==
  /\ ~a.nilref /\ Clash(p, a) = {}
  /\ \E which \in 1..Nrdy(p, a) :
       LET w == AltMark(p, a)
           e == AltReady(w, a)[which]
           c == e[2]
           self == e[1] = "recv" /\ w.send[c] # <<>> /\ Head(w.send[c]) = p
           d == IF e[1] = "send" THEN Isend(w, p, c, m) ELSE Irecv(w, p, c)
       IN  /\ Become(IF self THEN [w EXCEPT !.send[c] = cqdel(@)]
                     ELSE Altdone(d, p, AltEntry(a, m)))
           /\ kill' = IF self THEN [kill EXCEPT ![p] = "ex"] ELSE kill
  /\ slice' = TRUE

\* The alt (block) and nbalt instructions.
Xecalt(p, a, m) ==
  /\ Running(p) /\ Fresh(m) /\ (a.send = <<>> => m = Plain)
  /\ AltError(p, a, m) \/ AltBlock(p, a, m) \/ NbaltNone(p, a, m) \/ AltComm(p, a, m)
  /\ UNCHANGED <<kop, victim, posting>>

----------------------------------------------------------------------------
(* The kernel side: csend and crecv wait in cblock, with the machine       *)
(* released, for a partner to call p->addrun.                              *)

Ccom(p, c, op, place, q) ==
  /\ ptr' = [ptr EXCEPT ![p] = place]
  /\ chan' = [chan EXCEPT ![p] = c]
  /\ q
  /\ addrun' = [addrun EXCEPT ![p] = TRUE]
  /\ state' = [state EXCEPT ![p] = "Prelease"]
  /\ runq' = Tail(runq)
  /\ kop' = [kop EXCEPT ![p] = op]
  /\ kph' = [kph EXCEPT ![p] = "released"]
  /\ slice' = FALSE
  /\ UNCHANGED <<buf, last, alt>>

Csend(p, c, m) ==
  /\ Running(p) /\ c \in Kchans /\ Fresh(m)
  /\ IF recv[c] = <<>> /\ ~CanPut(c)
     THEN Ccom(p, c, "send", m,
               send' = [send EXCEPT ![c] = cqadd(@, p)] /\ UNCHANGED recv)
     ELSE /\ Become(Isend(Here, p, c, m))
          /\ slice' = TRUE
          /\ UNCHANGED kop
  /\ UNCHANGED <<kill, victim, posting>>

Crecv(p, c) ==
  /\ Running(p) /\ c \in Kchans
  /\ IF send[c] = <<>> /\ ~CanGet(c)
     THEN Ccom(p, c, "recv", Dst,
               recv' = [recv EXCEPT ![c] = cqadd(@, p)] /\ UNCHANGED send)
     ELSE /\ Become(Irecv(Here, p, c))
          /\ slice' = TRUE
          /\ UNCHANGED kop
  /\ UNCHANGED <<kill, victim, posting, next>>

\* Sleep(o->rend, cdone, p): does not block when cdone holds already.
SleepUnchecked(p) ==                                               \* mutant
  /\ kph[p] = "released"
  /\ kph' = [kph EXCEPT ![p] = "asleep"]
  /\ UNCHANGED <<runq, state, chan, alt, ptr, kill, addrun, kop, victim,
                 posting, slice, send, recv, buf, last, next>>
Sleep(p) ==
  /\ kph[p] = "released"
  /\ kph' = [kph EXCEPT ![p] = IF ~addrun[p] \/ kill[p] # "no"
                               THEN "woken" ELSE "asleep"]
  /\ UNCHANGED <<runq, state, chan, alt, ptr, kill, addrun, kop, victim,
                 posting, slice, send, recv, buf, last, next>>

\* cblock looks at p->kill once Sleep has returned.
Woken(p) ==
  /\ kph[p] = "woken"
  /\ kph' = [kph EXCEPT ![p] = IF kill[p] # "no" THEN "error" ELSE "done"]
  /\ UNCHANGED <<runq, state, chan, alt, ptr, kill, addrun, kop, victim,
                 posting, slice, send, recv, buf, last, next>>

\* acquire, and the end of what p had released the machine for.  The error
\* path of ccom withdraws p from the queue unless p->ptr is nil.
CcomError(p) ==
  IF kph[p] # "error" \/ ptr[p] = Nil THEN UNCHANGED <<send, recv, ptr>>
  ELSE /\ ptr' = [ptr EXCEPT ![p] = Nil]
       /\ send' = IF kop[p] # "send" THEN send
                  ELSE [send EXCEPT ![chan[p]] = cqdelp(@, p)]
       /\ recv' = IF kop[p] # "recv" THEN recv
                  ELSE [recv EXCEPT ![chan[p]] = cqdelp(@, p)]

Acquire(p) ==
  /\ kph[p] \in {"done", "error"} /\ ~slice
  /\ kop[p] \in {"send", "recv", "delete"}
  /\ state' = [q \in Progs |-> IF q = p THEN "Pready"
                               ELSE IF q = victim[p] THEN "none" ELSE state[q]]
  /\ runq' = <<p>> \o runq
  /\ CcomError(p)
  /\ addrun' = [addrun EXCEPT ![p] = FALSE]
  /\ kop' = [kop EXCEPT ![p] = "none"]
  /\ kph' = [kph EXCEPT ![p] = "run"]
  /\ victim' = [victim EXCEPT ![p] = None]
  /\ chan' = [chan EXCEPT ![p] = None]
  /\ kill' = [q \in Progs |-> IF q = victim[p] THEN "no" ELSE kill[q]]
  /\ slice' = TRUE
  /\ UNCHANGED <<alt, posting, buf, last, next>>

----------------------------------------------------------------------------
(* Ends of progs.  delprog releases the machine while it closes the files  *)
(* of the dead prog: the deleting prog goes on in Acquire, a prog that     *)
(* deletes itself ends in Deleted.                                         *)

Release(p, op, v) ==
  /\ kop' = [kop EXCEPT ![p] = op]
  /\ kph' = [kph EXCEPT ![p] = "done"]
  /\ victim' = [victim EXCEPT ![p] = v]
  /\ slice' = FALSE

Progexit(p) ==
  /\ AtHead(p)
  /\ state' = [state EXCEPT ![p] = "Prelease"]
  /\ runq' = Tail(runq)
  /\ Release(p, "exit", None)
  /\ UNCHANGED <<chan, alt, ptr, kill, addrun, posting, send, recv, buf, last, next>>

Deleted(p) ==
  /\ kph[p] = "done" /\ kop[p] = "exit" /\ ~slice
  /\ state' = [state EXCEPT ![p] = "none"]
  /\ kop' = [kop EXCEPT ![p] = "none"]
  /\ kph' = [kph EXCEPT ![p] = "run"]
  /\ kill' = [kill EXCEPT ![p] = "no"]
  /\ UNCHANGED <<runq, chan, alt, ptr, addrun, victim, posting, slice, send,
                 recv, buf, last, next>>

\* The exception posted to p is raised and caught, or leaves p broken.
\* The empty string, which killprog posts, is never caught.
Raise(p) ==
  /\ AtHead(p) /\ kill[p] = "ex"
  /\ kill' = [kill EXCEPT ![p] = "no"]
  /\ \/ slice' = TRUE /\ UNCHANGED <<state, runq>>
     \/ /\ state' = [state EXCEPT ![p] = "Pbroken"]
        /\ runq' = Tail(runq)
        /\ slice' = FALSE
  /\ UNCHANGED <<chan, alt, ptr, addrun, kop, kph, victim, posting, send,
                 recv, buf, last, next>>

\* newprog
Spawn(p, q) ==
  /\ Running(p) /\ state[q] = "none"
  /\ state' = [state EXCEPT ![q] = "Pready"]
  /\ runq' = Append(runq, q)
  /\ slice' = TRUE
  /\ UNCHANGED <<chan, alt, ptr, kill, addrun, kop, kph, victim, posting, send, recv, buf, last, next>>

\* The end of a time slice: the next prog of the run queue has its turn.
EndSlice ==
  /\ runq # <<>> /\ posting = None /\ kill[Head(runq)] = "no"
  /\ runq' = Append(Tail(runq), Head(runq))
  /\ slice' = FALSE
  /\ UNCHANGED <<state, chan, alt, ptr, kill, addrun, kop, kph, victim,
                 posting, send, recv, buf, last, next>>

\* swiprog: pulls q out of its Sleep, if it is in one.
Swiprog(q) == IF kph[q] = "asleep" THEN [kph EXCEPT ![q] = "error"] ELSE kph

\* A prog that waits for a communication, and its removal from the queues.
Blocked(q) == state[q] \in {"Palt", "Psend", "Precv"}
UnlinkSendersOnly(q) ==                                            \* mutant
  IF state[q] = "Palt" THEN Altdone(Here, q, alt[q])
  ELSE IF state[q] = "Psend" THEN [Here EXCEPT !.send[chan[q]] = cqdelp(@, q)]
  ELSE Here
Unlink(q) ==
  IF state[q] = "Palt" THEN Altdone(Here, q, alt[q])
  ELSE IF state[q] = "Psend" THEN [Here EXCEPT !.send[chan[q]] = cqdelp(@, q)]
  ELSE IF state[q] = "Precv" THEN [Here EXCEPT !.recv[chan[q]] = cqdelp(@, q)]
  ELSE Here

\* delrunq: q, wherever it is on the queue.
DelrunqNot(r, q) == r                                              \* mutant
Delrunq(r, q) == SelectSeq(r, LAMBDA x : x # q)

\* killprog of a prog that the killer can delete at once.
Killprog(p, q) ==
  /\ Running(p) /\ q # p
  /\ Blocked(q) \/ state[q] \in {"Pready", "Pbroken"}
  /\ LET u == Unlink(q)
     IN  /\ send' = u.send /\ recv' = u.recv
         /\ runq' = Delrunq(Tail(runq), q)
  /\ state' = [state EXCEPT ![q] = "Pexiting", ![p] = "Prelease"]
  /\ Release(p, "delete", q)
  /\ chan' = [chan EXCEPT ![q] = None]
  /\ alt' = [alt EXCEPT ![q] = NoAlt]
  /\ ptr' = [ptr EXCEPT ![q] = Nil]
  /\ UNCHANGED <<kill, addrun, posting, buf, last, next>>

\* killprog of itself, or of a prog that has released the machine.
KillprogLater(p, q) ==
  /\ Running(p) /\ (q = p \/ state[q] = "Prelease")
  /\ kill' = [kill EXCEPT ![q] = "killed"]
  /\ state' = [state EXCEPT ![q] = "Pexiting"]
  /\ kph' = Swiprog(q)
  /\ slice' = TRUE
  /\ UNCHANGED <<runq, chan, alt, ptr, addrun, kop, victim, posting, send,
                 recv, buf, last, next>>

\* exprog of a prog that is ready or waits for a communication.
Exprog(p, q) ==
  /\ AtHead(p) /\ (Blocked(q) \/ state[q] = "Pready")
  /\ IF Blocked(q) THEN Become(Addrun(Unlink(q), q)) ELSE Become(Here)
  /\ kill' = [kill EXCEPT ![q] = IF @ = "no" THEN "ex" ELSE @]
  /\ slice' = TRUE
  /\ UNCHANGED <<kop, victim, posting, next>>

\* exprog of a released prog: first swiprog, then the assignment to p->kill,
\* and between the two the released prog goes on.
ExprogReleased(p, q) ==
  /\ AtHead(p) /\ state[q] = "Prelease"
  /\ kph' = Swiprog(q)
  /\ posting' = q
  /\ slice' = TRUE
  /\ UNCHANGED <<runq, state, chan, alt, ptr, kill, addrun, kop, victim, send,
                 recv, buf, last, next>>

ExprogPost ==
  /\ posting # None
  /\ kill' = [kill EXCEPT ![posting] = IF @ = "no" THEN "ex" ELSE @]
  /\ posting' = None
  /\ UNCHANGED <<runq, state, chan, alt, ptr, addrun, kop, kph, victim, slice,
                 send, recv, buf, last, next>>

----------------------------------------------------------------------------
(* The last reference to c is dropped: freechan, and killcomm on both      *)
(* queues.  A waiter in an alt is taken out by altdone, which follows the  *)
(* queue pointers of c itself: these are nil when it was the last node.    *)

EndsInAlt(q) == q # <<>> /\ state[q[Len(q)]] = "Palt"

Freechan(p, c) ==
  /\ Running(p) /\ c \in Freeable
  /\ LET waiting == send[c] \o recv[c]
         inAlt == {q \in Range(waiting) : state[q] = "Palt"}
         hurt == {q \in Range(waiting) : state[q] \in {"Psend", "Precv"}} \cup inAlt
         released == {q \in Range(waiting) : state[q] = "Prelease"}
         others(qs) == [d \in Chans |->
           IF d = c THEN IF EndsInAlt(qs[c]) THEN Gone ELSE <<>>
           ELSE SelectSeq(qs[d], LAMBDA q : q \notin inAlt)]
     IN  /\ AltRefs => inAlt = {}
         /\ send' = others(send) /\ recv' = others(recv)
         /\ ptr' = [q \in Progs |-> IF q \in Range(waiting) THEN Nil ELSE ptr[q]]
         /\ kill' = [q \in Progs |-> IF q \in hurt THEN "ex" ELSE kill[q]]
         /\ state' = [q \in Progs |-> IF q \in hurt THEN "Pready" ELSE state[q]]
         /\ runq' = runq \o SelectSeq(waiting, LAMBDA q : q \in hurt)
         /\ kph' = [q \in Progs |-> IF q \in released /\ kph[q] = "asleep"
                                    THEN "error" ELSE kph[q]]
         /\ chan' = [q \in Progs |-> IF q \in hurt THEN None ELSE chan[q]]
         /\ alt' = [q \in Progs |-> IF q \in inAlt THEN NoAlt ELSE alt[q]]
  /\ buf' = [buf EXCEPT ![c] = <<>>]
  /\ slice' = TRUE
  /\ UNCHANGED <<addrun, kop, victim, posting, last, next>>

----------------------------------------------------------------------------
Next ==
  \/ \E p \in Progs :
       \/ \E c \in Chans, m \in Values : Send(p, c, m)
       \/ \E c \in Chans : Recv(p, c)
       \/ \E a \in Alts, m \in Values : Xecalt(p, a, m)
       \/ \E c \in Chans, m \in Values : Csend(p, c, m)
       \/ \E c \in Chans : Crecv(p, c)
       \/ \E c \in Chans : Freechan(p, c)
       \/ \E q \in Progs : Spawn(p, q)
       \/ \E q \in Progs : Killprog(p, q)
       \/ \E q \in Progs : KillprogLater(p, q)
       \/ \E q \in Progs : Exprog(p, q)
       \/ \E q \in Progs : ExprogReleased(p, q)
       \/ Raise(p)
       \/ Progexit(p)
       \/ Deleted(p)
       \/ Sleep(p)
       \/ Woken(p)
       \/ Acquire(p)
  \/ ExprogPost
  \/ EndSlice

Spec == Init /\ [][Next]_vars

\* Host threads are scheduled; acquire is served in order (module Isched,
\* AcquirerServed) although the machine is free only now and then; a program
\* does not raise exceptions for ever without ending a slice; propex visits
\* every prog of the group once.
Fairness ==
  /\ SF_vars(EndSlice)
  /\ WF_vars(ExprogPost)
  /\ \A p \in Progs :
       /\ WF_vars(Sleep(p)) /\ WF_vars(Woken(p))
       /\ SF_vars(Acquire(p)) /\ SF_vars(Deleted(p))
       /\ SF_vars(kill[p] # "no" /\ Progexit(p))

FairSpec == Spec /\ Fairness

----------------------------------------------------------------------------
(* Properties *)

\* Type invariant.
TypeOK ==
  /\ runq \in Seq(Progs)
  /\ state \in [Progs -> {"none", "Pready", "Palt", "Psend", "Precv",
                          "Prelease", "Pexiting", "Pbroken"}]
  /\ chan \in [Progs -> Chans \cup {None}]
  /\ alt \in [Progs -> [tab : Alts \cup {NoAlt.tab}, msg : Values \cup {Nil}]]
  /\ ptr \in [Progs -> Values \cup {Dst, Nil}]
  /\ kill \in [Progs -> {"no", "ex", "killed"}]
  /\ addrun \in [Progs -> BOOLEAN]
  /\ kop \in [Progs -> {"none", "send", "recv", "delete", "exit"}]
  /\ kph \in [Progs -> {"run", "released", "asleep", "woken", "done", "error"}]
  /\ victim \in [Progs -> Progs \cup {None}]
  /\ posting \in Progs \cup {None}
  /\ slice \in BOOLEAN
  /\ send \in [Chans -> Seq(Progs \cup {None})]
  /\ recv \in [Chans -> Seq(Progs \cup {None})]
  /\ buf \in [Chans -> Seq(Values)] /\ \A c \in Chans : Len(buf[c]) <= Cap[c]
  /\ last \in [Chans -> Values]
  /\ next \in 1..Marks + 1

\* A prog is on the run queue exactly when it can run, and then once:
\* addrun, delrun and delrunq link progs through p->link without looking
\* whether they are on the queue already.
RunqExact ==
  \A p \in Progs :
    Times(runq, p) = IF \/ state[p] = "Pready"
                        \/ state[p] = "Pexiting" /\ kop[p] = "none" /\ kill[p] = "killed"
                     THEN 1 ELSE 0

\* How often p has to be in the queues of c.
Waits(p, c, side) ==
  IF state[p] = "Palt" THEN Times(alt[p].tab[side], c)
  ELSE IF \/ side = "send" /\ state[p] = "Psend"
          \/ side = "recv" /\ state[p] = "Precv"
          \/ kop[p] = side /\ ptr[p] # Nil
       THEN IF chan[p] = c THEN 1 ELSE 0
  ELSE 0

\* A prog is in the queues of exactly the channels it waits for: whatever
\* ends a wait (a partner, a kill, an exception, an interrupted system call,
\* a freed channel) leaves no node behind for a prog that has gone on or has
\* been freed, and loses none of a prog that still waits.  Nor do the queue
\* pointers, which every operation follows without a test, ever become nil
\* (cqdelp, killcomm).
QueuesExact ==
  \A c \in Chans :
    /\ send[c] # Gone /\ recv[c] # Gone
    /\ \A p \in Progs : /\ Times(send[c], p) = Waits(p, c, "send")
                        /\ Times(recv[c], p) = Waits(p, c, "recv")

\* No partners miss each other: nobody waits to receive while there is
\* something to receive, nobody waits to send while there is room or a
\* receiver.  isend and irecv print "non-empty buffer in isend" and
\* "non-full buffer in irecv" when they find it otherwise.
NoMissedMeeting ==
  \A c \in Chans :
    /\ recv[c] # <<>> => send[c] = <<>> /\ buf[c] = <<>>
    /\ send[c] # <<>> => Len(buf[c]) = Cap[c]

\* The values on their way through c: buffered ones, then the senders'.
Pending(c) ==
  buf[c] \o [i \in DOMAIN send[c] |->
              IF state[send[c][i]] = "Palt" THEN alt[send[c][i]].msg ELSE ptr[send[c][i]]]

\* Values come out of a channel in the order in which the sends were
\* executed, each at most once, whatever mixture of send, alt, csend,
\* buffer, kills and exceptions they went through.
Fifo ==
  \A c \in Chans :
    LET all == <<last[c]>> \o SelectSeq(Pending(c), LAMBDA m : m > Plain)
    IN  \A i, j \in DOMAIN all : i < j => all[i] < all[j]

\* A prog that sleeps inside the kernel is in the queue of its channel, where
\* a partner can find it: the wakeup of cwakeme is not lost.
NoOrphanSleeper ==
  \A p \in Progs : kph[p] = "asleep" =>
     \/ kop[p] = "send" /\ p \in Range(send[chan[p]])
     \/ kop[p] = "recv" /\ p \in Range(recv[chan[p]])

\* "atomically raise the exception in all processes in the group"
\* (man/3/prog): a prog to which an exception has been posted does not sleep
\* on (exprog, swiprog, cblock).  This does not hold: exprog calls swiprog
\* before it sets p->kill.
ExceptionWakes ==
  \A p \in Progs : kill[p] # "no" => kph[p] # "asleep"

\* A killed prog dies, wherever in the kernel it was waiting.
KilledDies == \A p \in Progs : kill[p] = "killed" ~> state[p] = "none"

=============================================================================
