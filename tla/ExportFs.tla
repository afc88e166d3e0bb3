------------------------------ MODULE ExportFs ------------------------------
(***************************************************************************)
(* The file server of emu/port/exportfs.c on one connection: exportproc    *)
(* reads requests and queues them in exq; exslave processes, made as       *)
(* needed, take them, carry them out and answer; a Tflush removes a waiting*)
(* request, or interrupts the slave that has it and is answered by that    *)
(* slave after the request.                                                *)
(*                                                                         *)
(* The steps are the critical sections of exq.l, fs->l and q->l, and the   *)
(* calls that block.  What an operation does to a file is left out: it     *)
(* ends, at any time, with or without an error.  The client follows        *)
(* flush(5), as module MountRpc (TagsSafe) shows the mount driver to do.   *)
(***************************************************************************)
EXTENDS Naturals, Sequences, FiniteSets, Lists

CONSTANTS
  ReqTags,   \* bound: the tags the client uses for requests
  FlushTags, \* bound: and for Tflushes
  NSlaves    \* bound: slaves made; when all exist, no more are

ASSUME ExportAssumption ==
  ReqTags \cup FlushTags \subseteq Nat \ {0} /\ NSlaves \in Nat

VARIABLES
  reader, rq,      \* where exportproc is, and the message it deals with
  head,            \* the list exq.head
  tailok,          \* exq.tail is the last of the list, or the list is empty
  exql,            \* the holder of exq.l between two steps
  leaked,          \* fs->l is held for ever
  work,            \* fs->work: the slaves with a job, newest first
  qhold, qwait,    \* exq.qwait: its holder and its queue
  pc, job, cur,    \* each slave's place, its Exq, and what it is dealing with
  swi,             \* an interruption of the slave is pending
  ref,             \* fs->r.ref, without the references of lost requests
  down,            \* the client is gone
  pending, wire,   \* see Styx
  lost             \* history: awaited requests that were lost

NoTag == 0
Tags == ReqTags \cup FlushTags
Slaves == 1 .. NSlaves
None == 0

Client == INSTANCE Styx

NoMsg == [tag |-> NoTag, old |-> NoTag, call |-> None]
NoJob == [msg |-> NoMsg, busy |-> FALSE, finished |-> FALSE, shut |-> FALSE,
          err |-> FALSE, flush |-> <<>>]

rvars == <<reader, rq>>
qvars == <<head, tailok>>
wvars == <<qhold, qwait>>
svars == <<pc, job, cur, swi>>
cvars == <<down, pending, wire, lost>>
vars == <<rvars, qvars, exql, leaked, work, wvars, svars, ref, cvars>>

Init ==
  /\ reader = "read" /\ rq = NoMsg
  /\ head = <<>> /\ tailok = TRUE
  /\ exql = None /\ leaked = FALSE
  /\ work = <<>>
  /\ qhold = None /\ qwait = <<>>
  /\ pc = [s \in Slaves |-> "off"]
  /\ job = [s \in Slaves |-> NoJob]
  /\ cur = [s \in Slaves |-> NoMsg]
  /\ swi = [s \in Slaves |-> FALSE]
  /\ ref = 1
  /\ lost = {}
  /\ Client!StyxInit

At(s, l) == pc[s] = l

\* Of the numbers S, i is the one that a search from the front meets.
IsFirst(i, S) == \A j \in S : i <= j
Goto(s, l) == pc' = [pc EXCEPT ![s] = l]

----------------------------------------------------------------------------
(* Replies *)

Position(m) == CHOOSE i \in DOMAIN pending : pending[i] = m

\* What the client waits for once it has m, as the one member of a set.
Answered(m) ==
  IF m \notin Elements(pending) THEN {pending}
  ELSE IF Client!IsFlush(m) THEN Client!Settle(Position(m))
  ELSE {Without(pending, Position(m))}

\* exreply: one write; a failure is ignored.  pending is the history of what
\* the client waits for: an answer it does not wait for removes nothing.
Exreply(m) ==
  IF down THEN UNCHANGED <<pending, wire, lost>>
  ELSE /\ wire' = Append(wire, m)
       /\ pending' \in Answered(m)
       /\ lost' = lost \cap Elements(pending')

----------------------------------------------------------------------------
(* exportproc *)

\* A tag is free for the client when it awaits no answer to it and none to a
\* Tflush of it.
Busy == {m.tag : m \in Elements(pending) \cup Elements(wire)}
        \cup {m.old : m \in Elements(pending) \cup Elements(wire)}

\* What the client may send: a request, or a Tflush of a request, which may have
\* been answered or never sent, and not of another Tflush.
Sendable ==
  LET Flushes == {m.tag : m \in {n \in Elements(pending) \cup Elements(wire) : Client!IsFlush(n)}}
  IN  [tag : ReqTags \ Busy, old : {NoTag}, call : {None}]
      \cup {m \in [tag : FlushTags \ Busy, old : ReqTags \ Flushes, call : {None}] :
              m.old # m.tag}

\* A message is read.  A Tflush is dealt with at once; so is a request that a
\* read-only export refuses.
Exreadmsg ==
  /\ reader = "read"
  /\ \E m \in Sendable :
       /\ Client!Receive(m)
       /\ rq' = m
       /\ reader' \in IF Client!IsFlush(m) THEN {"flush"} ELSE {"append", "reply"}
  /\ ref' = ref + 1
  /\ UNCHANGED <<qvars, exql, leaked, work, wvars, svars, down, lost>>

\* The request is linked behind exq.tail.  When exq.tail is a record that was
\* freed, nothing leads to the request: it is lost.
Enqueue ==
  /\ reader = "append" /\ exql = None
  /\ head' = IF head = <<>> \/ tailok THEN Append(head, rq) ELSE head
  /\ tailok' = (head = <<>> \/ tailok)
  /\ lost' = IF tailok' THEN lost ELSE lost \cup ({rq} \cap Elements(pending))
  /\ ref' = IF tailok' THEN ref ELSE ref - 1
  /\ reader' = "spawn"
  /\ UNCHANGED <<rq, exql, leaked, work, wvars, svars, down, pending, wire>>

\* if(exq.qwait.head == nil) kproc(...), without a lock.
Spawn ==
  /\ reader = "spawn"
  /\ LET new == {s \in Slaves : At(s, "off")}
     IN  IF qwait = <<>> /\ new # {}
         THEN \E s \in new : IsFirst(s, new) /\ Goto(s, "qlock")
         ELSE UNCHANGED pc
  /\ reader' = "wakeup"
  /\ UNCHANGED <<rq, qvars, exql, leaked, work, wvars, job, cur, swi, ref, cvars>>

\* Only the holder of exq.qwait sleeps on exq.rwait.
Wakeup ==
  /\ reader = "wakeup"
  /\ IF qhold # None /\ At(qhold, "blocked") THEN Goto(qhold, "woken") ELSE UNCHANGED pc
  /\ reader' = "read" /\ rq' = NoMsg
  /\ UNCHANGED <<qvars, exql, leaked, work, wvars, job, cur, swi, ref, cvars>>

\* exflushed, the request not yet started: it is unlinked and freed, and
\* exq.tail stays as it is.
FlushWaiting ==
  /\ reader = "flush" /\ exql = None
  /\ LET found == {i \in DOMAIN head : head[i].tag = rq.old}
     IN  IF found = {}
         THEN reader' = "flushwork" /\ UNCHANGED <<qvars, ref>>
         ELSE /\ \E i \in found :
                   /\ IsFirst(i, found)
                   /\ head' = Without(head, i)
                   /\ tailok' = ((tailok /\ i # Len(head)) \/ Len(head) = 1)
              /\ ref' = ref - 1
              /\ reader' = "reply"
  /\ UNCHANGED <<rq, exql, leaked, work, wvars, svars, cvars>>

\* mutant: the slave is left to finish
InterruptNone(s) == UNCHANGED swi

\* A slave that is busy with the request is interrupted.
Interrupt(s) == swi' = [swi EXCEPT ![s] = @ \/ job[s].busy]

\* The Tflush is queued with the slave s, which is interrupted if it is busy.
\* When the slave has finished the function returns with fs->l held.
FlushJob(s) ==
  IF job[s].finished
  THEN reader' = "reply" /\ leaked' = TRUE /\ UNCHANGED <<rq, job, swi>>
  ELSE /\ job' = [job EXCEPT ![s].flush = Append(@, rq)]
       /\ Interrupt(s)
       /\ reader' = "read" /\ rq' = NoMsg
       /\ UNCHANGED leaked

\* exflushed, the request in progress.
FlushWork ==
  /\ reader = "flushwork" /\ ~leaked
  /\ LET found == {i \in DOMAIN work : job[work[i]].msg.tag = rq.old}
     IN  IF found = {}
         THEN reader' = "reply" /\ UNCHANGED <<rq, leaked, job, swi>>
         ELSE \E i \in found : IsFirst(i, found) /\ FlushJob(work[i])
  /\ UNCHANGED <<qvars, exql, work, wvars, pc, cur, ref, cvars>>

ReaderReply ==
  /\ reader = "reply"
  /\ Exreply(rq)
  /\ ref' = ref - 1
  /\ reader' = "read" /\ rq' = NoMsg
  /\ UNCHANGED <<qvars, exql, leaked, work, wvars, svars, down>>

\* exshutdown: the work not started is freed,
ShutWaiting ==
  /\ reader = "read" /\ down /\ exql = None
  /\ head' = <<>> /\ tailok' = TRUE
  /\ ref' = ref - Len(head)
  /\ reader' = "shut"
  /\ UNCHANGED <<rq, exql, leaked, work, wvars, svars, cvars>>

\* and the slaves are told to abandon the work in progress.  Then exfree.
ShutWork ==
  /\ reader = "shut" /\ ~leaked
  /\ work' = <<>>
  /\ job' = [s \in Slaves |-> [job[s] EXCEPT !.shut = @ \/ s \in Elements(work)]]
  /\ swi' = [s \in Slaves |-> swi[s] \/ s \in Elements(work)]
  /\ ref' = ref - 1
  /\ reader' = "done"
  /\ UNCHANGED <<rq, qvars, exql, leaked, wvars, pc, cur, cvars>>

Reader ==
  \/ Enqueue \/ Spawn \/ Wakeup
  \/ FlushWaiting \/ FlushWork \/ ReaderReply
  \/ ShutWaiting \/ ShutWork

----------------------------------------------------------------------------
(* exslave *)

\* qunlock(&exq.qwait), in a step of s that goes on at l.
Qunlock(s, l) ==
  IF qwait = <<>>
  THEN qhold' = None /\ Goto(s, l) /\ UNCHANGED qwait
  ELSE /\ qhold' = Head(qwait) /\ qwait' = Tail(qwait)
       /\ pc' = [pc EXCEPT ![s] = l, ![Head(qwait)] = "sleep"]

Qlock(s) ==
  /\ At(s, "qlock")
  /\ IF qhold = None
     THEN qhold' = s /\ Goto(s, "sleep") /\ UNCHANGED qwait
     ELSE qwait' = Append(qwait, s) /\ Goto(s, "queued") /\ UNCHANGED qhold
  /\ UNCHANGED <<rvars, qvars, exql, leaked, work, job, cur, swi, ref, cvars>>

Exwork == head # <<>>

Sleep(s) ==
  /\ At(s, "sleep")
  /\ Goto(s, IF swi[s] \/ Exwork THEN "woken" ELSE "blocked")
  /\ UNCHANGED <<rvars, qvars, exql, leaked, work, wvars, job, cur, swi, ref, cvars>>

\* An interrupted Sleep begins again.
SleepReturn(s) ==
  /\ At(s, "woken")
  /\ IF swi[s] THEN Qunlock(s, "qlock") /\ swi' = [swi EXCEPT ![s] = FALSE]
     ELSE Goto(s, "take") /\ UNCHANGED <<wvars, swi>>
  /\ UNCHANGED <<rvars, qvars, exql, leaked, work, job, cur, ref, cvars>>

\* mutant: exq.l is released before the job is in fs->work
TakeEarly(s) ==
  /\ At(s, "take") /\ exql = None
  /\ IF head = <<>>
     THEN Qunlock(s, "qlock") /\ UNCHANGED <<qvars, cur>>
     ELSE /\ cur' = [cur EXCEPT ![s] = Head(head)]
          /\ head' = Tail(head)
          /\ tailok' = (tailok \/ Len(head) = 1)
          /\ Qunlock(s, "start")
  /\ UNCHANGED <<rvars, exql, leaked, work, job, swi, ref, cvars>>

\* The first request, if it is still there, is taken; exq.l is kept ...
Take(s) ==
  /\ At(s, "take") /\ exql = None
  /\ IF head = <<>>
     THEN Qunlock(s, "qlock") /\ UNCHANGED <<qvars, exql, cur>>
     ELSE /\ cur' = [cur EXCEPT ![s] = Head(head)]
          /\ head' = Tail(head)
          /\ tailok' = (tailok \/ Len(head) = 1)
          /\ exql' = s
          /\ Qunlock(s, "start")
  /\ UNCHANGED <<rvars, leaked, work, job, swi, ref, cvars>>

\* ... until it is in fs->work.
Start(s) ==
  /\ At(s, "start") /\ ~leaked
  /\ swi' = [swi EXCEPT ![s] = FALSE]
  /\ job' = [job EXCEPT ![s] = [NoJob EXCEPT !.msg = cur[s], !.busy = TRUE]]
  /\ cur' = [cur EXCEPT ![s] = NoMsg]
  /\ work' = <<s>> \o work
  /\ exql' = None
  /\ Goto(s, "run")
  /\ UNCHANGED <<rvars, qvars, leaked, wvars, ref, cvars>>

\* The operation (Exwalk, Exopen, Exread, ...) ends.
Fcall(s) ==
  /\ At(s, "run")
  /\ \E err \in BOOLEAN : job' = [job EXCEPT ![s].err = err]
  /\ Goto(s, "end")
  /\ UNCHANGED <<rvars, qvars, exql, leaked, work, wvars, cur, swi, ref, cvars>>

\* An operation that has been interrupted does end.
Interrupted(s) == swi[s] /\ Fcall(s)

\* Interruptions are off from here.  An operation that ended well is answered,
\* a failed one only if it is not being flushed.
End(s) ==
  /\ At(s, "end")
  /\ swi' = [swi EXCEPT ![s] = FALSE]
  /\ LET j == job[s]
     IN  /\ job' = [job EXCEPT ![s].busy = FALSE, ![s].finished = j.shut]
         /\ Goto(s, IF j.shut THEN "unlink"
                    ELSE IF j.flush = <<>> \/ ~j.err THEN "reply"
                    ELSE "flushes")
  /\ UNCHANGED <<rvars, qvars, exql, leaked, work, wvars, cur, ref, cvars>>

Reply(s) ==
  /\ At(s, "reply")
  /\ Exreply(job[s].msg)
  /\ Goto(s, "flushes")
  /\ UNCHANGED <<rvars, qvars, exql, leaked, work, wvars, job, cur, swi, ref, down>>

\* mutant: the latest Tflush is answered first
FlushesLast(s) ==
  /\ At(s, "flushes")
  /\ LET j == job[s]
     IN  IF j.flush # <<>> /\ ~j.shut
         THEN /\ cur' = [cur EXCEPT ![s] = j.flush[Len(j.flush)]]
              /\ job' = [job EXCEPT ![s].flush = SubSeq(@, 1, Len(@) - 1)]
              /\ Goto(s, "rflush")
         ELSE /\ job' = [job EXCEPT ![s].finished = TRUE]
              /\ Goto(s, "unlink")
              /\ UNCHANGED cur
  /\ UNCHANGED <<rvars, qvars, exql, leaked, work, wvars, swi, ref, cvars>>

\* The next Tflush of the job, or the end of it.
Flushes(s) ==
  /\ At(s, "flushes")
  /\ LET j == job[s]
     IN  IF j.flush # <<>> /\ ~j.shut
         THEN /\ cur' = [cur EXCEPT ![s] = Head(j.flush)]
              /\ job' = [job EXCEPT ![s].flush = Tail(@)]
              /\ Goto(s, "rflush")
         ELSE /\ job' = [job EXCEPT ![s].finished = TRUE]
              /\ Goto(s, "unlink")
              /\ UNCHANGED cur
  /\ UNCHANGED <<rvars, qvars, exql, leaked, work, wvars, swi, ref, cvars>>

Rflush(s) ==
  /\ At(s, "rflush")
  /\ Exreply(cur[s])
  /\ cur' = [cur EXCEPT ![s] = NoMsg]
  /\ ref' = ref - 1
  /\ Goto(s, "flushes")
  /\ UNCHANGED <<rvars, qvars, exql, leaked, work, wvars, job, swi, down>>

Unlink(s) ==
  /\ At(s, "unlink") /\ ~leaked
  /\ work' \in Kept(work, {i \in DOMAIN work : work[i] # s})
  /\ Goto(s, "free")
  /\ UNCHANGED <<rvars, qvars, exql, leaked, wvars, job, cur, swi, ref, cvars>>

\* mutant: an interruption that came late stays pending
FreeKilled(s) ==
  /\ At(s, "free")
  /\ ref' = ref - 1
  /\ IF job[s].flush # <<>>
     THEN job' = [job EXCEPT ![s].flush = Tail(@)] /\ UNCHANGED pc
     ELSE job' = [job EXCEPT ![s] = NoJob] /\ Goto(s, "qlock")
  /\ UNCHANGED <<rvars, qvars, exql, leaked, work, wvars, cur, swi, cvars>>

\* mutant: the references of the flushes left are not given back
FreeOne(s) ==
  /\ At(s, "free")
  /\ swi' = [swi EXCEPT ![s] = FALSE]
  /\ ref' = ref - 1
  /\ job' = [job EXCEPT ![s] = NoJob]
  /\ Goto(s, "qlock")
  /\ UNCHANGED <<rvars, qvars, exql, leaked, work, wvars, cur, cvars>>

\* notkilled and exfreeq: one by one the flushes left when the export shut down,
\* and then the job itself.
Free(s) ==
  /\ At(s, "free")
  /\ swi' = [swi EXCEPT ![s] = FALSE]
  /\ ref' = ref - 1
  /\ IF job[s].flush # <<>>
     THEN job' = [job EXCEPT ![s].flush = Tail(@)] /\ UNCHANGED pc
     ELSE job' = [job EXCEPT ![s] = NoJob] /\ Goto(s, "qlock")
  /\ UNCHANGED <<rvars, qvars, exql, leaked, work, wvars, cur, cvars>>

Slave(s) ==
  \/ Qlock(s) \/ Sleep(s) \/ SleepReturn(s) \/ Take(s) \/ Start(s)
  \/ End(s) \/ Reply(s) \/ Flushes(s) \/ Rflush(s) \/ Unlink(s) \/ Free(s)

----------------------------------------------------------------------------
(* The client (external) *)

ClientTake == Client!Take /\ UNCHANGED <<rvars, qvars, exql, leaked, work, wvars,
                                         svars, ref, down, lost>>

\* The connection breaks, or carries something that is not a T-message.
Hangup ==
  /\ Client!Hangup
  /\ lost' = {}
  /\ UNCHANGED <<rvars, qvars, exql, leaked, work, wvars, svars, ref>>

Next ==
  \/ Exreadmsg \/ Reader
  \/ \E s \in Slaves : Slave(s) \/ Fcall(s)
  \/ ClientTake \/ Hangup

Spec == Init /\ [][Next]_vars

\* Processes run.  An operation may go on for ever (a read of a keyboard)
\* unless it is interrupted.  A hangup, and new messages, need not happen.
FairSpec ==
  /\ Spec
  /\ WF_vars(Reader)
  /\ \A s \in Slaves : WF_vars(Slave(s)) /\ WF_vars(Interrupted(s))

----------------------------------------------------------------------------
Message == [tag : Tags \cup {NoTag}, old : Tags \cup {NoTag}, call : {None}]

\* Every variable has its type.
TypeOK ==
  /\ reader \in {"read", "append", "spawn", "wakeup", "flush", "flushwork",
                 "reply", "shut", "done"}
  /\ rq \in Message
  /\ head \in Seq(Message) /\ tailok \in BOOLEAN
  /\ exql \in Slaves \cup {None} /\ leaked \in BOOLEAN
  /\ work \in Seq(Slaves)
  /\ qhold \in Slaves \cup {None} /\ qwait \in Seq(Slaves)
  /\ pc \in [Slaves -> {"off", "qlock", "queued", "sleep", "blocked", "woken",
                        "take", "start", "run", "end", "reply", "flushes",
                        "rflush", "unlink", "free"}]
  /\ job \in [Slaves -> [msg : Message, busy : BOOLEAN, finished : BOOLEAN,
                         shut : BOOLEAN, err : BOOLEAN, flush : Seq(Message)]]
  /\ cur \in [Slaves -> Message]
  /\ swi \in [Slaves -> BOOLEAN]
  /\ ref \in Nat /\ down \in BOOLEAN /\ lost \subseteq Message
  /\ pending \in Seq(Message) /\ wire \in Seq(Message)

HasJob(s) == pc[s] \in {"run", "end", "reply", "flushes", "rflush", "unlink", "free"}

\* A slave is interrupted only for the job it has, and a flush never tears the
\* reply it is writing: unless the export shuts down, an interruption is pending
\* only while the operation runs (busy, notkilled).
InterruptsAimed ==
  \A s \in Slaves : swi[s] =>
    HasJob(s) /\ (job[s].shut \/ (pc[s] \in {"run", "end"} /\ job[s].flush # <<>>))

\* The Tflushes that wait for a job to end.
Flushing == UNION {{s} \X DOMAIN job[s].flush : s \in Slaves}

\* The number of elements of S is n: they can be numbered 1 to n.
Counts(n, S) ==
  \E g \in [1 .. n -> S] : /\ \A i, j \in 1 .. n : g[i] = g[j] => i = j
                          /\ \A x \in S : \E i \in 1 .. n : g[i] = x

\* The Export is freed when it should be, and not under anyone: the reader and
\* every message that is waiting, in progress or being answered hold one
\* reference each, on all the ways a message is disposed of.
RefsExact ==
  \E jobs, curs, flushes \in 0 .. ref :
    /\ Counts(jobs, {s \in Slaves : HasJob(s)})
    /\ Counts(curs, {s \in Slaves : cur[s] # NoMsg})
    /\ Counts(flushes, Flushing)
    /\ ref = (IF reader = "done" THEN 0 ELSE 1)
             + (IF reader \in {"append", "flush", "flushwork", "reply"} THEN 1 ELSE 0)
             + Len(head) + jobs + curs + flushes

\* A request can always be found by a flush or a shutdown: whatever the client
\* waits for is in exq, in fs->work, on its way from one to the other with exq.l
\* held, or just being flushed by the reader; only a request linked behind a
\* freed exq.tail is not.  So exflushed never answers for a request that may yet
\* be started.
Findable ==
  ~down => \A m \in Elements(pending) \ lost : ~Client!IsFlush(m) =>
    \/ rq = m \/ m \in Elements(head)
    \/ reader = "reply" /\ rq.old = m.tag
    \/ \E s \in Slaves : \/ exql = s /\ cur[s] = m
                         \/ s \in Elements(work) /\ job[s].msg = m

\* exportfs keeps the contract of Styx, whatever the order of requests, flushes
\* and completions: one answer at most to a request, none after its Rflush, and
\* flushes answered in order after the reply.
IsStyx == Client!StyxSpec

\* flush(5): a Tflush is answered without waiting for the request to complete,
\* unless the client has gone, or fs->l has been left locked.
FlushAnswered ==
  \A t \in Tags :
    (\E m \in Elements(pending) : m.tag = t /\ Client!IsFlush(m))
      ~> (t \notin {m.tag : m \in Elements(pending)} \/ down \/ leaked)

\* flush(5) as the manual has it: "The server should answer the flush message
\* immediately."  exflushed can leave fs->l locked, and then no later Tflush is
\* answered.
FlushAlwaysAnswered ==
  \A t \in Tags :
    (\E m \in Elements(pending) : m.tag = t /\ Client!IsFlush(m))
      ~> (t \notin {m.tag : m \in Elements(pending)} \/ down)

=============================================================================
