------------------------------ MODULE MountRpc ------------------------------
(***************************************************************************)
(* The mount driver, emu/port/devmnt.c: processes make remote calls over   *)
(* one shared connection.  A caller queues its header, writes the request, *)
(* and waits; one of the waiting callers reads the connection for all of   *)
(* them (m->rip) and passes that duty on when its own reply has come.  An  *)
(* interrupted caller sends a Tflush and waits for that instead, with the  *)
(* interrupted request chained behind it.                                  *)
(*                                                                         *)
(* A header (Mntrpc) keeps its tag while it is on the free list, so it is  *)
(* identified by its tag.  The steps are the critical sections of m->l and *)
(* mntalloc.l and the calls that block; Sleep, Wakeup and swiproc are what *)
(* module Rendez shows them to be.  The server is module Styx.             *)
(***************************************************************************)
EXTENDS Naturals, Sequences, FiniteSets, Lists

CONSTANTS
  Procs, None,
  NTags,        \* bound: tags are 1 .. NTags, enough for every header at once
  MaxFree,      \* headers kept on the free list: 10 in mntfree
  MaxIntr,      \* bound: interruptions of one call of each process
  MaxVersions   \* bound: Tversions on their way at the same time

ASSUME MountAssumption ==
  /\ None \notin Procs /\ IsFiniteSet(Procs)
  /\ NTags \in Nat /\ MaxFree \in Nat /\ MaxVersions \in Nat
  /\ MaxIntr \in [Procs -> Nat]

VARIABLES
  pc,         \* where each process is
  r,          \* the header each process is waiting for
  rpc,        \* the headers: done, flushed, request, reply
  rp,         \* the process asleep on each header's Rendez
  queue, rip, \* m->queue and m->rip
  rpcfree,    \* the free list
  tags,       \* mntalloc.tagmask: the tags in use, the free list's included
  mux, umq,   \* c->mux is set; the holder of c->umqlock
  failed,     \* mountio raises an error other than Eintr
  target,     \* the header mountmux is about to wake
  swi, nintr, \* an interruption is pending; interruptions of this call
  fate,       \* what became of each process's call, see Rpc
  down,       \* the connection is broken
  pending, wire

mvars == <<rpc, rp, queue, rip, rpcfree, tags>>
vvars == <<mux, umq>>
srv == <<down, pending, wire>>
vars == <<pc, r, mvars, vvars, failed, target, swi, nintr, fate, srv>>

Server == INSTANCE Styx

NoTag == 0
Tags == 1 .. NTags

Message == [tag : 0 .. NTags, old : 0 .. NTags, call : Procs \cup {None}]

ASSUME NoMessage == None \notin Message

NoRpc == [done |-> FALSE, flushed |-> NoTag, req |-> None, reply |-> None]

\* The reply type mntflushfree gives an unanswered request: no message is this.
Rflush == [tag |-> NoTag, old |-> 1, call |-> None]

Init ==
  /\ pc = [p \in Procs |-> "idle"]
  /\ r = [p \in Procs |-> NoTag]
  /\ rpc = [t \in Tags |-> NoRpc]
  /\ rp = [t \in Tags |-> None]
  /\ queue = <<>> /\ rip = None
  /\ rpcfree = <<>> /\ tags = {}
  /\ mux = FALSE /\ umq = None
  /\ failed = [p \in Procs |-> FALSE]
  /\ target = [p \in Procs |-> NoTag]
  /\ swi = [p \in Procs |-> FALSE]
  /\ nintr = [p \in Procs |-> 0]
  /\ fate = [p \in Procs |-> "idle"]
  /\ Server!StyxInit

At(p, l) == pc[p] = l
Goto(p, l) == pc' = [pc EXCEPT ![p] = l]
InCall(p) == r[p] # NoTag

----------------------------------------------------------------------------
(* Headers and tags *)

\* mntralloc with alloctag: the newest free header, or a new one with the
\* lowest unused tag.
Ralloc(t) ==
  IF rpcfree # <<>>
  THEN t = Head(rpcfree) /\ rpcfree' = Tail(rpcfree) /\ UNCHANGED tags
  ELSE /\ t \notin tags /\ \A u \in Tags \ tags : t <= u
       /\ tags' = tags \cup {t} /\ UNCHANGED rpcfree

\* mntfree with freetag.
Free(t) ==
  IF Len(rpcfree) >= MaxFree
  THEN tags' = tags \ {t} /\ UNCHANGED rpcfree
  ELSE rpcfree' = <<t>> \o rpcfree /\ UNCHANGED tags

\* The queue without t.
Unqueued(t) == Kept(queue, {i \in DOMAIN queue : queue[i] # t})

----------------------------------------------------------------------------
(* mntversion: one exchange before the multiplexer exists.                 *)

VersionMsg == [tag |-> NoTag, old |-> NoTag, call |-> None]

Versions == Cardinality({i \in DOMAIN pending : pending[i] = VersionMsg})
            + Cardinality({i \in DOMAIN wire : wire[i] = VersionMsg})

VersionStart(p) ==
  /\ At(p, "idle") /\ ~mux
  /\ Goto(p, "vlock")
  /\ UNCHANGED <<r, mvars, vvars, failed, target, swi, nintr, fate, srv>>

\* mutant: c->mux is not looked at again with the lock held
VersionLockBlind(p) ==
  /\ At(p, "vlock") /\ umq = None
  /\ Goto(p, "vwrite") /\ umq' = p
  /\ UNCHANGED <<r, mvars, mux, failed, target, swi, nintr, fate, srv>>

VersionLock(p) ==
  /\ At(p, "vlock") /\ umq = None
  /\ IF mux THEN Goto(p, "idle") /\ UNCHANGED umq
     ELSE Goto(p, "vwrite") /\ umq' = p
  /\ UNCHANGED <<r, mvars, mux, failed, target, swi, nintr, fate, srv>>

VersionWrite(p) ==
  /\ At(p, "vwrite") /\ Versions < MaxVersions
  /\ Server!Receive(VersionMsg)
  /\ Goto(p, "vread")
  /\ UNCHANGED <<r, mvars, vvars, failed, target, swi, nintr, fate, down>>

\* The reply is accepted and the Mnt is set up.
VersionRead(p) ==
  /\ At(p, "vread") /\ Server!Take
  /\ mux' = TRUE /\ umq' = None
  /\ Goto(p, "idle")
  /\ UNCHANGED <<r, mvars, failed, target, swi, nintr, fate, down>>

\* An interrupted or failed read or write, or a reply that is refused.
VersionFail(p) ==
  /\ At(p, "vwrite") \/ At(p, "vread")
  /\ umq' = None
  /\ Goto(p, "idle")
  /\ \/ UNCHANGED <<pending, wire>>
     \/ At(p, "vread") /\ Server!Take
  /\ UNCHANGED <<r, mvars, mux, failed, target, swi, nintr, fate, down>>

----------------------------------------------------------------------------
(* Sleep and Wakeup on r->r, seen from outside.                            *)

\* The process that Wakeup(&t->r) would make ready, and pc and rp after it.
Wakes(t) == IF t = NoTag THEN None ELSE rp[t]
Woke(t, f) == IF Wakes(t) = None THEN f ELSE [f EXCEPT ![Wakes(t)] = "woken"]
Unslept(t) == IF t = NoTag THEN rp ELSE [rp EXCEPT ![t] = None]

\* The header mntgate wakes: the first in the queue that somebody sleeps on
\* and that is not done.
GateTargets ==
  LET ready == {i \in DOMAIN queue : ~rpc[queue[i]].done /\ rp[queue[i]] # None}
  IN  IF ready = {} THEN {NoTag}
      ELSE {queue[i] : i \in {i \in ready : \A j \in ready : i <= j}}

\* mntgate, as a part of a step of p that goes on at l.
Mntgate(p, l) ==
  /\ rip' = None
  /\ \E t \in GateTargets : /\ pc' = Woke(t, [pc EXCEPT ![p] = l])
                            /\ rp' = Unslept(t)

----------------------------------------------------------------------------
(* mountrpc and mountio *)

\* A header is allocated, filled in and queued.  Nobody else sees it before it
\* is in the queue, so this is one step.
Enqueue(p, flushed, oldtag) ==
  /\ \E t \in Tags :
       /\ Ralloc(t)
       /\ rpc' = [rpc EXCEPT ![t] =
            [NoRpc EXCEPT !.flushed = flushed,
                          !.req = [tag |-> t, old |-> oldtag, call |-> p]]]
       /\ r' = [r EXCEPT ![p] = t]
       /\ queue' = <<t>> \o queue
  /\ Goto(p, "write")

\* A call, from mntwalk, mntopencreate, mntrdwr, ...
Call(p) ==
  /\ At(p, "idle") /\ mux
  /\ Enqueue(p, NoTag, NoTag)
  /\ fate' = [fate EXCEPT ![p] = "open"]
  /\ UNCHANGED <<rp, rip, vvars, failed, target, swi, nintr, srv>>

\* error() in mountio, with the beginning of its handler: a reader gives up
\* reading, then an interrupted process goes on to flush its request, another
\* to undo it.
Error(p, l) ==
  IF rip = p THEN Mntgate(p, l) ELSE Goto(p, l) /\ UNCHANGED <<rip, rp>>

Eintr(p) ==
  /\ swi[p]
  /\ swi' = [swi EXCEPT ![p] = FALSE]
  /\ Error(p, "flushalloc")
  /\ UNCHANGED failed

Emountrpc(p) ==
  /\ down
  /\ failed' = [failed EXCEPT ![p] = TRUE]
  /\ Error(p, "flushfree")
  /\ UNCHANGED swi

\* The write succeeds; is interrupted before or after the message has gone; or
\* fails because the connection is broken, as every later one does.
Write(p) ==
  /\ At(p, "write")
  /\ \/ Server!Receive(rpc[r[p]].req)
        /\ Goto(p, "gate") /\ UNCHANGED <<rip, rp, failed, swi>>
     \/ Eintr(p) /\ UNCHANGED <<pending, wire>>
     \/ Eintr(p) /\ Server!Receive(rpc[r[p]].req)
     \/ Emountrpc(p) /\ UNCHANGED <<pending, wire>>
  /\ UNCHANGED <<r, rpc, queue, rpcfree, tags, vvars, target, nintr, fate, down>>

\* Gate readers onto the mount point one at a time.
Gate(p) ==
  /\ At(p, "gate")
  /\ IF rip = None THEN rip' = p /\ Goto(p, "read")
     ELSE UNCHANGED rip /\ Goto(p, "sleep")
  /\ UNCHANGED <<r, rpc, rp, queue, rpcfree, tags, vvars, failed, target, swi,
                 nintr, fate, srv>>

\* mutant: a reply that comes before the Sleep is not noticed
RpcattnRip(p) == rip = None

\* The condition of the Sleep, read without m->l.
Rpcattn(p) == rpc[r[p]].done \/ rip = None

Sleep(p) ==
  /\ At(p, "sleep")
  /\ IF swi[p] \/ Rpcattn(p) THEN Goto(p, "woken") /\ UNCHANGED rp
     ELSE Goto(p, "blocked") /\ rp' = [rp EXCEPT ![r[p]] = p]
  /\ UNCHANGED <<r, rpc, queue, rip, rpcfree, tags, vvars, failed, target, swi,
                 nintr, fate, srv>>

SleepReturn(p) ==
  /\ At(p, "woken")
  /\ \/ Eintr(p)
     \/ /\ ~swi[p]
        /\ Goto(p, IF rpc[r[p]].done THEN "flushfree" ELSE "gate")
        /\ UNCHANGED <<rip, rp, failed, swi>>
  /\ UNCHANGED <<r, rpc, queue, rpcfree, tags, vvars, target, nintr, fate, srv>>

\* mntrpcread and mountmux: one message, given to the header with its tag.  A
\* tag that is not in the queue is reported and dropped.
Read(p) ==
  /\ At(p, "read") /\ ~rpc[r[p]].done /\ Server!Take
  /\ LET m == Head(wire)
         q == m.tag
     IN  IF q \in Elements(queue)
         THEN /\ queue' \in Unqueued(q)
              /\ rpc' = [rpc EXCEPT ![q].done = TRUE, ![q].reply = m]
              /\ IF q = r[p] THEN UNCHANGED <<pc, target>>
                 ELSE Goto(p, "wake") /\ target' = [target EXCEPT ![p] = q]
         ELSE UNCHANGED <<queue, rpc, pc, target>>
  /\ UNCHANGED <<r, rp, rip, rpcfree, tags, vvars, failed, swi, nintr, fate, down>>

\* The Wakeup of mountmux, after it has let go of m->l: the header may have
\* been freed and be somebody else's by now.
Wake(p) ==
  /\ At(p, "wake")
  /\ pc' = Woke(target[p], [pc EXCEPT ![p] = "read"])
  /\ rp' = Unslept(target[p])
  /\ target' = [target EXCEPT ![p] = NoTag]
  /\ UNCHANGED <<r, rpc, queue, rip, rpcfree, tags, vvars, failed, swi, nintr,
                 fate, srv>>

\* The read is interrupted, or finds the end of the connection.
ReadError(p) ==
  /\ At(p, "read") /\ ~rpc[r[p]].done
  /\ Eintr(p) \/ (wire = <<>> /\ Emountrpc(p))
  /\ UNCHANGED <<r, rpc, queue, rpcfree, tags, vvars, target, nintr, fate, srv>>

\* The reader has its own reply.
Leave(p) ==
  /\ At(p, "read") /\ rpc[r[p]].done
  /\ Mntgate(p, "flushfree")
  /\ UNCHANGED <<r, rpc, queue, rpcfree, tags, vvars, failed, target, swi,
                 nintr, fate, srv>>

----------------------------------------------------------------------------
(* mntflushalloc and mntflushfree *)

\* mutant: a second Tflush is for the first
FlushallocLast(p) ==
  /\ At(p, "flushalloc")
  /\ Enqueue(p, r[p], rpc[r[p]].req.tag)
  /\ UNCHANGED <<rp, rip, vvars, failed, target, swi, nintr, fate, srv>>

\* A Tflush for the request at the end of the chain.
Flushalloc(p) ==
  /\ At(p, "flushalloc")
  /\ LET old == rpc[r[p]].req
     IN  Enqueue(p, r[p], IF Server!IsFlush(old) THEN old.old ELSE old.tag)
  /\ UNCHANGED <<rp, rip, vvars, failed, target, swi, nintr, fate, srv>>

\* The result of mountrpc: an error, Eintr for Rflush, or the reply.
Outcome(p, h) ==
  IF failed[p] THEN "failed"
  ELSE IF h.reply = Rflush THEN "interrupted"
  ELSE IF h.reply = h.req THEN "ok" ELSE "mismatch"

\* The end of the treatment of one header of the chain: a flush is freed, and
\* the header it flushed is next; after the original, mountrpc returns.
NextFlushed(p, f) ==
  LET t == r[p]
  IN  IF f[t].flushed # NoTag
      THEN /\ Free(t)
           /\ rpc' = [f EXCEPT ![t] = NoRpc]
           /\ r' = [r EXCEPT ![p] = f[t].flushed]
           /\ Goto(p, "flushfree")
           /\ UNCHANGED fate
      ELSE /\ rpc' = f
           /\ fate' = [fate EXCEPT ![p] = Outcome(p, f[t])]
           /\ Goto(p, "return")
           /\ UNCHANGED <<r, rpcfree, tags>>

\* mutant: the original counts as flushed even if its reply came first
FlushfreeAlways(p) ==
  /\ At(p, "flushfree")
  /\ IF rpc[r[p]].flushed # NoTag /\ rpc[r[p]].done THEN NextFlushed(p, rpc)
     ELSE Goto(p, "unanswered") /\ UNCHANGED <<r, rpc, rpcfree, tags, fate>>
  /\ UNCHANGED <<rp, queue, rip, vvars, failed, target, swi, nintr, srv>>

\* r->done is read without m->l ...
Flushfree(p) ==
  /\ At(p, "flushfree")
  /\ IF rpc[r[p]].done THEN NextFlushed(p, rpc)
     ELSE Goto(p, "unanswered") /\ UNCHANGED <<r, rpc, rpcfree, tags, fate>>
  /\ UNCHANGED <<rp, queue, rip, vvars, failed, target, swi, nintr, srv>>

\* ... and so is r->reply.type set.
SetRflush(p) ==
  /\ At(p, "unanswered")
  /\ rpc' = [rpc EXCEPT ![r[p]].reply = Rflush]
  /\ Goto(p, "qrm")
  /\ UNCHANGED <<r, rp, queue, rip, rpcfree, tags, vvars, failed, target, swi,
                 nintr, fate, srv>>

Mntqrm(p) ==
  /\ At(p, "qrm")
  /\ queue' \in Unqueued(r[p])
  /\ NextFlushed(p, [rpc EXCEPT ![r[p]].done = TRUE])
  /\ UNCHANGED <<rp, rip, vvars, failed, target, swi, nintr, srv>>

Disown(s, p) ==
  [i \in DOMAIN s |-> IF s[i].call = p THEN [s[i] EXCEPT !.call = None] ELSE s[i]]

\* The caller frees the header.  Replies to the call that are still to be read
\* are nobody's from now on (they are marked so, which the driver cannot see).
Finish(p) ==
  /\ At(p, "return")
  /\ fate' = [fate EXCEPT ![p] = "idle"]
  /\ failed' = [failed EXCEPT ![p] = FALSE]
  /\ nintr' = [nintr EXCEPT ![p] = IF swi[p] THEN 1 ELSE 0]
  /\ Free(r[p])
  /\ rpc' = [rpc EXCEPT ![r[p]] = NoRpc]
  /\ r' = [r EXCEPT ![p] = NoTag]
  /\ Goto(p, "idle")
  /\ pending' = Disown(pending, p) /\ wire' = Disown(wire, p)
  /\ UNCHANGED <<rp, queue, rip, vvars, target, swi, down>>

\* swiproc: a Sleep ends, or the next blocking call does.  One that comes when p
\* has nothing left to wait for is one at the beginning of its next call.
Waiting == {"write", "gate", "sleep", "blocked", "woken", "read", "wake", "flushalloc"}

Swiproc(p) ==
  /\ pc[p] \in Waiting /\ ~swi[p] /\ nintr[p] < MaxIntr[p]
  /\ swi' = [swi EXCEPT ![p] = TRUE]
  /\ nintr' = [nintr EXCEPT ![p] = @ + 1]
  /\ IF At(p, "blocked") THEN Goto(p, "woken") /\ rp' = [rp EXCEPT ![r[p]] = None]
     ELSE UNCHANGED <<pc, rp>>
  /\ UNCHANGED <<r, rpc, queue, rip, rpcfree, tags, vvars, failed, target, fate, srv>>

----------------------------------------------------------------------------
(* The server (external) and the connection *)

\* What an answer settles about the call it belongs to.
Decide(m) ==
  fate' = [p \in Procs |->
             IF m.call = p /\ fate[p] = "open"
             THEN IF Server!IsFlush(m) THEN "cancelled" ELSE "answered"
             ELSE fate[p]]

Serve(i) ==
  /\ Server!Reply(i) \/ Server!Rflush(i)
  /\ Decide(pending[i])
  /\ UNCHANGED <<pc, r, mvars, vvars, failed, target, swi, nintr, down>>

\* The connection breaks: the server answers nothing more.
Hangup ==
  /\ Server!Hangup
  /\ UNCHANGED <<pc, r, mvars, vvars, failed, target, swi, nintr, fate>>

----------------------------------------------------------------------------
Step(p) ==
  \/ VersionLock(p) \/ VersionWrite(p) \/ VersionRead(p) \/ VersionFail(p)
  \/ Write(p) \/ Gate(p) \/ Sleep(p) \/ SleepReturn(p)
  \/ Read(p) \/ Wake(p) \/ ReadError(p) \/ Leave(p)
  \/ Flushalloc(p) \/ Flushfree(p)
  \/ SetRflush(p) \/ Mntqrm(p) \/ Finish(p)

Next ==
  \/ \E p \in Procs : VersionStart(p) \/ Call(p) \/ Step(p) \/ Swiproc(p)
  \/ \E i \in DOMAIN pending : Serve(i)
  \/ Hangup

Spec == Init /\ [][Next]_vars

\* A server need not answer a request soon, or ever (a read of a keyboard); it
\* answers a Tflush.
FlushServed(p) ==
  \E i \in DOMAIN pending :
    pending[i].call = p /\ Server!IsFlush(pending[i]) /\ Serve(i)

\* Processes run, and Tflushes are answered.  A read that would block with an
\* interruption pending returns at once, so a reader cannot be kept from its
\* interruption by replies to others for ever.
FairSpec ==
  /\ Spec
  /\ \A p \in Procs :
       /\ WF_vars(Step(p)) /\ SF_vars(ReadError(p))
       /\ WF_vars(FlushServed(p))

----------------------------------------------------------------------------
Labels == {"idle", "vlock", "vwrite", "vread", "write", "gate", "sleep",
           "blocked", "woken", "read", "wake", "flushalloc", "flushfree",
           "unanswered", "qrm", "return"}

\* Every variable has its type.
TypeOK ==
  /\ pc \in [Procs -> Labels]
  /\ r \in [Procs -> 0 .. NTags]
  /\ rpc \in [Tags -> [done : BOOLEAN, flushed : 0 .. NTags,
                       req : Message \cup {None},
                       reply : Message \cup {None}]]
  /\ rp \in [Tags -> Procs \cup {None}]
  /\ queue \in Seq(Tags) /\ rip \in Procs \cup {None}
  /\ rpcfree \in Seq(Tags) /\ Len(rpcfree) <= MaxFree
  /\ tags \subseteq Tags
  /\ mux \in BOOLEAN /\ umq \in Procs \cup {None}
  /\ failed \in [Procs -> BOOLEAN]
  /\ target \in [Procs -> 0 .. NTags]
  /\ swi \in [Procs -> BOOLEAN] /\ nintr \in [Procs -> Nat] /\ \A p \in Procs : nintr[p] <= MaxIntr[p]
  /\ down \in BOOLEAN
  /\ pending \in Seq(Message) /\ wire \in Seq(Message)

InUse(t) == rpc[t].req # None

\* At most one process at a time reads the connection, the version exchange
\* before the multiplexer included: two would tear messages apart (m->rip,
\* c->umqlock).
OneReader ==
  \A p, q \in Procs :
    pc[p] \in {"vread", "read"} /\ pc[q] \in {"vread", "read"} => p = q

\* flush(5): a tag is not used again before its request is settled.  While the
\* connection is up, nothing the server still holds or has sent carries the tag
\* of a free header, so no reply reaches a call it was not made for.
TagsSafe ==
  ~down =>
    \A m \in Elements(pending) \cup Elements(wire) :
      m # VersionMsg =>
        /\ InUse(m.tag) /\ rpc[m.tag].req = m
        /\ Server!IsFlush(m) => InUse(m.old)

Abstract == INSTANCE Rpc

\* The driver implements Rpc: every call returns the answer to that very call,
\* or Eintr only when the server will never answer it, or an error only when
\* the connection has broken.
IsRpc == Abstract!RpcSpec

\* A call that has been answered, or interrupted, comes back, unless the
\* connection breaks: it does not depend on an answer to any other request.
Returns ==
  \A p \in Procs :
    fate[p] = "answered" \/ (InCall(p) /\ swi[p]) ~> down \/ ~InCall(p)

=============================================================================
