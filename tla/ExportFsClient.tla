--------------------------- MODULE ExportFsClient ---------------------------
(***************************************************************************)
(* Proofs about ExportFs: what the server does for its client.  CInv says, *)
(* as long as the connection is there, who has each of the messages the    *)
(* client waits for: everything that will be answered is awaited, and by   *)
(* one process.                                                            *)
(***************************************************************************)
EXTENDS ExportFsProofs

USE ExportAssumption DEF Slaves, None, NoTag

\* The reader has a message in its hands.
Handling == reader \in {"append", "flush", "flushwork", "reply"}

Pend == Elements(pending)

\* Requests not started: in exq, or with the slave that has just taken one.
Waiting == Elements(head) \cup {cur[s] : s \in {t \in Slaves : pc[t] = "start"}}

\* The slave will still answer its request; the Tflush f;
Active(s) == pc[s] \in {"run", "end", "reply"}
Holds(s, f) == f \in Elements(job[s].flush) \/ (pc[s] = "rflush" /\ cur[s] = f)

\* no Tflush any more.
Over(s) == ~Active(s) /\ pc[s] # "rflush" /\ job[s].flush = <<>>

Precedes(f, g) == \E i, j \in DOMAIN pending : i < j /\ pending[i] = f /\ pending[j] = g

\* The client follows flush(5): it awaits one answer to a tag, sends no request
\* with a tag it has flushed, and flushes no Tflush.
PendInv ==
  /\ \A i \in DOMAIN pending : pending[i].tag # NoTag
  /\ \A i, j \in DOMAIN pending : pending[i].tag = pending[j].tag => i = j
  /\ \A i, j \in DOMAIN pending :
       i < j /\ pending[i].old # NoTag => pending[j].tag # pending[i].old
  /\ \A i, j \in DOMAIN pending :
       pending[i].old # NoTag /\ pending[j].old # NoTag => pending[j].tag # pending[i].old

\* The message of the reader is the latest, and nobody else's.
RqInv ==
  Handling => /\ pending # <<>> /\ rq = pending[Len(pending)]
              /\ rq \notin Waiting
              /\ \A s \in Slaves : Active(s) => rq # job[s].msg
              /\ \A s \in Slaves : ~Holds(s, rq)

\* A request not started is awaited and in one place;
HeadInv ==
  /\ Waiting \subseteq Pend
  /\ \A i, j \in DOMAIN head : head[i] = head[j] => i = j
  /\ \A s \in Slaves : pc[s] = "start" => cur[s] \notin Elements(head)

\* so is one in progress.
ActiveInv == \A s \in Slaves : Active(s) => job[s].msg \in Pend /\ job[s].msg \notin Waiting

\* Of two jobs with the same tag the older is over.
WorkOrder ==
  \A i, j \in DOMAIN work :
    i < j /\ job[work[i]].msg.tag = job[work[j]].msg.tag => Over(work[j])

\* A Tflush that waits for a job is awaited and is for its tag, and no request
\* with that tag is yet to start.
HeldInv ==
  \A s \in Slaves : \A f \in Message :
    Holds(s, f) => f \in Pend /\ f.old = job[s].msg.tag /\ \A m \in Waiting : m.tag # f.old

\* The Tflushes of a job are answered in the order in which they came.
FlushOrder ==
  /\ \A s \in Slaves : \A i, j \in DOMAIN job[s].flush :
       i < j => Precedes(job[s].flush[i], job[s].flush[j])
  /\ \A s \in Slaves : pc[s] = "rflush" =>
       \A i \in DOMAIN job[s].flush : Precedes(cur[s], job[s].flush[i])

\* What exflushed has searched does not have the request, until it is answered.
SearchInv ==
  /\ reader = "flushwork" => \A m \in Waiting : m.tag # rq.old
  /\ reader = "reply" /\ rq.old # NoTag =>
       /\ \A m \in Waiting : m.tag # rq.old
       /\ \A s \in Slaves : ~Over(s) => job[s].msg.tag # rq.old

Serving(s, m) ==
  /\ job[s].msg = m
  /\ Active(s) \/ pc[s] = "rflush" \/ (pc[s] = "flushes" /\ job[s].flush # <<>>)

\* Somebody has what the client waits for.
FindInv ==
  /\ lost \subseteq Pend
  /\ \A m \in Pend \ lost : Request(m) =>
       \/ Handling /\ rq = m
       \/ m \in Waiting
       \/ reader = "reply" /\ rq.old = m.tag
       \/ \E s \in Slaves : Serving(s, m)

ClientInv ==
  /\ PendInv /\ RqInv /\ HeadInv /\ ActiveInv /\ WorkOrder
  /\ HeldInv /\ FlushOrder /\ SearchInv /\ FindInv

CInv == ~down => ClientInv

USE ZenonT(30)

\* What is in Waiting.
LEMMA WaitingIs ==
  \A m : m \in Waiting <=> m \in Elements(head) \/ \E s \in Slaves : pc[s] = "start" /\ cur[s] = m
BY DEF Waiting

\* No two messages the client waits for have the same tag, or the same place.
LEMMA PendUnique ==
  ASSUME PendInv, pending \in Seq(Message)
  PROVE  /\ \A m, n \in Pend : m.tag = n.tag => m = n
         /\ \A i, j \in DOMAIN pending : pending[i] = pending[j] => i = j
         /\ \A m \in Pend : m \in Message /\ m.tag # NoTag
<1>1. \A m \in Pend : m \in Message
  <2>1. \A i \in DOMAIN pending : pending[i] \in Message BY SMT
  <2> QED BY <2>1 DEF Pend, Elements
<1> QED BY <1>1 DEF PendInv, Pend, Elements

\* When some messages are answered, the others keep their order.
LEMMA PendKept ==
  ASSUME PendInv, pending \in Seq(Message), pending' \in Seq(Message),
         NEW K \in SUBSET DOMAIN pending, Selected(pending', pending, K)
  PROVE  /\ PendInv'
         /\ \A i \in DOMAIN pending : pending[i] \in Pend' <=> i \in K
         /\ Pend' \subseteq Pend
         /\ \A f, g \in Pend' : Precedes(f, g) => Precedes(f, g)'
         /\ Len(pending) \in K => pending' # <<>> /\ pending'[Len(pending')] = pending[Len(pending)]
<1>1. PICK g \in [DOMAIN pending' -> K] : Orders(g, K) /\ \A i \in DOMAIN pending' : pending'[i] = pending[g[i]]
  BY DEF Selected
<1>2. /\ \A i \in DOMAIN pending' : g[i] \in K /\ g[i] \in DOMAIN pending /\ pending'[i] = pending[g[i]]
      /\ \A i, j \in DOMAIN pending' : i < j => g[i] < g[j]
      /\ \A k \in K : \E i \in DOMAIN pending' : g[i] = k
  BY <1>1 DEF Orders
<1>3. /\ DOMAIN pending = 1 .. Len(pending) /\ Len(pending) \in Nat
      /\ DOMAIN pending' = 1 .. Len(pending') /\ Len(pending') \in Nat
  BY SMT
<1>4. \A i, j \in DOMAIN pending' : g[i] = g[j] => i = j BY SMT, <1>2, <1>3
<1>5. \A i, j \in DOMAIN pending : pending[i] = pending[j] => i = j BY PendUnique
<1>6. PendInv'
  <2>1. ASSUME NEW i \in DOMAIN pending', NEW j \in DOMAIN pending'
        PROVE  /\ pending'[i].tag # NoTag
               /\ pending'[i].tag = pending'[j].tag => i = j
               /\ i < j /\ pending'[i].old # NoTag => pending'[j].tag # pending'[i].old
               /\ pending'[i].old # NoTag /\ pending'[j].old # NoTag => pending'[j].tag # pending'[i].old
    <3>1. PICK k, l \in DOMAIN pending : g[i] = k /\ g[j] = l BY <1>2
    <3>2. /\ pending'[i] = pending[k] /\ pending'[j] = pending[l] /\ (i < j => k < l) /\ (k = l => i = j)
      BY <1>2, <1>4, <3>1
    <3>3. /\ pending[k].tag # NoTag
          /\ pending[k].tag = pending[l].tag => k = l
          /\ k < l /\ pending[k].old # NoTag => pending[l].tag # pending[k].old
          /\ pending[k].old # NoTag /\ pending[l].old # NoTag => pending[l].tag # pending[k].old
      BY DEF PendInv
    <3> QED BY <3>2, <3>3
  <2> QED BY <2>1 DEF PendInv
<1>7. ASSUME NEW i \in DOMAIN pending PROVE pending[i] \in Pend' <=> i \in K
  <2>1. ASSUME i \in K PROVE pending[i] \in Pend'
    <3>1. PICK a \in DOMAIN pending' : g[a] = i BY <1>2, <2>1
    <3> QED BY <1>2, <3>1 DEF Pend, Elements
  <2>2. ASSUME pending[i] \in Pend' PROVE i \in K
    <3>1. PICK a \in DOMAIN pending' : pending'[a] = pending[i] BY <2>2 DEF Pend, Elements
    <3>2. PICK k \in DOMAIN pending : k = g[a] /\ k \in K /\ pending[k] = pending[i] BY <1>2, <3>1
    <3> QED BY <1>5, <3>2
  <2> QED BY <2>1, <2>2
<1>8. ASSUME NEW x \in Pend' PROVE x \in Pend
  <2>1. PICK a \in DOMAIN pending' : pending'[a] = x BY DEF Pend, Elements
  <2>2. g[a] \in DOMAIN pending /\ pending[g[a]] = x BY <1>2, <2>1
  <2> QED BY <2>2 DEF Pend, Elements
<1>9. ASSUME NEW f \in Pend', NEW h \in Pend', Precedes(f, h) PROVE Precedes(f, h)'
  <2>1. PICK i, j \in DOMAIN pending : i < j /\ pending[i] = f /\ pending[j] = h
    BY <1>9 DEF Precedes
  <2>2. PICK a, b \in DOMAIN pending' : pending'[a] = f /\ pending'[b] = h BY DEF Pend, Elements
  <2>3. g[a] = i /\ g[b] = j BY <1>2, <1>5, <2>1, <2>2
  <2>4. a < b
    <3>1. (b < a => j < i) /\ (a = b => i = j) BY <1>2, <2>2, <2>3
    <3>2. a \in Nat /\ b \in Nat /\ i \in Nat /\ j \in Nat BY SMT, <1>3, <2>1, <2>2
    <3> QED BY SMT, <2>1, <3>1, <3>2
  <2> QED BY <2>2, <2>4 DEF Precedes
<1>10. ASSUME Len(pending) \in K
       PROVE  pending' # <<>> /\ pending'[Len(pending')] = pending[Len(pending)]
  <2>1. PICK a \in DOMAIN pending' : g[a] = Len(pending) BY <1>2, <1>10
  <2>2. Len(pending') \in DOMAIN pending' BY SMT, <1>3, <2>1
  <2>3. a = Len(pending')
    <3>1. a < Len(pending') => g[a] < g[Len(pending')] BY <1>2, <2>1, <2>2
    <3>2. g[Len(pending')] <= Len(pending) BY SMTT(30), <1>2, <1>3, <2>2
    <3>3. g[Len(pending')] \in Nat BY SMT, <1>2, <1>3, <2>2
    <3> QED BY SMTT(30), <1>3, <2>1, <3>1, <3>2, <3>3
  <2>4. pending' # <<>> BY SMT, <2>1
  <2> QED BY <1>2, <2>1, <2>3, <2>4
<1> QED BY <1>6, <1>7, <1>8, <1>9, <1>10

\* A step by which nobody gets a message: what is still awaited is where it was,
\* what somebody still has is still awaited.
LEMMA ClientStep ==
  ASSUME ClientInv, PendInv', HeadInv', WorkOrder', FlushOrder', Waiting' \subseteq Waiting,
         Handling' => /\ Handling /\ rq' = rq /\ reader' = reader
                      /\ pending' # <<>> /\ rq = pending'[Len(pending')],
         \A t \in Slaves : Active(t)' => Active(t) /\ job'[t].msg = job[t].msg /\ job[t].msg \in Pend',
         \A t \in Slaves : \A f \in Message :
           Holds(t, f)' => Holds(t, f) /\ job'[t].msg = job[t].msg /\ f \in Pend',
         \A t \in Slaves : ~Over(t)' => ~Over(t) /\ job'[t].msg = job[t].msg,
         lost' \subseteq Pend', rq \in Message, Pend' \subseteq Pend,
         \A m \in Pend' \ lost' : Request(m) =>
           /\ m \notin lost
           /\ Handling /\ rq = m => Handling'
           /\ m \in Waiting => m \in Waiting'
           /\ reader = "reply" /\ rq.old = m.tag => reader' = "reply" /\ rq' = rq
           /\ \A t \in Slaves : Serving(t, m) => Serving(t, m)'
  PROVE  ClientInv'
<1>1. RqInv /\ ActiveInv /\ HeldInv /\ SearchInv /\ FindInv BY DEF ClientInv
<1>2. RqInv'
  <2> SUFFICES ASSUME Handling'
               PROVE  /\ pending' # <<>> /\ rq' = pending'[Len(pending')] /\ rq' \notin Waiting'
                      /\ \A s \in Slaves : Active(s)' => rq' # job'[s].msg
                      /\ \A s \in Slaves : ~Holds(s, rq)'
    BY DEF RqInv
  <2>1. Handling /\ rq' = rq /\ pending' # <<>> /\ rq = pending'[Len(pending')] OBVIOUS
  <2>2. /\ rq \notin Waiting
        /\ \A s \in Slaves : Active(s) => rq # job[s].msg
        /\ \A s \in Slaves : ~Holds(s, rq)
    BY <1>1, <2>1 DEF RqInv
  <2>3. ASSUME NEW s \in Slaves PROVE ~Holds(s, rq)'
    <3>1. rq' \in Message BY <2>1
    <3>2. Holds(s, rq)' => Holds(s, rq') BY <3>1 DEF Holds
    <3> QED BY <2>1, <2>2, <3>2
  <2> QED BY <2>1, <2>2, <2>3
<1>3. ActiveInv' BY <1>1 DEF ActiveInv
<1>4. HeldInv' BY <1>1 DEF HeldInv
<1>5. SearchInv'
  <2>1. reader' \in {"flushwork", "reply"} => reader' = reader /\ rq' = rq BY DEF Handling
  <2>2. reader' = "flushwork" => \A m \in Waiting' : m.tag # rq'.old BY <1>1, <2>1 DEF SearchInv
  <2>3. ASSUME reader' = "reply", rq'.old # NoTag
        PROVE  /\ \A m \in Waiting' : m.tag # rq'.old
               /\ \A s \in Slaves : ~Over(s)' => job'[s].msg.tag # rq'.old
    <3>1. reader = "reply" /\ rq' = rq BY <2>1, <2>3
    <3>2. /\ \A m \in Waiting : m.tag # rq.old
          /\ \A s \in Slaves : ~Over(s) => job[s].msg.tag # rq.old
      BY <1>1, <2>3, <3>1 DEF SearchInv
    <3> QED BY <3>1, <3>2
  <2> QED BY <2>2, <2>3 DEF SearchInv
<1>6. FindInv'
  <2> SUFFICES ASSUME NEW m \in Pend' \ lost', Request(m)
               PROVE  \/ Handling' /\ rq' = m
                      \/ m \in Waiting'
                      \/ reader' = "reply" /\ rq'.old = m.tag
                      \/ \E s \in Slaves : Serving(s, m)'
    BY DEF FindInv
  <2>1. \/ Handling /\ rq = m
        \/ m \in Waiting
        \/ reader = "reply" /\ rq.old = m.tag
        \/ \E s \in Slaves : Serving(s, m)
    BY <1>1 DEF FindInv
  <2> QED BY <2>1
<1> QED BY <1>2, <1>3, <1>4, <1>5, <1>6 DEF ClientInv

\* A slave that has as much to do as before for what the client waits for:
\* nothing at all, or its job.
Alike(t) ==
  \/ Over(t) /\ Over(t)'
  \/ /\ job'[t].msg = job[t].msg /\ job'[t].flush = job[t].flush /\ cur'[t] = cur[t]
     /\ Active(t)' => Active(t)
     /\ pc'[t] = "rflush" <=> pc[t] = "rflush"
     /\ ~Over(t)
     /\ pc'[t] \in {"run", "end", "reply", "rflush", "flushes"}
     /\ pc'[t] = "flushes" => job'[t].flush # <<>>

\* A slave without a job has nothing to do.
LEMMA Idle ==
  ASSUME SInv, NEW t \in Slaves, ~HasJob(t)
  PROVE  Over(t)
<1>1. job[t] = NoJob BY DEF SInv, SlavesInv, JobOK
<1>2. job[t].flush = <<>> BY <1>1, NoneTypes
<1> QED BY SMT, <1>2 DEF Over, Active, HasJob

\* The jobs in fs->work as they were.
LEMMA WorkSame ==
  ASSUME WorkOrder, work \in Seq(Slaves), work' = work,
         \A t \in Elements(work) : job'[t].msg = job[t].msg,
         \A t \in Slaves : Over(t) => Over(t)'
  PROVE  WorkOrder'
<1>1. \A i \in DOMAIN work : work[i] \in Slaves /\ work[i] \in Elements(work)
  <2>1. \A i \in DOMAIN work : work[i] \in Slaves BY SMT
  <2> QED BY <2>1 DEF Elements
<1>2. \A t \in Elements(work) : job'[t].msg.tag = job[t].msg.tag OBVIOUS
<1> SUFFICES ASSUME NEW i \in DOMAIN work, NEW j \in DOMAIN work, i < j,
                    job'[work[i]].msg.tag = job'[work[j]].msg.tag
             PROVE  Over(work[j])'
  BY DEF WorkOrder
<1>3. PICK a, b \in Slaves : a = work[i] /\ b = work[j] /\ a \in Elements(work) /\ b \in Elements(work)
  BY <1>1
<1>4. job[a].msg.tag = job[b].msg.tag BY <1>2, <1>3
<1>5. Over(b) BY <1>3, <1>4 DEF WorkOrder
<1>6. Over(b)' BY <1>5
<1>7. work'[j] = b BY <1>3
<1> QED BY <1>6, <1>7 DEF Over, Active

\* The requests not started as they were.
LEMMA WaitingSame ==
  ASSUME HeadInv, pending' = pending, head' = head,
         \A t \in Slaves : pc'[t] = "start" <=> pc[t] = "start",
         \A t \in Slaves : pc[t] = "start" => cur'[t] = cur[t]
  PROVE  Waiting' = Waiting /\ HeadInv'
<1>1. \A m : m \in Waiting' <=> m \in Elements(head') \/ \E s \in Slaves : pc'[s] = "start" /\ cur'[s] = m
  BY DEF Waiting
<1>2. \A m : m \in Waiting' <=> m \in Waiting BY <1>1, WaitingIs
<1>3. Waiting' = Waiting BY <1>2
<1> QED BY <1>3 DEF HeadInv, Pend

\* The order of the Tflushes, when the client waits for the same messages.
LEMMA OrderSame ==
  ASSUME pending' = pending,
         \A t \in Slaves :
           /\ \A i, j \in DOMAIN job'[t].flush : i < j => Precedes(job'[t].flush[i], job'[t].flush[j])
           /\ pc'[t] = "rflush" => \A i \in DOMAIN job'[t].flush : Precedes(cur'[t], job'[t].flush[i])
  PROVE  FlushOrder'
<1>1. \A t \in Slaves : \A i, j \in DOMAIN job'[t].flush : i < j =>
        \E a, b \in DOMAIN pending' : a < b /\ pending'[a] = job'[t].flush[i] /\ pending'[b] = job'[t].flush[j]
  BY SMT DEF Precedes
<1>2. \A t \in Slaves : pc'[t] = "rflush" => \A i \in DOMAIN job'[t].flush :
        \E a, b \in DOMAIN pending' : a < b /\ pending'[a] = cur'[t] /\ pending'[b] = job'[t].flush[i]
  BY SMT DEF Precedes
<1> QED BY <1>1, <1>2 DEF FlushOrder, Precedes

\* A step of a slave, or of the reader with nothing in its hands, by which
\* nothing the client waits for changes hands.
LEMMA QuietSlave ==
  ASSUME SInv, ClientInv, pending' = pending, lost' = lost, Waiting' = Waiting, HeadInv',
         (reader' = reader /\ rq' = rq) \/ (~Handling /\ ~Handling'),
         \A t \in Slaves : Alike(t), WorkOrder'
  PROVE  ClientInv'
<1>1. rq \in Message /\ pending \in Seq(Message) BY DEF SInv, Shape
<1>2. PendInv /\ HeadInv /\ ActiveInv /\ HeldInv /\ FlushOrder /\ RqInv /\ FindInv BY DEF ClientInv
<1>3. Pend' = Pend /\ \A f, g : Precedes(f, g)' <=> Precedes(f, g) BY DEF Pend, Precedes
<1>5. PendInv' BY <1>2 DEF PendInv
<1>7. ASSUME NEW t \in Slaves, Over(t) PROVE \A f, m : ~Holds(t, f) /\ ~Serving(t, m)
  <2>1. Elements(job[t].flush) = {} BY SMT, <1>7 DEF Over, Elements
  <2> QED BY <1>7, <2>1 DEF Over, Holds, Serving, Active
<1>8. ASSUME NEW t \in Slaves, Over(t)' PROVE ~Active(t)' /\ \A f : ~Holds(t, f)'
  <2>1. Elements(job'[t].flush) = {} BY SMT, <1>8 DEF Over, Elements
  <2> QED BY <1>8, <2>1 DEF Over, Holds, Active
<1>9. FlushOrder'
  <2>1. ASSUME NEW t \in Slaves
        PROVE  /\ \A i, j \in DOMAIN job'[t].flush : i < j => Precedes(job'[t].flush[i], job'[t].flush[j])
               /\ pc'[t] = "rflush" => \A i \in DOMAIN job'[t].flush : Precedes(cur'[t], job'[t].flush[i])
    <3>1. CASE Over(t)'
      <4>1. DOMAIN job'[t].flush = {} /\ pc'[t] # "rflush" BY SMT, <3>1 DEF Over
      <4> QED BY <4>1
    <3>2. CASE job'[t].flush = job[t].flush /\ cur'[t] = cur[t] /\ (pc'[t] = "rflush" <=> pc[t] = "rflush")
      BY <1>2, <1>3, <3>2 DEF FlushOrder
    <3> QED BY <3>1, <3>2 DEF Alike
  <2> QED BY <2>1, OrderSame
<1>10. \A t \in Slaves : Active(t)' => Active(t) /\ job'[t].msg = job[t].msg /\ job[t].msg \in Pend'
  BY <1>2, <1>3, <1>8 DEF Alike, ActiveInv
<1>11. ASSUME NEW t \in Slaves, NEW f \in Message, Holds(t, f)'
       PROVE  Holds(t, f) /\ job'[t].msg = job[t].msg /\ f \in Pend'
  <2>1. ~Over(t)' BY <1>8, <1>11
  <2>2. /\ job'[t].msg = job[t].msg /\ job'[t].flush = job[t].flush /\ cur'[t] = cur[t]
        /\ pc'[t] = "rflush" <=> pc[t] = "rflush"
    BY <2>1 DEF Alike
  <2>3. Holds(t, f) BY <1>11, <2>2 DEF Holds
  <2> QED BY <1>2, <1>3, <2>2, <2>3 DEF HeldInv
<1>12. \A t \in Slaves : ~Over(t)' => ~Over(t) /\ job'[t].msg = job[t].msg BY DEF Alike
<1>13. ASSUME NEW m, NEW t \in Slaves, Serving(t, m) PROVE Serving(t, m)'
  <2>1. ~Over(t) BY <1>7, <1>13
  <2>2. job'[t].msg = job[t].msg /\ pc'[t] \in {"run", "end", "reply", "rflush", "flushes"}
        /\ (pc'[t] = "flushes" => job'[t].flush # <<>>)
    BY <2>1 DEF Alike
  <2>3. job'[t].msg = m BY <1>13, <2>2 DEF Serving
  <2>4. Active(t)' \/ pc'[t] = "rflush" \/ (pc'[t] = "flushes" /\ job'[t].flush # <<>>) BY SMT, <2>2 DEF Active
  <2> QED BY <2>3, <2>4 DEF Serving
<1>14. Handling' => /\ Handling /\ rq' = rq /\ reader' = reader
                    /\ pending' # <<>> /\ rq = pending'[Len(pending')]
  <2> SUFFICES ASSUME Handling' PROVE Handling /\ rq' = rq /\ reader' = reader /\ pending' # <<>> /\ rq = pending'[Len(pending')]
    OBVIOUS
  <2>1. reader' = reader /\ rq' = rq OBVIOUS
  <2>2. Handling BY <2>1 DEF Handling
  <2> QED BY <1>2, <2>1, <2>2 DEF RqInv
<1>15. lost' \subseteq Pend' BY <1>2, <1>3 DEF FindInv
<1>16. ASSUME NEW m \in Pend' \ lost', Request(m)
       PROVE  /\ m \notin lost
              /\ Handling /\ rq = m => Handling'
              /\ m \in Waiting => m \in Waiting'
              /\ reader = "reply" /\ rq.old = m.tag => reader' = "reply" /\ rq' = rq
              /\ \A t \in Slaves : Serving(t, m) => Serving(t, m)'
  <2>1. Handling => Handling' /\ reader' = reader /\ rq' = rq BY DEF Handling
  <2>2. reader = "reply" => Handling BY DEF Handling
  <2> QED BY <1>13, <1>16, <2>1, <2>2
<1> QED BY <1>1, <1>3, <1>5, <1>9, <1>10, <1>11, <1>12, <1>14, <1>15, <1>16, ClientStep

\* A slave with something to do for the client is in fs->work.
LEMMA Busied ==
  ASSUME SInv, ~down, NEW t \in Slaves, ~Over(t)
  PROVE  /\ pc[t] \in {"run", "end", "reply", "rflush", "flushes"}
         /\ pc[t] = "flushes" => job[t].flush # <<>>
         /\ t \in Elements(work)
<1>1. HasJob(t) BY Idle
<1>2. JobOK(t) /\ SlaveOK(t) BY DEF SInv, SlavesInv
<1>3. ~job[t].shut BY <1>2 DEF JobOK
<1>4. pc[t] \in {"unlink", "free"} => job[t].flush = <<>> BY <1>2, <1>3 DEF JobOK
<1>5. pc[t] \in {"run", "end", "reply", "rflush", "flushes"} BY SMT, <1>1, <1>4 DEF HasJob, Over, Active
<1>6. pc[t] = "flushes" => job[t].flush # <<>> BY DEF Over, Active
<1>7. reader # "done" BY DEF SInv, ReaderInv
<1>8. t \in Elements(work)
  <2>1. pc[t] \in InWork BY SMT, <1>5 DEF InWork
  <2> QED BY <1>2, <1>7, <2>1 DEF SlaveOK
<1> QED BY <1>5, <1>6, <1>8

\* A slave that does nothing, or only moves among the places without a job.
LEMMA SameSlave ==
  ASSUME SInv, ~down, NEW t \in Slaves, job'[t] = job[t], cur'[t] = cur[t],
         pc'[t] = pc[t] \/ (pc[t] \in Plain /\ pc'[t] \in Plain)
  PROVE  Alike(t) /\ (Over(t) => Over(t)')
<1>1. CASE pc[t] \in Plain /\ pc'[t] \in Plain
  <2>1. ~HasJob(t) BY SMT, <1>1 DEF HasJob, Plain, Holding
  <2>2. Over(t) BY <2>1, Idle
  <2>3. ~Active(t)' /\ pc'[t] # "rflush" BY SMT, <1>1 DEF Active, Plain, Holding
  <2>4. Over(t)' BY <2>2, <2>3 DEF Over
  <2> QED BY <2>2, <2>4 DEF Alike
<1>2. CASE pc'[t] = pc[t]
  <2>1. (Active(t)' <=> Active(t)) /\ (Over(t)' <=> Over(t)) BY <1>2 DEF Active, Over
  <2>2. CASE ~Over(t)
    <3>1. pc[t] \in {"run", "end", "reply", "rflush", "flushes"} /\ (pc[t] = "flushes" => job[t].flush # <<>>)
      BY <2>2, Busied
    <3> QED BY <1>2, <2>1, <2>2, <3>1 DEF Alike
  <2> QED BY <2>1, <2>2 DEF Alike
<1> QED BY <1>1, <1>2

\* Steps in which no slave gets, ends or takes up a job.
LEMMA PlainStep ==
  ASSUME SInv, ~down, ClientInv, UNCHANGED <<pending, lost, head, work, job, cur>>,
         (reader' = reader /\ rq' = rq) \/ (~Handling /\ ~Handling'),
         \A t \in Slaves : pc'[t] = pc[t] \/ (pc[t] \in Plain /\ pc'[t] \in Plain)
  PROVE  ClientInv'
<1>1. \A t \in Slaves : Alike(t) /\ (Over(t) => Over(t)') BY SameSlave
<1>2. \A t \in Slaves : pc'[t] = "start" <=> pc[t] = "start" BY SMT DEF Plain, Holding
<1>3. WorkOrder'
  <2>1. WorkOrder /\ work \in Seq(Slaves) BY DEF ClientInv, SInv, Shape
  <2>2. work' = work /\ \A t \in Elements(work) : job'[t].msg = job[t].msg OBVIOUS
  <2> QED BY <1>1, <2>1, <2>2, WorkSame
<1>4. pending' = pending /\ lost' = lost /\ head' = head /\ \A t \in Slaves : pc[t] = "start" => cur'[t] = cur[t]
  OBVIOUS
<1>5. HeadInv BY DEF ClientInv
<1>6. Waiting' = Waiting /\ HeadInv' BY <1>2, <1>4, <1>5, WaitingSame
<1> QED BY <1>1, <1>3, <1>4, <1>6, QuietSlave

\* A slave finds nothing to take; the reader makes a slave and wakes one.
LEMMA IdleSteps ==
  ASSUME SInv, ~down, ClientInv,
         \/ \E s \in Slaves : Qlock(s) \/ Sleep(s) \/ SleepReturn(s) \/ (Take(s) /\ head = <<>>)
         \/ Spawn \/ Wakeup
  PROVE  ClientInv'
<1>1. pc \in [Slaves -> Labels] /\ Shape /\ WaitInv /\ qhold \in Slaves \cup {None} BY DEF SInv, Shape
<1>2. UNCHANGED <<pending, lost, head, work, job, cur>>
  BY DEF Qlock, Sleep, SleepReturn, Take, Spawn, Wakeup, cvars, qvars
<1>3. ASSUME NEW s \in Slaves, pc[s] \in Plain, NEW l \in Plain, Goto(s, l)
      PROVE  \A t \in Slaves : pc'[t] = pc[t] \/ (pc[t] \in Plain /\ pc'[t] \in Plain)
  BY <1>1, <1>3 DEF Goto
<1>4. {"off", "qlock", "queued", "sleep", "blocked", "woken", "take"} = Plain BY SMT DEF Plain, Holding
<1>5. ASSUME NEW s \in Slaves, Qunlock(s, "qlock"), pc[s] \in Holding
      PROVE  \A t \in Slaves : pc'[t] = pc[t] \/ (pc[t] \in Plain /\ pc'[t] \in Plain)
  <2>1. "qlock" \in {"qlock", "start"} BY SMT
  <2>2. /\ pc'[s] = "qlock"
        /\ \A t \in Slaves \ {s} : pc'[t] = pc[t] \/ (pc[t] = "queued" /\ pc'[t] = "sleep")
    BY <1>1, <1>5, <2>1, QunlockFacts
  <2> QED BY SMTT(30), <1>5, <2>2 DEF Plain, Holding
<1>6. \A t \in Slaves : pc'[t] = pc[t] \/ (pc[t] \in Plain /\ pc'[t] \in Plain)
  <2>1. ASSUME NEW s \in Slaves, Qlock(s) PROVE \A t \in Slaves : pc'[t] = pc[t] \/ (pc[t] \in Plain /\ pc'[t] \in Plain)
    <3>1. pc[s] \in Plain /\ (Goto(s, "sleep") \/ Goto(s, "queued")) BY SMTT(30), <1>4, <2>1 DEF Qlock, At
    <3> QED BY SMTT(30), <1>3, <1>4, <3>1
  <2>2. ASSUME NEW s \in Slaves, Sleep(s) PROVE \A t \in Slaves : pc'[t] = pc[t] \/ (pc[t] \in Plain /\ pc'[t] \in Plain)
    <3>1. pc[s] \in Plain /\ (Goto(s, "woken") \/ Goto(s, "blocked")) BY SMTT(30), <1>4, <2>2 DEF Sleep, At
    <3> QED BY SMTT(30), <1>3, <1>4, <3>1
  <2>3. ASSUME NEW s \in Slaves, SleepReturn(s) PROVE \A t \in Slaves : pc'[t] = pc[t] \/ (pc[t] \in Plain /\ pc'[t] \in Plain)
    <3>1. pc[s] \in Plain /\ pc[s] \in Holding BY SMTT(30), <1>4, <2>3 DEF SleepReturn, At, Holding
    <3>2. Goto(s, "take") \/ Qunlock(s, "qlock") BY <2>3 DEF SleepReturn
    <3> QED BY <1>3, <1>4, <1>5, <3>1, <3>2
  <2>4. ASSUME NEW s \in Slaves, Take(s), head = <<>> PROVE \A t \in Slaves : pc'[t] = pc[t] \/ (pc[t] \in Plain /\ pc'[t] \in Plain)
    <3>1. pc[s] \in Holding BY SMT, <2>4 DEF Take, At, Holding
    <3>2. Qunlock(s, "qlock") BY <2>4 DEF Take
    <3> QED BY <1>5, <3>1, <3>2
  <2>5. CASE Spawn
    <3>1. pc' = pc \/ \E s \in Slaves : pc[s] = "off" /\ Goto(s, "qlock") BY <2>5 DEF Spawn, At
    <3> QED BY SMTT(30), <1>3, <1>4, <3>1
  <2>6. CASE Wakeup
    <3>1. pc' = pc \/ (qhold \in Slaves /\ pc[qhold] = "blocked" /\ Goto(qhold, "woken"))
      BY SMTT(30), <1>1, <2>6 DEF Wakeup, At
    <3> QED BY SMTT(30), <1>3, <1>4, <3>1
  <2> QED BY <2>1, <2>2, <2>3, <2>4, <2>5, <2>6
<1>7. (reader' = reader /\ rq' = rq) \/ (~Handling /\ ~Handling')
  <2>1. \/ reader' = reader /\ rq' = rq
        \/ reader = "spawn" /\ reader' = "wakeup"
        \/ reader = "wakeup" /\ reader' = "read"
    BY DEF Qlock, Sleep, SleepReturn, Take, Spawn, Wakeup, rvars
  <2> QED BY SMT, <2>1 DEF Handling
<1> QED BY <1>2, <1>6, <1>7, PlainStep

\* Some jobs are unlinked from fs->work.
LEMMA WorkKept ==
  ASSUME WorkOrder, work \in Seq(Slaves), NEW K \in SUBSET DOMAIN work, Selected(work', work, K),
         \A t \in Slaves : job'[t].msg = job[t].msg,
         \A t \in Slaves : Over(t) => Over(t)'
  PROVE  WorkOrder'
<1>1. PICK g \in [DOMAIN work' -> K] : Orders(g, K) /\ \A i \in DOMAIN work' : work'[i] = work[g[i]]
  BY DEF Selected
<1>2. /\ \A i \in DOMAIN work' : g[i] \in DOMAIN work /\ work'[i] = work[g[i]]
      /\ \A i, j \in DOMAIN work' : i < j => g[i] < g[j]
  BY <1>1 DEF Orders
<1>3. \A i \in DOMAIN work : work[i] \in Slaves BY SMT
<1> SUFFICES ASSUME NEW i \in DOMAIN work', NEW j \in DOMAIN work', i < j,
                    job'[work'[i]].msg.tag = job'[work'[j]].msg.tag
             PROVE  Over(work[j])'
  BY DEF WorkOrder
<1>4. PICK a, b \in DOMAIN work : a = g[i] /\ b = g[j] /\ a < b /\ work'[i] = work[a] /\ work'[j] = work[b]
  BY <1>2
<1>5. PICK t, u \in Slaves : t = work[a] /\ u = work[b] BY <1>3
<1>6. job'[t].msg.tag = job'[u].msg.tag BY <1>4, <1>5
<1>7. job[t].msg.tag = job[u].msg.tag BY <1>6
<1>8. Over(u) BY <1>4, <1>5, <1>7 DEF WorkOrder
<1>9. Over(u)' /\ work'[j] = u BY <1>4, <1>5, <1>8
<1> QED BY <1>9 DEF Over, Active

\* The operation ends; a job that is over is put away.
LEMMA JobStill ==
  ASSUME SInv, ~down, ClientInv, NEW s \in Slaves,
         Fcall(s) \/ End(s) \/ Unlink(s) \/ Free(s) \/ (Flushes(s) /\ job[s].flush = <<>>)
  PROVE  ClientInv'
<1>1. /\ pc \in [Slaves -> Labels] /\ job \in [Slaves -> Jobs] /\ cur \in [Slaves -> Message] /\ work \in Seq(Slaves)
      /\ JobOK(s) /\ SlaveOK(s)
  BY DEF SInv, Shape, SlavesInv
<1>2. UNCHANGED <<pending, lost, head, reader, rq, cur>>
  BY DEF Fcall, End, Unlink, Free, Flushes, rvars, qvars, cvars
<1>3. ~job[s].shut /\ job[s] \in Jobs BY <1>1 DEF JobOK
<1>4. ASSUME NEW j, NEW l, job' = [job EXCEPT ![s] = j], Goto(s, l)
      PROVE  /\ job'[s] = j /\ pc'[s] = l
             /\ \A t \in Slaves \ {s} : job'[t] = job[t] /\ pc'[t] = pc[t]
  BY <1>1, <1>4 DEF Goto
<1>5. PICK j, l :
        /\ job'[s] = j /\ pc'[s] = l
        /\ \A t \in Slaves \ {s} : job'[t] = job[t] /\ pc'[t] = pc[t]
        /\ \/ pc[s] \in {"run", "end"} /\ l \in {"end", "reply", "flushes"} /\ j.msg = job[s].msg /\ j.flush = job[s].flush
              /\ (l = "flushes" => j.flush # <<>>) /\ (l # "end" => pc[s] = "end") /\ work' = work
           \/ pc[s] = "flushes" /\ l = "unlink" /\ j.msg = job[s].msg /\ j.flush = <<>> /\ job[s].flush = <<>> /\ work' = work
           \/ pc[s] = "unlink" /\ l = "free" /\ j = job[s] /\ job[s].flush = <<>> /\ Unlink(s)
           \/ pc[s] = "free" /\ l = "qlock" /\ j = NoJob /\ job[s].flush = <<>> /\ work' = work
  <2>1. CASE Fcall(s)
    <3>1. PICK err : job' = [job EXCEPT ![s].err = err] BY <2>1 DEF Fcall
    <3>2. job' = [job EXCEPT ![s] = [job[s] EXCEPT !.err = err]] BY SMT, <3>1
    <3>3. [job[s] EXCEPT !.err = err].flush = job[s].flush /\ [job[s] EXCEPT !.err = err].msg = job[s].msg BY SMT, <1>3 DEF Jobs
    <3>4. pc[s] = "run" /\ Goto(s, "end") /\ work' = work BY <2>1 DEF Fcall, At
    <3>5. "run" \in {"run", "end"} /\ "end" \in {"end", "reply", "flushes"} /\ "end" # "flushes" BY SMT
    <3>6. PICK j : j = [job[s] EXCEPT !.err = err] OBVIOUS
    <3>7. /\ job'[s] = j /\ pc'[s] = "end" /\ j.msg = job[s].msg /\ j.flush = job[s].flush
          /\ \A t \in Slaves \ {s} : job'[t] = job[t] /\ pc'[t] = pc[t]
      BY <1>4, <3>2, <3>3, <3>4, <3>6
    <3> QED BY <3>4, <3>5, <3>7
  <2>2. CASE End(s)
    <3>1. job' = [job EXCEPT ![s].busy = FALSE, ![s].finished = job[s].shut] BY <2>2 DEF End
    <3>2. job' = [job EXCEPT ![s] = [job[s] EXCEPT !.busy = FALSE, !.finished = job[s].shut]] BY <1>1, <3>1
    <3>3. /\ [job[s] EXCEPT !.busy = FALSE, !.finished = job[s].shut].flush = job[s].flush
          /\ [job[s] EXCEPT !.busy = FALSE, !.finished = job[s].shut].msg = job[s].msg
      BY SMTT(30), <1>3 DEF Jobs
    <3>4. pc[s] = "end" /\ work' = work BY <2>2 DEF End, At
    <3>5. PICK l : Goto(s, l) /\ l \in {"reply", "flushes"} /\ (l = "flushes" => job[s].flush # <<>>)
      BY SMTT(30), <1>3, <2>2 DEF End
    <3>6. "end" \in {"run", "end"} /\ l \in {"end", "reply", "flushes"} BY SMTT(30), <3>5
    <3> QED BY <1>4, <3>2, <3>3, <3>4, <3>5, <3>6
  <2>3. CASE Flushes(s) /\ job[s].flush = <<>>
    <3>1. pc[s] = "flushes" /\ work' = work /\ Goto(s, "unlink") /\ job' = [job EXCEPT ![s].finished = TRUE]
      BY <2>3 DEF Flushes, At
    <3>2. job' = [job EXCEPT ![s] = [job[s] EXCEPT !.finished = TRUE]] BY SMT, <3>1
    <3>3. [job[s] EXCEPT !.finished = TRUE].flush = job[s].flush /\ [job[s] EXCEPT !.finished = TRUE].msg = job[s].msg
      BY SMT, <1>3 DEF Jobs
    <3> QED BY <1>4, <2>3, <3>1, <3>2, <3>3
  <2>4. CASE Unlink(s)
    <3>1. pc[s] = "unlink" /\ job' = job /\ Goto(s, "free") BY <2>4 DEF Unlink, At
    <3>2. job[s].flush = <<>> BY SMT, <1>1, <1>3, <3>1 DEF JobOK
    <3>3. pc'[s] = "free" /\ \A t \in Slaves \ {s} : job'[t] = job[t] /\ pc'[t] = pc[t] BY <1>1, <3>1 DEF Goto
    <3> QED BY <2>4, <3>1, <3>2, <3>3
  <2>5. CASE Free(s)
    <3>1. pc[s] = "free" /\ work' = work BY <2>5 DEF Free, At
    <3>2. job[s].flush = <<>> BY SMTT(30), <1>1, <1>3, <3>1 DEF JobOK
    <3>3. job' = [job EXCEPT ![s] = NoJob] /\ Goto(s, "qlock") BY <2>5, <3>2 DEF Free
    <3> QED BY <1>4, <3>1, <3>2, <3>3
  <2> QED BY <2>1, <2>2, <2>3, <2>4, <2>5
<1>6. Alike(s) /\ (Over(s) => Over(s)')
  <2>1. CASE /\ pc[s] \in {"run", "end"} /\ l \in {"end", "reply", "flushes"} /\ j.msg = job[s].msg /\ j.flush = job[s].flush
             /\ (l = "flushes" => j.flush # <<>>)
    <3>1. Active(s) /\ ~Over(s) BY SMTT(30), <2>1 DEF Active, Over
    <3>2. pc'[s] # "rflush" /\ pc[s] # "rflush" /\ pc'[s] \in {"run", "end", "reply", "rflush", "flushes"} BY SMTT(30), <1>5, <2>1
    <3> QED BY <1>2, <1>5, <2>1, <3>1, <3>2 DEF Alike
  <2>2. CASE job[s].flush = <<>> /\ j.flush = <<>> /\ pc[s] \in {"flushes", "unlink", "free"} /\ l \in {"unlink", "free", "qlock"}
    <3>1. Over(s) BY SMTT(30), <2>2 DEF Over, Active
    <3>2. Over(s)' BY SMTT(30), <1>5, <2>2 DEF Over, Active
    <3> QED BY <3>1, <3>2 DEF Alike
  <2>3. NoJob.flush = <<>> BY NoneTypes
  <2> QED BY SMTT(30), <1>5, <2>1, <2>2, <2>3
<1>7. \A t \in Slaves : Alike(t) /\ (Over(t) => Over(t)')
  <2>1. ASSUME NEW t \in Slaves \ {s} PROVE Alike(t) /\ (Over(t) => Over(t)')
    BY <1>2, <1>5, SameSlave
  <2> QED BY <1>6, <2>1
<1>8. pc[s] # "start" /\ pc'[s] # "start" BY SMT, <1>5
<1>9. /\ \A t \in Slaves : pc'[t] = "start" <=> pc[t] = "start"
      /\ \A t \in Slaves : pc[t] = "start" => cur'[t] = cur[t]
  BY <1>2, <1>5, <1>8
<1>10. WorkOrder'
  <2>0. WorkOrder BY DEF ClientInv
  <2>1. CASE Unlink(s)
    <3>1. job' = job /\ work' \in Kept(work, {i \in DOMAIN work : work[i] # s}) BY <2>1 DEF Unlink
    <3>2. PICK K : K = {i \in DOMAIN work : work[i] # s} OBVIOUS
    <3>3. K \in SUBSET DOMAIN work BY <3>2
    <3>4. Selected(work', work, K) BY <1>1, <3>1, <3>2, <3>3, KeptFacts
    <3>5. \A t \in Slaves : job'[t].msg = job[t].msg BY <3>1
    <3> QED BY <1>1, <1>7, <2>0, <3>3, <3>4, <3>5, WorkKept
  <2>2. CASE work' = work /\ (pc[s] = "free" \/ job'[s].msg = job[s].msg)
    <3>1. pc[s] = "free" => s \notin Elements(work) BY SMTT(30), <1>1 DEF SlaveOK, InWork
    <3>2. \A t \in Elements(work) : t \in Slaves
      <4>1. \A i \in DOMAIN work : work[i] \in Slaves BY SMT, <1>1
      <4> QED BY <4>1 DEF Elements
    <3>3. \A t \in Elements(work) : job'[t].msg = job[t].msg BY <1>5, <2>2, <3>1, <3>2
    <3> QED BY <1>1, <1>7, <2>0, <2>2, <3>3, WorkSame
  <2> QED BY <1>5, <2>1, <2>2
<1>11. pending' = pending /\ lost' = lost /\ head' = head /\ reader' = reader /\ rq' = rq BY <1>2
<1>12. HeadInv BY DEF ClientInv
<1>13. Waiting' = Waiting /\ HeadInv' BY <1>9, <1>11, <1>12, WaitingSame
<1> QED BY <1>7, <1>10, <1>11, <1>13, QuietSlave

\* A request is taken: it is still waiting, and still in one place.
LEMMA TakeClient ==
  ASSUME SInv, ~down, ClientInv, NEW s \in Slaves, Take(s), head # <<>>
  PROVE  ClientInv'
<1>1. /\ pc \in [Slaves -> Labels] /\ job \in [Slaves -> Jobs] /\ cur \in [Slaves -> Message] /\ work \in Seq(Slaves)
      /\ head \in Seq(Message) /\ Shape /\ WaitInv
  BY DEF SInv, Shape
<1>2. /\ pc[s] = "take" /\ exql = None /\ Qunlock(s, "start") /\ cur' = [cur EXCEPT ![s] = Head(head)]
      /\ head' = Tail(head) /\ UNCHANGED <<pending, lost, reader, rq, work, job>>
  BY DEF Take, At, rvars, cvars
<1>3. pc[s] \in Holding /\ "start" \in {"qlock", "start"} BY SMT, <1>2 DEF Holding
<1>4. /\ pc'[s] = "start"
      /\ \A t \in Slaves \ {s} : pc'[t] = pc[t] \/ (pc[t] = "queued" /\ pc'[t] = "sleep")
  BY <1>1, <1>2, <1>3, QunlockFacts
<1>5. cur'[s] = Head(head) /\ \A t \in Slaves \ {s} : cur'[t] = cur[t] BY <1>1, <1>2
<1>6. \A t \in Slaves : pc[t] # "start"
  <2>1. \A t \in Slaves : exql # t BY SMTT(30), <1>2 DEF Slaves, None
  <2> QED BY <2>1 DEF SInv, SlavesInv, SlaveOK
<1>7. \A t \in Slaves \ {s} : pc'[t] # "start" BY SMTT(30), <1>4, <1>6
<1>8. /\ Elements(head) = Elements(head') \cup {Head(head)} /\ Head(head) = head[1] /\ 1 \in DOMAIN head
      /\ \A i \in DOMAIN head' : head'[i] = head[i + 1] /\ i + 1 \in DOMAIN head
  BY SMTT(30), <1>1, <1>2, Tailed
<1>9. Waiting' = Waiting
  <2>1. \A m : m \in Waiting' <=> m \in Elements(head') \/ \E t \in Slaves : pc'[t] = "start" /\ cur'[t] = m
    BY DEF Waiting
  <2>2. \A m : m \in Waiting' <=> m \in Elements(head') \/ m = Head(head) BY <1>4, <1>5, <1>7, <2>1
  <2>3. \A m : m \in Waiting <=> m \in Elements(head) BY <1>6, WaitingIs
  <2> QED BY <1>8, <2>2, <2>3
<1>10. HeadInv'
  <2>1. HeadInv BY DEF ClientInv
  <2>2. Waiting' \subseteq Pend' BY <1>2, <1>9, <2>1 DEF HeadInv, Pend
  <2>3. \A i \in DOMAIN head' : i \in Nat /\ i # 0 BY SMTT(30), <1>1, <1>2
  <2>4. ASSUME NEW i \in DOMAIN head', NEW j \in DOMAIN head', head'[i] = head'[j] PROVE i = j
    <3>1. i + 1 = j + 1 BY <1>8, <2>1, <2>4 DEF HeadInv
    <3> QED BY SMTT(30), <2>3, <3>1
  <2>5. Head(head) \notin Elements(head')
    <3> SUFFICES ASSUME NEW i \in DOMAIN head', head'[i] = head[1] PROVE FALSE BY <1>8 DEF Elements
    <3>1. i + 1 = 1 BY <1>8, <2>1 DEF HeadInv
    <3> QED BY SMT, <2>3, <3>1
  <2>6. \A t \in Slaves : pc'[t] = "start" => cur'[t] \notin Elements(head') BY <1>5, <1>7, <2>5
  <2> QED BY <2>2, <2>4, <2>6 DEF HeadInv
<1>11. Over(s) /\ Over(s)'
  <2>1. ~HasJob(s) BY SMT, <1>2 DEF HasJob
  <2>2. Over(s) BY <2>1, Idle
  <2>3. ~Active(s)' /\ pc'[s] # "rflush" BY SMT, <1>4 DEF Active
  <2> QED BY <1>2, <2>2, <2>3 DEF Over
<1>12. \A t \in Slaves : Alike(t) /\ (Over(t) => Over(t)')
  <2>1. ASSUME NEW t \in Slaves \ {s} PROVE Alike(t) /\ (Over(t) => Over(t)')
    <3>1. pc'[t] = pc[t] \/ (pc[t] \in Plain /\ pc'[t] \in Plain) BY SMT, <1>4 DEF Plain, Holding
    <3>2. job'[t] = job[t] /\ cur'[t] = cur[t] BY <1>2, <1>5
    <3> QED BY <3>1, <3>2, SameSlave
  <2> QED BY <1>11, <2>1 DEF Alike
<1>13. WorkOrder'
  <2>1. WorkOrder BY DEF ClientInv
  <2>2. work' = work /\ \A t \in Elements(work) : job'[t].msg = job[t].msg BY <1>2
  <2> QED BY <1>1, <1>12, <2>1, <2>2, WorkSame
<1>14. pending' = pending /\ lost' = lost /\ reader' = reader /\ rq' = rq BY <1>2
<1> QED BY <1>9, <1>10, <1>12, <1>13, <1>14, QuietSlave

\* The slave goes on to its next Tflush, in the order in which they came.
LEMMA FlushesClient ==
  ASSUME SInv, ~down, ClientInv, NEW s \in Slaves, Flushes(s), job[s].flush # <<>>
  PROVE  ClientInv'
<1>1. /\ pc \in [Slaves -> Labels] /\ job \in [Slaves -> Jobs] /\ cur \in [Slaves -> Message] /\ work \in Seq(Slaves)
      /\ JobOK(s) /\ SlaveOK(s) /\ rq \in Message
  BY DEF SInv, Shape, SlavesInv
<1>2. ~job[s].shut BY <1>1 DEF JobOK
<1>3. /\ pc[s] = "flushes" /\ cur' = [cur EXCEPT ![s] = Head(job[s].flush)] /\ Goto(s, "rflush")
      /\ job' = [job EXCEPT ![s].flush = Tail(@)] /\ UNCHANGED <<pending, lost, reader, rq, head, work>>
  BY <1>2 DEF Flushes, At, rvars, qvars, cvars
<1>4. /\ pc'[s] = "rflush" /\ cur'[s] = Head(job[s].flush)
      /\ job'[s].msg = job[s].msg /\ job'[s].flush = Tail(job[s].flush)
      /\ \A t \in Slaves \ {s} : pc'[t] = pc[t] /\ job'[t] = job[t] /\ cur'[t] = cur[t]
  <2>1. job' = [job EXCEPT ![s] = [job[s] EXCEPT !.flush = Tail(job[s].flush)]] BY SMT, <1>1, <1>3
  <2>2. PICK j : j = [job[s] EXCEPT !.flush = Tail(job[s].flush)] OBVIOUS
  <2>3. job[s] \in Jobs BY <1>1
  <2>4. j.flush = Tail(job[s].flush) /\ j.msg = job[s].msg BY SMT, <2>2, <2>3 DEF Jobs
  <2>5. job'[s] = j /\ \A t \in Slaves \ {s} : job'[t] = job[t] BY <1>1, <2>1, <2>2
  <2> QED BY <1>1, <1>3, <2>4, <2>5 DEF Goto
<1>5. job[s].flush \in Seq(Message) BY SMT, <1>1 DEF Jobs
<1>6. /\ Elements(job[s].flush) = Elements(Tail(job[s].flush)) \cup {Head(job[s].flush)}
      /\ Head(job[s].flush) = job[s].flush[1] /\ 1 \in DOMAIN job[s].flush
      /\ \A i \in DOMAIN Tail(job[s].flush) :
           Tail(job[s].flush)[i] = job[s].flush[i + 1] /\ i + 1 \in DOMAIN job[s].flush
  BY <1>5, Tailed
<1>7. \A i, j \in DOMAIN Tail(job[s].flush) : 1 < i + 1 /\ (i < j => i + 1 < j + 1) BY SMT, <1>5
<1>8. PendInv /\ HeadInv /\ ActiveInv /\ HeldInv /\ FlushOrder /\ RqInv /\ FindInv /\ WorkOrder BY DEF ClientInv
<1>9. Pend' = Pend BY <1>3 DEF Pend
<1>10. ~Over(s) /\ ~Over(s)' /\ ~Active(s)' BY SMTT(30), <1>3, <1>4 DEF Over, Active
<1>11. \A f : Holds(s, f)' <=> Holds(s, f)
  <2>1. \A f : Holds(s, f)' <=> f \in Elements(Tail(job[s].flush)) \/ f = Head(job[s].flush)
    BY <1>4 DEF Holds
  <2>2. \A f : Holds(s, f) <=> f \in Elements(job[s].flush) BY SMT, <1>3 DEF Holds
  <2> QED BY SMTT(30), <1>6, <2>1, <2>2
<1>12. ASSUME NEW t \in Slaves \ {s}
       PROVE  /\ Active(t)' <=> Active(t)
              /\ Over(t)' <=> Over(t)
              /\ \A f : Holds(t, f)' <=> Holds(t, f)
              /\ \A m : Serving(t, m)' <=> Serving(t, m)
  BY <1>4 DEF Active, Over, Holds, Serving
<1>13. \A t \in Slaves : job'[t].msg = job[t].msg BY <1>4
<1>14. PendInv' BY <1>3, <1>8 DEF PendInv
<1>15. Waiting' = Waiting /\ HeadInv'
  <2>1. pc[s] # "start" /\ pc'[s] # "start" BY SMT, <1>3, <1>4
  <2>2. /\ \A t \in Slaves : pc'[t] = "start" <=> pc[t] = "start"
        /\ \A t \in Slaves : pc[t] = "start" => cur'[t] = cur[t]
    BY <1>4, <2>1
  <2> QED BY <1>3, <1>8, <2>2, WaitingSame
<1>16. WorkOrder'
  <2>1. \A t \in Slaves : Over(t) => Over(t)' BY <1>10, <1>12
  <2>2. \A t \in Elements(work) : job'[t].msg = job[t].msg
    <3>1. \A i \in DOMAIN work : work[i] \in Slaves BY SMT, <1>1
    <3> QED BY <1>13, <3>1 DEF Elements
  <2> QED BY <1>1, <1>3, <1>8, <2>1, <2>2, WorkSame
<1>17. FlushOrder'
  <2>1. ASSUME NEW t \in Slaves
        PROVE  /\ \A i, j \in DOMAIN job'[t].flush : i < j => Precedes(job'[t].flush[i], job'[t].flush[j])
               /\ pc'[t] = "rflush" => \A i \in DOMAIN job'[t].flush : Precedes(cur'[t], job'[t].flush[i])
    <3>1. CASE t = s
      <4>1. \A i, j \in DOMAIN job[s].flush : i < j => Precedes(job[s].flush[i], job[s].flush[j])
        BY <1>8 DEF FlushOrder
      <4>2. ASSUME NEW i \in DOMAIN Tail(job[s].flush), NEW j \in DOMAIN Tail(job[s].flush), i < j
            PROVE  Precedes(Tail(job[s].flush)[i], Tail(job[s].flush)[j])
        BY <1>6, <1>7, <4>1, <4>2
      <4>3. \A i \in DOMAIN Tail(job[s].flush) : Precedes(Head(job[s].flush), Tail(job[s].flush)[i])
        BY <1>6, <1>7, <4>1
      <4>4. job'[t].flush = Tail(job[s].flush) /\ cur'[t] = Head(job[s].flush) BY <1>4, <3>1
      <4> QED BY SMTT(30), <4>2, <4>3, <4>4
    <3>2. CASE t # s BY <1>4, <1>8, <3>2 DEF FlushOrder
    <3> QED BY <3>1, <3>2
  <2>2. pending' = pending BY <1>3
  <2> QED BY <2>1, <2>2, OrderSame
<1>18. \A t \in Slaves : Active(t)' => Active(t) /\ job'[t].msg = job[t].msg /\ job[t].msg \in Pend'
  BY <1>8, <1>9, <1>10, <1>12, <1>13 DEF ActiveInv
<1>19. \A t \in Slaves : \A f \in Message :
         Holds(t, f)' => Holds(t, f) /\ job'[t].msg = job[t].msg /\ f \in Pend'
  BY <1>8, <1>9, <1>11, <1>12, <1>13 DEF HeldInv
<1>20. \A t \in Slaves : ~Over(t)' => ~Over(t) /\ job'[t].msg = job[t].msg BY <1>10, <1>12, <1>13
<1>21. Handling' => /\ Handling /\ rq' = rq /\ reader' = reader
                    /\ pending' # <<>> /\ rq = pending'[Len(pending')]
  BY <1>3, <1>8 DEF Handling, RqInv
<1>22. lost' \subseteq Pend' BY <1>3, <1>8, <1>9 DEF FindInv
<1>23. \A m : Serving(s, m) => Serving(s, m)' BY <1>4 DEF Serving
<1>24. \A m : (Handling /\ rq = m => Handling') /\ (reader = "reply" /\ rq.old = m.tag => reader' = "reply" /\ rq' = rq)
  BY <1>3 DEF Handling
<1>25. \A m \in Pend' \ lost' : Request(m) =>
         /\ m \notin lost
         /\ Handling /\ rq = m => Handling'
         /\ m \in Waiting => m \in Waiting'
         /\ reader = "reply" /\ rq.old = m.tag => reader' = "reply" /\ rq' = rq
         /\ \A t \in Slaves : Serving(t, m) => Serving(t, m)'
  BY <1>3, <1>12, <1>15, <1>23, <1>24
<1> QED BY <1>1, <1>8, <1>9, <1>14, <1>15, <1>16, <1>17, <1>18, <1>19, <1>20, <1>21, <1>22, <1>25, ClientStep

\* The job of an earlier request with the tag of one not started is over.
LEMMA WaitingOver ==
  ASSUME SInv, ClientInv, NEW t \in Slaves, NEW m \in Waiting, job[t].msg.tag = m.tag
  PROVE  Over(t)
<1>1. /\ job \in [Slaves -> Jobs] /\ cur \in [Slaves -> Message] /\ pending \in Seq(Message)
      /\ PendInv /\ HeadInv /\ ActiveInv /\ HeldInv
  BY DEF SInv, Shape, ClientInv
<1>2. ~Active(t)
  <2> SUFFICES ASSUME Active(t) PROVE FALSE BY SMT
  <2>1. job[t].msg \in Pend /\ job[t].msg \notin Waiting BY <1>1 DEF ActiveInv
  <2>2. m \in Pend BY <1>1 DEF HeadInv
  <2> QED BY <1>1, <2>1, <2>2, PendUnique
<1>3. \A f \in Message : ~Holds(t, f) BY <1>1 DEF HeldInv
<1>4. job[t].flush \in Seq(Message) /\ cur[t] \in Message BY SMT, <1>1 DEF Jobs
<1>5. pc[t] # "rflush" BY <1>3, <1>4 DEF Holds
<1>6. job[t].flush = <<>>
  <2> SUFFICES ASSUME job[t].flush # <<>> PROVE FALSE BY SMT
  <2>1. 1 \in DOMAIN job[t].flush /\ job[t].flush[1] \in Message BY SMTT(30), <1>4
  <2> QED BY <1>3, <2>1 DEF Holds, Elements
<1> QED BY <1>2, <1>5, <1>6 DEF Over

\* The request is in progress.
LEMMA StartClient ==
  ASSUME SInv, ~down, ClientInv, NEW s \in Slaves, Start(s)
  PROVE  ClientInv'
<1>1. /\ pc \in [Slaves -> Labels] /\ job \in [Slaves -> Jobs] /\ cur \in [Slaves -> Message] /\ work \in Seq(Slaves)
      /\ SlaveOK(s) /\ pending \in Seq(Message) /\ rq \in Message
  BY DEF SInv, Shape, SlavesInv
<1>2. /\ pc[s] = "start" /\ job' = [job EXCEPT ![s] = [NoJob EXCEPT !.msg = cur[s], !.busy = TRUE]]
      /\ cur' = [cur EXCEPT ![s] = NoMsg] /\ work' = <<s>> \o work /\ Goto(s, "run")
      /\ UNCHANGED <<pending, lost, reader, rq, head>>
  BY DEF Start, At, rvars, qvars, cvars
<1>3. /\ pc'[s] = "run" /\ job'[s].msg = cur[s] /\ job'[s].flush = <<>>
      /\ \A t \in Slaves \ {s} : pc'[t] = pc[t] /\ job'[t] = job[t] /\ cur'[t] = cur[t]
  <2>1. PICK j : j = [NoJob EXCEPT !.msg = cur[s], !.busy = TRUE] OBVIOUS
  <2>2. j.msg = cur[s] /\ j.flush = <<>> BY SMTT(30), <2>1, NoneTypes DEF Jobs
  <2>3. job'[s] = j /\ \A t \in Slaves \ {s} : job'[t] = job[t] BY <1>1, <1>2, <2>1
  <2> QED BY <1>1, <1>2, <2>2, <2>3 DEF Goto
<1>4. PICK m \in Message : m = cur[s] BY <1>1
<1>5. /\ PendInv /\ RqInv /\ HeadInv /\ ActiveInv /\ WorkOrder /\ HeldInv /\ FlushOrder /\ SearchInv /\ FindInv
  BY DEF ClientInv
<1>6. m \in Waiting /\ m \in Pend /\ m \notin Elements(head) BY <1>2, <1>4, <1>5, WaitingIs DEF HeadInv
<1>7. \A t \in Slaves \ {s} : pc[t] # "start" BY <1>1, <1>2 DEF SInv, SlavesInv, SlaveOK
<1>8. \A t \in Slaves : pc'[t] # "start" BY SMTT(30), <1>3, <1>7
<1>9. \A x : x \in Waiting' <=> x \in Waiting /\ x # m
  <2>1. \A x : x \in Waiting' <=> x \in Elements(head') \/ \E t \in Slaves : pc'[t] = "start" /\ cur'[t] = x
    BY DEF Waiting
  <2>2. \A x : x \in Waiting' <=> x \in Elements(head) BY <1>2, <1>8, <2>1
  <2>3. \A x : x \in Waiting <=> x \in Elements(head) \/ x = m BY <1>2, <1>4, <1>7, WaitingIs
  <2> QED BY <1>6, <2>2, <2>3
<1>10. Pend' = Pend /\ (Handling' <=> Handling) BY <1>2 DEF Pend, Handling
<1>11. Active(s)' /\ (\A f : ~Holds(s, f)') /\ ~Over(s)' /\ Serving(s, m)'
  <2>1. Active(s)' BY SMT, <1>3 DEF Active
  <2>2. \A f : ~Holds(s, f)'
    <3>1. Elements(<<>>) = {} BY SMT DEF Elements
    <3> QED BY SMTT(30), <1>3, <3>1 DEF Holds
  <2> QED BY <1>3, <1>4, <2>1, <2>2 DEF Over, Serving
<1>12. ASSUME NEW t \in Slaves \ {s}
       PROVE  /\ Active(t)' <=> Active(t)
              /\ Over(t)' <=> Over(t)
              /\ \A f : Holds(t, f)' <=> Holds(t, f)
              /\ \A n : Serving(t, n)' <=> Serving(t, n)
              /\ job'[t] = job[t]
  BY <1>3 DEF Active, Over, Holds, Serving
<1>13. ~Active(s) /\ \A n : ~Serving(s, n) BY SMT, <1>2 DEF Active, Serving
<1>14. PendInv' BY <1>2, <1>5 DEF PendInv
<1>15. RqInv'
  <2> SUFFICES ASSUME Handling
               PROVE  /\ pending # <<>> /\ rq = pending[Len(pending)] /\ rq \notin Waiting'
                      /\ \A t \in Slaves : Active(t)' => rq # job'[t].msg
                      /\ \A t \in Slaves : ~Holds(t, rq)'
    BY <1>2, <1>10 DEF RqInv
  <2>1. /\ pending # <<>> /\ rq = pending[Len(pending)] /\ rq \notin Waiting
        /\ \A t \in Slaves : Active(t) => rq # job[t].msg
        /\ \A t \in Slaves : ~Holds(t, rq)
    BY <1>5 DEF RqInv
  <2>2. ASSUME NEW t \in Slaves PROVE Active(t)' => rq # job'[t].msg BY <1>3, <1>4, <1>6, <1>12, <2>1
  <2>3. ASSUME NEW t \in Slaves PROVE ~Holds(t, rq)'
    <3>2. CASE t = s BY <1>11, <3>2
    <3>3. CASE t # s BY <1>2, <1>3, <2>1, <3>3 DEF Holds
    <3> QED BY <3>2, <3>3
  <2> QED BY <1>9, <2>1, <2>2, <2>3
<1>16. HeadInv' BY <1>2, <1>5, <1>8, <1>9, <1>10 DEF HeadInv
<1>17. ActiveInv'
  <2>1. ASSUME NEW t \in Slaves, Active(t)' PROVE job'[t].msg \in Pend' /\ job'[t].msg \notin Waiting'
    <3>1. CASE t = s BY <1>3, <1>4, <1>6, <1>9, <1>10, <3>1
    <3>2. CASE t # s BY <1>5, <1>9, <1>10, <1>12, <2>1, <3>2 DEF ActiveInv
    <3> QED BY <3>1, <3>2
  <2> QED BY <2>1 DEF ActiveInv
<1>18. ASSUME NEW t \in Slaves \ {s}, job[t].msg.tag = m.tag PROVE Over(t)
  BY <1>6, <1>18, WaitingOver
<1>19. WorkOrder'
  <2>1. \A i \in DOMAIN work : work[i] \in Slaves /\ i \in Nat /\ i # 0 BY SMTT(30), <1>1
  <2>2. s \notin Elements(work) BY SMTT(30), <1>1, <1>2 DEF SlaveOK, InWork
  <2>3. \A i \in DOMAIN work : work[i] \in Slaves \ {s} BY <2>1, <2>2 DEF Elements
  <2>4. /\ work'[1] = s
        /\ \A i \in DOMAIN work' : i = 1 \/ (i - 1 \in DOMAIN work /\ work'[i] = work[i - 1])
    <3>1. work' = <<s>> \o work BY <1>2
    <3> QED BY SMTT(30), <1>1, <3>1, Consed
  <2>5. \A i \in DOMAIN work' : i \in Nat /\ i # 0
    <3>1. work' \in Seq(Slaves) BY <1>1, <1>2, Consed
    <3> QED BY SMT, <3>1
  <2>6. ASSUME NEW i \in DOMAIN work', NEW j \in DOMAIN work', i < j,
               job'[work'[i]].msg.tag = job'[work'[j]].msg.tag
        PROVE  Over(work[j])'
    <3>1. j # 1 BY SMTT(30), <2>5, <2>6
    <3>2. PICK l \in DOMAIN work : l = j - 1 /\ work'[j] = work[l] BY <2>4, <3>1
    <3>3. PICK u \in Slaves \ {s} : u = work[l] BY <2>3
    <3>4. Over(u)
      <4>1. CASE i = 1 BY <1>3, <1>4, <1>12, <1>18, <2>4, <2>6, <3>2, <3>3, <4>1
      <4>2. CASE i # 1
        <5>1. PICK k \in DOMAIN work : k = i - 1 /\ work'[i] = work[k] BY <2>4, <4>2
        <5>2. k < l BY SMTT(30), <2>1, <2>5, <2>6, <3>2, <5>1
        <5>3. job[work[k]].msg.tag = job[work[l]].msg.tag BY <1>12, <2>3, <2>6, <3>2, <5>1
        <5> QED BY <1>5, <3>3, <5>2, <5>3 DEF WorkOrder
      <4> QED BY <4>1, <4>2
    <3>5. Over(u)' BY <1>12, <3>4
    <3>6. u = work'[j] BY <3>2, <3>3
    <3> QED BY <3>5, <3>6 DEF Over, Active
  <2> QED BY <2>6 DEF WorkOrder
<1>20. HeldInv'
  <2>1. ASSUME NEW t \in Slaves, NEW f \in Message, Holds(t, f)'
        PROVE  f \in Pend' /\ f.old = job'[t].msg.tag /\ \A n \in Waiting' : n.tag # f.old
    BY <1>5, <1>9, <1>10, <1>11, <1>12, <2>1 DEF HeldInv
  <2> QED BY <2>1 DEF HeldInv
<1>21. FlushOrder'
  <2>1. ASSUME NEW t \in Slaves
        PROVE  /\ \A i, j \in DOMAIN job'[t].flush : i < j => Precedes(job'[t].flush[i], job'[t].flush[j])
               /\ pc'[t] = "rflush" => \A i \in DOMAIN job'[t].flush : Precedes(cur'[t], job'[t].flush[i])
    <3>1. CASE t = s BY SMTT(30), <1>3, <3>1
    <3>2. CASE t # s BY <1>3, <1>5, <3>2 DEF FlushOrder
    <3> QED BY <3>1, <3>2
  <2>2. pending' = pending BY <1>2
  <2> QED BY <2>1, <2>2, OrderSame
<1>22. SearchInv'
  <2>1. reader' = reader /\ rq' = rq BY <1>2
  <2>2. reader = "flushwork" => \A n \in Waiting' : n.tag # rq.old BY <1>5, <1>9 DEF SearchInv
  <2>3. ASSUME reader = "reply", rq.old # NoTag
        PROVE  /\ \A n \in Waiting' : n.tag # rq.old
               /\ \A t \in Slaves : ~Over(t)' => job'[t].msg.tag # rq.old
    <3>1. /\ \A n \in Waiting : n.tag # rq.old
          /\ \A t \in Slaves : ~Over(t) => job[t].msg.tag # rq.old
      BY <1>5, <2>3 DEF SearchInv
    <3> QED BY <1>3, <1>4, <1>6, <1>9, <1>12, <3>1
  <2> QED BY <2>1, <2>2, <2>3 DEF SearchInv
<1>23. FindInv'
  <2>1. lost' \subseteq Pend' BY <1>2, <1>5, <1>10 DEF FindInv
  <2>2. ASSUME NEW n \in Pend' \ lost', Request(n)
        PROVE  \/ Handling' /\ rq' = n
               \/ n \in Waiting'
               \/ reader' = "reply" /\ rq'.old = n.tag
               \/ \E t \in Slaves : Serving(t, n)'
    <3>1. \/ Handling /\ rq = n
          \/ n \in Waiting
          \/ reader = "reply" /\ rq.old = n.tag
          \/ \E t \in Slaves : Serving(t, n)
      BY <1>2, <1>5, <1>10, <2>2 DEF FindInv
    <3>2. rq' = rq /\ reader' = reader BY <1>2
    <3>3. CASE n \in Waiting BY <1>9, <1>11, <3>3
    <3>4. CASE \E t \in Slaves : Serving(t, n) BY <1>12, <1>13, <3>4
    <3> QED BY <1>10, <3>1, <3>2, <3>3, <3>4
  <2> QED BY <2>1, <2>2 DEF FindInv
<1> QED BY <1>14, <1>15, <1>16, <1>17, <1>19, <1>20, <1>21, <1>22, <1>23 DEF ClientInv

\* A request not started is a request.
LEMMA WaitingRequest == SInv => \A m \in Waiting : Request(m)
<1> SUFFICES ASSUME SInv, NEW m \in Waiting PROVE Request(m) OBVIOUS
<1>1. CASE m \in Elements(head) BY <1>1 DEF SInv, ReaderInv, Elements
<1>2. CASE \E s \in Slaves : pc[s] = "start" /\ cur[s] = m BY <1>2 DEF SInv, SlavesInv, SlaveOK
<1> QED BY <1>1, <1>2, WaitingIs

\* What a job has to answer is a Tflush.
LEMMA HoldsFlush ==
  ASSUME SInv, NEW t \in Slaves, NEW f, Holds(t, f)
  PROVE  Flush(f) /\ ~Over(t)
<1>1. JobOK(t) /\ SlaveOK(t) BY DEF SInv, SlavesInv
<1>2. Flush(f) BY <1>1 DEF JobOK, SlaveOK, Holds, Elements
<1>3. job[t].flush # <<>> \/ pc[t] = "rflush" BY SMT DEF Holds, Elements
<1> QED BY <1>2, <1>3 DEF Over

\* Two slaves with something to do for the client do it for different tags.
LEMMA OneJob ==
  ASSUME SInv, ~down, WorkOrder, NEW t \in Slaves, NEW u \in Slaves, ~Over(t), ~Over(u),
         job[t].msg.tag = job[u].msg.tag
  PROVE  t = u
<1>1. t \in Elements(work) /\ u \in Elements(work) BY Busied
<1>2. PICK i, j \in DOMAIN work : work[i] = t /\ work[j] = u BY <1>1 DEF Elements
<1>3. ~(i < j) /\ ~(j < i) BY <1>2 DEF WorkOrder
<1>4. work \in Seq(Slaves) BY DEF SInv, Shape
<1>5. i = j BY SMTT(30), <1>3, <1>4
<1> QED BY <1>2, <1>5

\* What the answer to the p-th of the awaited messages takes from them.
Gone(p, j) == IF pending[p].old = NoTag THEN j = p
              ELSE j <= p /\ (pending[j].old = pending[p].old \/ pending[j].tag = pending[p].old)

\* An answer to an awaited message.
LEMMA ExreplyKept ==
  ASSUME Shape, ~down, NEW m \in Pend, Exreply(m)
  PROVE  \E p \in DOMAIN pending :
           /\ pending[p] = m /\ p = Position(m)
           /\ pending' \in Seq(Message) /\ lost' = lost \cap Elements(pending')
           /\ Selected(pending', pending, {j \in DOMAIN pending : ~Gone(p, j)})
<1>1. pending \in Seq(Message) BY DEF Shape
<1>2. PICK p : p = Position(m) OBVIOUS
<1>3. p \in DOMAIN pending /\ pending[p] = m BY <1>2 DEF Pend, Elements, Position
<1>4. lost' = lost \cap Elements(pending') /\ pending' \in Answered(m) BY DEF Exreply
<1>5. PICK K \in SUBSET DOMAIN pending : K = {j \in DOMAIN pending : ~Gone(p, j)} OBVIOUS
<1>6. \A j \in DOMAIN pending : j \in Nat BY SMT, <1>1
<1>7. CASE m.old = NoTag
  <2>1. pending' = Without(pending, p)
    <3>1. ~Client!IsFlush(m) BY SMTT(30), <1>7 DEF Client!IsFlush, Client!NoTag
    <3> QED BY <1>2, <1>4, <3>1 DEF Answered, Pend
  <2>2. DOMAIN pending \ {p} = K BY SMTT(30), <1>3, <1>5, <1>7 DEF Gone
  <2>3. pending' \in Seq(Message) /\ Selected(pending', pending, K) BY <1>1, <1>3, <2>1, <2>2, WithoutFacts
  <2> QED BY <1>2, <1>3, <1>4, <1>5, <2>3
<1>8. CASE m.old # NoTag
  <2>1. pending' \in Client!Settle(p)
    <3>1. Client!IsFlush(m) BY SMT, <1>8 DEF Client!IsFlush, Client!NoTag
    <3> QED BY <1>2, <1>4, <3>1 DEF Answered, Pend
  <2>2. pending' \in Kept(pending, {j \in DOMAIN pending : j > p \/ ~Client!Settled(pending[p], pending[j])})
    BY <2>1, SameLists
  <2>3. \A j \in DOMAIN pending : (j > p \/ ~Client!Settled(pending[p], pending[j])) <=> ~Gone(p, j)
    BY SMTT(30), <1>3, <1>6, <1>8 DEF Gone, Client!Settled
  <2>4. {j \in DOMAIN pending : j > p \/ ~Client!Settled(pending[p], pending[j])} = K BY <1>5, <2>3
  <2>5. pending' \in Seq(Message) /\ Selected(pending', pending, K) BY <1>1, <2>2, <2>4, KeptFacts
  <2> QED BY <1>2, <1>3, <1>4, <1>5, <2>5
<1> QED BY <1>7, <1>8

\* An answer leaves alone what the others have, when that is still awaited.
LEMMA Answering ==
  ASSUME SInv, ClientInv, NEW K \in SUBSET DOMAIN pending, Selected(pending', pending, K),
         pending' \in Seq(Message), lost' = lost \cap Elements(pending'), job' = job, work' = work, head' = head,
         \A t \in Slaves : pc'[t] = "start" <=> pc[t] = "start",
         \A t \in Slaves : pc'[t] \in {"start", "rflush"} => pc'[t] = pc[t] /\ cur'[t] = cur[t],
         \A t \in Slaves : (Active(t)' => Active(t)) /\ (Over(t) => Over(t)'),
         Waiting \subseteq Pend',
         \A t \in Slaves : Active(t)' => job[t].msg \in Pend',
         \A t \in Slaves : \A f \in Message : Holds(t, f)' => f \in Pend',
         Handling' => reader' = reader /\ rq' = rq /\ Len(pending) \in K,
         \A m \in Pend' : Request(m) =>
           /\ Handling /\ rq = m => Handling'
           /\ reader = "reply" /\ rq.old = m.tag => reader' = "reply" /\ rq' = rq
           /\ \A t \in Slaves : Serving(t, m) => Serving(t, m)'
  PROVE  ClientInv'
<1>1. /\ pending \in Seq(Message) /\ rq \in Message /\ work \in Seq(Slaves)
      /\ job \in [Slaves -> Jobs] /\ cur \in [Slaves -> Message]
  BY DEF SInv, Shape
<1>2. PendInv /\ HeadInv /\ FlushOrder /\ RqInv /\ FindInv /\ WorkOrder BY DEF ClientInv
<1>3. /\ PendInv' /\ Pend' \subseteq Pend
      /\ \A f, g \in Pend' : Precedes(f, g) => Precedes(f, g)'
      /\ Len(pending) \in K => pending' # <<>> /\ pending'[Len(pending')] = pending[Len(pending)]
  BY <1>1, <1>2, PendKept
<1>4. Waiting' = Waiting
  <2>1. \A m : m \in Waiting' <=> m \in Elements(head') \/ \E s \in Slaves : pc'[s] = "start" /\ cur'[s] = m
    BY DEF Waiting
  <2>2. \A t \in Slaves : pc[t] = "start" => cur'[t] = cur[t] OBVIOUS
  <2>4. \A s \in Slaves : \A m : pc'[s] = "start" /\ cur'[s] = m <=> pc[s] = "start" /\ cur[s] = m BY <2>2
  <2>5. Elements(head') = Elements(head) OBVIOUS
  <2>3. \A m : m \in Waiting' <=> m \in Waiting BY SMTT(30), <2>1, <2>4, <2>5, WaitingIs
  <2> QED BY <2>3
<1>5. HeadInv'
  <2>1. \A t \in Slaves : pc'[t] = "start" => cur'[t] \notin Elements(head') BY <1>2 DEF HeadInv
  <2> QED BY <1>2, <1>4, <2>1 DEF HeadInv
<1>6. WorkOrder'
  <2>1. \A t \in Elements(work) : job'[t].msg = job[t].msg OBVIOUS
  <2> QED BY <1>1, <1>2, <2>1, WorkSame
<1>7. ASSUME NEW t \in Slaves, NEW f \in Message, Holds(t, f)' PROVE Holds(t, f) BY <1>7 DEF Holds
<1>8. FlushOrder'
  <2>1. ASSUME NEW t \in Slaves
        PROVE  /\ \A i \in DOMAIN job[t].flush : job[t].flush[i] \in Message /\ job[t].flush[i] \in Pend'
               /\ pc'[t] = "rflush" => cur[t] \in Pend'
    <3>0. job[t] \in Jobs /\ cur[t] \in Message BY <1>1
    <3>1. job[t].flush \in Seq(Message) /\ cur[t] \in Message BY SMTT(30), <3>0 DEF Jobs
    <3>2. \A i \in DOMAIN job[t].flush : job[t].flush[i] \in Message BY SMT, <3>1
    <3>3. \A f \in Message : f \in Elements(job'[t].flush) \/ (pc'[t] = "rflush" /\ cur'[t] = f) => f \in Pend'
      BY DEF Holds
    <3>4. pc'[t] = "rflush" => cur'[t] = cur[t] OBVIOUS
    <3> QED BY <3>1, <3>2, <3>3, <3>4 DEF Elements
  <2>2. ASSUME NEW t \in Slaves
        PROVE  /\ \A i, j \in DOMAIN job'[t].flush : i < j =>
                    Precedes(job[t].flush[i], job[t].flush[j]) /\ job[t].flush[i] \in Pend' /\ job[t].flush[j] \in Pend'
               /\ pc'[t] = "rflush" => \A i \in DOMAIN job'[t].flush :
                    Precedes(cur[t], job[t].flush[i]) /\ cur[t] \in Pend' /\ job[t].flush[i] \in Pend' /\ cur'[t] = cur[t]
    BY <1>2, <2>1 DEF FlushOrder
  <2>3. ASSUME NEW f \in Pend', NEW g \in Pend', Precedes(f, g)
        PROVE  \E a, b \in DOMAIN pending' : a < b /\ pending'[a] = f /\ pending'[b] = g
    <3>1. Precedes(f, g)' BY <1>3, <2>3
    <3> QED BY <3>1 DEF Precedes
  <2>4. ASSUME NEW t \in Slaves
        PROVE  /\ \A i, j \in DOMAIN job'[t].flush : i < j => \E a, b \in DOMAIN pending' :
                    a < b /\ pending'[a] = job'[t].flush[i] /\ pending'[b] = job'[t].flush[j]
               /\ pc'[t] = "rflush" => \A i \in DOMAIN job'[t].flush : \E a, b \in DOMAIN pending' :
                    a < b /\ pending'[a] = cur'[t] /\ pending'[b] = job'[t].flush[i]
    <3>1. job'[t].flush = job[t].flush OBVIOUS
    <3> QED BY SMTT(30), <2>2, <2>3, <3>1
  <2> QED BY <2>4 DEF FlushOrder, Precedes
<1>9. \A t \in Slaves : Active(t)' => Active(t) /\ job'[t].msg = job[t].msg /\ job[t].msg \in Pend' OBVIOUS
<1>10. \A t \in Slaves : \A f \in Message :
         Holds(t, f)' => Holds(t, f) /\ job'[t].msg = job[t].msg /\ f \in Pend'
  BY <1>7
<1>11. \A t \in Slaves : ~Over(t)' => ~Over(t) /\ job'[t].msg = job[t].msg OBVIOUS
<1>12. Handling' => /\ Handling /\ rq' = rq /\ reader' = reader
                    /\ pending' # <<>> /\ rq = pending'[Len(pending')]
  <2>1. Handling' => reader' = reader /\ Handling BY DEF Handling
  <2> QED BY <1>2, <1>3, <2>1 DEF RqInv
<1>13. lost' \subseteq Pend' BY DEF Pend
<1>14. ASSUME NEW m \in Pend' \ lost', Request(m)
       PROVE  /\ m \notin lost
              /\ Handling /\ rq = m => Handling'
              /\ m \in Waiting => m \in Waiting'
              /\ reader = "reply" /\ rq.old = m.tag => reader' = "reply" /\ rq' = rq
              /\ \A t \in Slaves : Serving(t, m) => Serving(t, m)'
  <2>1. m \notin lost BY DEF Pend
  <2> QED BY <1>4, <1>14, <2>1
<1> QED BY <1>1, <1>3, <1>4, <1>5, <1>6, <1>8, <1>9, <1>10, <1>11, <1>12, <1>13, <1>14, ClientStep

\* The answer to an awaited message takes that one, and, for a Tflush, what it
\* settles.
LEMMA StillAwaited ==
  ASSUME Shape, PendInv, ~down, NEW m \in Pend, Exreply(m)
  PROVE  \E p \in DOMAIN pending : \E K \in SUBSET DOMAIN pending :
           /\ pending[p] = m /\ Selected(pending', pending, K)
           /\ pending' \in Seq(Message) /\ lost' = lost \cap Elements(pending')
           /\ m \notin Pend' /\ Pend' \subseteq Pend
           /\ \A j \in DOMAIN pending : pending[j] \in Pend' <=> ~Gone(p, j)
           /\ \A j \in DOMAIN pending : j \in K <=> ~Gone(p, j)
<1>1. pending \in Seq(Message) BY DEF Shape
<1>2. PICK p \in DOMAIN pending :
           /\ pending[p] = m
           /\ pending' \in Seq(Message) /\ lost' = lost \cap Elements(pending')
           /\ Selected(pending', pending, {j \in DOMAIN pending : ~Gone(p, j)})
  BY ExreplyKept
<1>3. PICK K \in SUBSET DOMAIN pending : K = {j \in DOMAIN pending : ~Gone(p, j)} OBVIOUS
<1>4. Selected(pending', pending, K) BY <1>2, <1>3
<1>5. Pend' \subseteq Pend /\ \A j \in DOMAIN pending : pending[j] \in Pend' <=> j \in K
  BY <1>1, <1>2, <1>4, PendKept
<1>6. \A j \in DOMAIN pending : j \in K <=> ~Gone(p, j) BY <1>3
<1>7. Gone(p, p)
  <2>1. p <= p BY SMT, <1>1
  <2> QED BY <2>1 DEF Gone
<1>8. m \notin Pend' BY <1>2, <1>5, <1>6, <1>7
<1> QED BY <1>2, <1>4, <1>5, <1>6, <1>8

\* The request of a job is answered.
LEMMA ReplyClient ==
  ASSUME SInv, ~down, ClientInv, NEW s \in Slaves, Reply(s)
  PROVE  ClientInv'
<1>1. /\ pc \in [Slaves -> Labels] /\ pending \in Seq(Message) /\ Shape /\ JobOK(s)
  BY DEF SInv, Shape, SlavesInv
<1>2. /\ pc[s] = "reply" /\ Exreply(job[s].msg) /\ Goto(s, "flushes")
      /\ UNCHANGED <<reader, rq, head, work, job, cur>>
  BY DEF Reply, At, rvars, qvars
<1>3. pc'[s] = "flushes" /\ \A t \in Slaves \ {s} : pc'[t] = pc[t] BY <1>1, <1>2 DEF Goto
<1>4. /\ PendInv /\ RqInv /\ HeadInv /\ ActiveInv /\ WorkOrder /\ HeldInv BY DEF ClientInv
<1>5. PICK m : m = job[s].msg OBVIOUS
<1>6. Active(s) /\ m \in Pend /\ m \notin Waiting BY <1>2, <1>4, <1>5 DEF Active, ActiveInv
<1>7. Request(m) BY SMTT(30), <1>1, <1>2, <1>5 DEF JobOK, HasJob
<1>8. PICK p \in DOMAIN pending, K \in SUBSET DOMAIN pending :
           /\ pending[p] = m /\ Selected(pending', pending, K)
           /\ pending' \in Seq(Message) /\ lost' = lost \cap Elements(pending')
           /\ m \notin Pend'
           /\ \A j \in DOMAIN pending : pending[j] \in Pend' <=> ~Gone(p, j)
           /\ \A j \in DOMAIN pending : j \in K <=> ~Gone(p, j)
  <2>1. Exreply(m) BY <1>2, <1>5
  <2> QED BY <1>1, <1>4, <1>6, <2>1, StillAwaited
<1>9. \A j \in DOMAIN pending : Gone(p, j) <=> j = p BY <1>7, <1>8 DEF Gone, Request
<1>10. \A x \in Pend : x # m => x \in Pend' BY <1>8, <1>9 DEF Pend, Elements
<1>11. Waiting \subseteq Pend' BY <1>4, <1>6, <1>10 DEF HeadInv
<1>12. ASSUME NEW t \in Slaves
       PROVE  /\ Active(t)' => Active(t) /\ t # s
              /\ Over(t) => Over(t)'
              /\ pc'[t] = "start" <=> pc[t] = "start"
              /\ pc'[t] \in {"start", "rflush"} => pc'[t] = pc[t] /\ cur'[t] = cur[t]
              /\ \A f \in Message : Holds(t, f)' => Holds(t, f)
  <2>1. CASE t = s
    <3>1. ~Active(s)' /\ ~Over(s) /\ pc'[s] \notin {"start", "rflush"} /\ pc[s] # "start"
      BY SMTT(30), <1>2, <1>3 DEF Active, Over
    <3>2. \A f \in Message : Holds(s, f)' => Holds(s, f) BY <1>2, <3>1 DEF Holds
    <3> QED BY <2>1, <3>1, <3>2
  <2>2. CASE t # s BY <1>2, <1>3, <2>2 DEF Active, Over, Holds
  <2> QED BY <2>1, <2>2
<1>13. ASSUME NEW t \in Slaves, Active(t)' PROVE job[t].msg \in Pend'
  <2>1. Active(t) /\ t # s BY <1>12, <1>13
  <2>2. job[t].msg \in Pend BY <1>4, <2>1 DEF ActiveInv
  <2>3. job[t].msg # m
    <3>1. ~Over(t) /\ ~Over(s) BY <1>6, <2>1 DEF Over
    <3> QED BY <1>4, <1>5, <2>1, <3>1, OneJob
  <2> QED BY <1>10, <2>2, <2>3
<1>14. ASSUME NEW t \in Slaves, NEW f \in Message, Holds(t, f)' PROVE f \in Pend'
  <2>1. Holds(t, f) BY <1>12, <1>14
  <2>2. f \in Pend /\ Flush(f) BY <1>4, <2>1, HoldsFlush DEF HeldInv
  <2> QED BY <1>7, <1>10, <2>2 DEF Flush, Request
<1>15. Handling' => reader' = reader /\ rq' = rq /\ Len(pending) \in K
  <2> SUFFICES ASSUME Handling PROVE Len(pending) \in K BY <1>2 DEF Handling
  <2>1. pending # <<>> /\ rq = pending[Len(pending)] /\ rq # m BY <1>4, <1>5, <1>6 DEF RqInv
  <2>2. Len(pending) \in DOMAIN pending BY SMTT(30), <1>1, <2>1
  <2> QED BY <1>8, <1>9, <2>1, <2>2
<1>16. ASSUME NEW n \in Pend'
       PROVE  /\ Handling /\ rq = n => Handling'
              /\ reader = "reply" /\ rq.old = n.tag => reader' = "reply" /\ rq' = rq
              /\ \A t \in Slaves : Serving(t, n) => Serving(t, n)'
  <2>1. (Handling => Handling') /\ reader' = reader /\ rq' = rq BY <1>2 DEF Handling
  <2>2. ASSUME NEW t \in Slaves, Serving(t, n) PROVE Serving(t, n)'
    <3>1. t # s BY <1>5, <1>8, <2>2 DEF Serving
    <3> QED BY <1>2, <1>3, <2>2, <3>1 DEF Serving, Active
  <2> QED BY <2>1, <2>2
<1>17. job' = job /\ work' = work /\ head' = head BY <1>2
<1> QED BY <1>8, <1>11, <1>12, <1>13, <1>14, <1>15, <1>16, <1>17, Answering

\* A Tflush of a job is answered: nobody else has what it settles.
LEMMA RflushClient ==
  ASSUME SInv, ~down, ClientInv, NEW s \in Slaves, Rflush(s)
  PROVE  ClientInv'
<1>1. /\ pc \in [Slaves -> Labels] /\ pending \in Seq(Message) /\ Shape /\ cur \in [Slaves -> Message]
      /\ \A t \in Slaves : JobOK(t)
  BY DEF SInv, Shape, SlavesInv
<1>2. /\ pc[s] = "rflush" /\ Exreply(cur[s]) /\ Goto(s, "flushes") /\ cur' = [cur EXCEPT ![s] = NoMsg]
      /\ UNCHANGED <<reader, rq, head, work, job>>
  BY DEF Rflush, At, rvars, qvars
<1>3. pc'[s] = "flushes" /\ \A t \in Slaves \ {s} : pc'[t] = pc[t] /\ cur'[t] = cur[t] BY <1>1, <1>2 DEF Goto
<1>4. /\ PendInv /\ RqInv /\ HeadInv /\ ActiveInv /\ WorkOrder /\ HeldInv /\ FlushOrder BY DEF ClientInv
<1>5. PICK f \in Message : f = cur[s] BY <1>1
<1>6. Holds(s, f) BY <1>2, <1>5 DEF Holds
<1>7. f \in Pend /\ f.old = job[s].msg.tag /\ Flush(f) /\ ~Over(s) /\ \A n \in Waiting : n.tag # f.old
  BY <1>4, <1>6, HoldsFlush DEF HeldInv
<1>8. PICK p \in DOMAIN pending, K \in SUBSET DOMAIN pending :
           /\ pending[p] = f /\ Selected(pending', pending, K)
           /\ pending' \in Seq(Message) /\ lost' = lost \cap Elements(pending')
           /\ f \notin Pend' /\ Pend' \subseteq Pend
           /\ \A j \in DOMAIN pending : pending[j] \in Pend' <=> ~Gone(p, j)
           /\ \A j \in DOMAIN pending : j \in K <=> ~Gone(p, j)
  <2>1. Exreply(f) BY <1>2, <1>5
  <2> QED BY <1>1, <1>4, <1>7, <2>1, StillAwaited
<1>9. \A j \in DOMAIN pending : Gone(p, j) <=> j <= p /\ (pending[j].old = f.old \/ pending[j].tag = f.old)
  BY <1>7, <1>8 DEF Gone, Flush
<1>10. \A x \in Pend : x.old # f.old /\ x.tag # f.old => x \in Pend' BY <1>8, <1>9 DEF Pend, Elements
<1>11. Waiting \subseteq Pend'
  <2>1. \A x \in Waiting : Request(x) BY WaitingRequest
  <2> QED BY <1>4, <1>7, <1>10, <2>1 DEF HeadInv, Request, Flush
<1>12. ASSUME NEW t \in Slaves
       PROVE  /\ Active(t)' => Active(t) /\ t # s
              /\ Over(t) => Over(t)'
              /\ pc'[t] = "start" <=> pc[t] = "start"
              /\ pc'[t] \in {"start", "rflush"} => pc'[t] = pc[t] /\ cur'[t] = cur[t]
              /\ \A g \in Message : Holds(t, g)' => Holds(t, g)
              /\ \A g \in Message : Holds(t, g)' /\ t = s => g \in Elements(job[s].flush)
  <2>1. CASE t = s
    <3>1. ~Active(s)' /\ pc'[s] \notin {"start", "rflush"} /\ pc[s] # "start"
      BY SMTT(30), <1>2, <1>3 DEF Active
    <3>2. \A g \in Message : Holds(s, g)' => g \in Elements(job[s].flush) BY <1>2, <3>1 DEF Holds
    <3>3. \A g \in Message : Holds(s, g)' => Holds(s, g) BY <3>2 DEF Holds
    <3> QED BY <1>7, <2>1, <3>1, <3>2, <3>3
  <2>2. CASE t # s BY <1>2, <1>3, <2>2 DEF Active, Over, Holds
  <2> QED BY <2>1, <2>2
<1>13. ASSUME NEW t \in Slaves, Active(t)' PROVE job[t].msg \in Pend'
  <2>1. Active(t) /\ t # s BY <1>12, <1>13
  <2>2. job[t].msg \in Pend BY <1>4, <2>1 DEF ActiveInv
  <2>3. job[t].msg.tag # f.old
    <3>1. ~Over(t) BY <2>1 DEF Over
    <3> QED BY <1>4, <1>7, <2>1, <3>1, OneJob
  <2>4. Request(job[t].msg) BY SMTT(30), <1>1, <2>1 DEF JobOK, HasJob, Active
  <2> QED BY <1>7, <1>10, <2>2, <2>3, <2>4 DEF Request, Flush
<1>14. ASSUME NEW t \in Slaves, NEW g \in Message, Holds(t, g)' PROVE g \in Pend'
  <2>1. Holds(t, g) BY <1>12, <1>14
  <2>2. g \in Pend /\ Flush(g) /\ g.old = job[t].msg.tag /\ ~Over(t) BY <1>4, <2>1, HoldsFlush DEF HeldInv
  <2>3. CASE t # s
    <3>1. g.old # f.old BY <1>4, <1>7, <2>2, <2>3, OneJob
    <3>2. PICK j \in DOMAIN pending : pending[j] = g BY <2>2 DEF Pend, Elements
    <3>3. g.tag # f.old BY <1>4, <1>7, <1>8, <2>2, <3>2 DEF PendInv, Flush
    <3> QED BY <1>10, <2>2, <3>1, <3>3
  <2>4. CASE t = s
    <3>1. PICK i \in DOMAIN job[s].flush : job[s].flush[i] = g BY <1>12, <1>14, <2>4 DEF Elements
    <3>2. Precedes(f, g) BY <1>2, <1>4, <1>5, <3>1 DEF FlushOrder
    <3>3. PICK i1, j \in DOMAIN pending : i1 < j /\ pending[i1] = f /\ pending[j] = g BY <3>2 DEF Precedes
    <3>4. i1 = p BY <1>1, <1>4, <1>8, <3>3, PendUnique
    <3>5. ~(j <= p) BY SMTT(30), <1>1, <3>3, <3>4
    <3> QED BY <1>8, <1>9, <3>3, <3>5
  <2> QED BY <2>3, <2>4
<1>15. Handling' => reader' = reader /\ rq' = rq /\ Len(pending) \in K
  <2> SUFFICES ASSUME Handling PROVE Len(pending) \in K BY <1>2 DEF Handling
  <2>1. pending # <<>> /\ rq = pending[Len(pending)] /\ rq # f BY <1>4, <1>6 DEF RqInv
  <2>2. Len(pending) \in DOMAIN pending BY SMTT(30), <1>1, <2>1
  <2>3. Len(pending) # p BY <1>8, <2>1
  <2>4. ~(Len(pending) <= p) BY SMTT(30), <1>1, <2>3
  <2> QED BY <1>8, <1>9, <2>2, <2>4
<1>16. ASSUME NEW n \in Pend'
       PROVE  /\ Handling /\ rq = n => Handling'
              /\ reader = "reply" /\ rq.old = n.tag => reader' = "reply" /\ rq' = rq
              /\ \A t \in Slaves : Serving(t, n) => Serving(t, n)'
  <2>1. (Handling => Handling') /\ reader' = reader /\ rq' = rq BY <1>2 DEF Handling
  <2>2. n.tag # f.old
    <3>1. PICK j \in DOMAIN pending : pending[j] = n BY <1>8 DEF Pend, Elements
    <3>2. p < j => n.tag # f.old BY <1>4, <1>7, <1>8, <3>1 DEF PendInv, Flush
    <3>3. ~Gone(p, j) BY <1>8, <3>1
    <3>4. p < j \/ j <= p BY SMTT(30), <1>1
    <3> QED BY <1>9, <3>1, <3>2, <3>3, <3>4
  <2>3. ASSUME NEW t \in Slaves, Serving(t, n) PROVE Serving(t, n)'
    <3>1. t # s BY <1>7, <2>2, <2>3 DEF Serving
    <3> QED BY <1>2, <1>3, <2>3, <3>1 DEF Serving, Active
  <2> QED BY <2>1, <2>3
<1>17. job' = job /\ work' = work /\ head' = head BY <1>2
<1> QED BY <1>8, <1>11, <1>12, <1>13, <1>14, <1>15, <1>16, <1>17, Answering

\* The reader answers: what it settles is with nobody.
LEMMA ReaderReplyClient ==
  ASSUME SInv, ~down, ClientInv, ReaderReply
  PROVE  ClientInv'
<1>1. /\ pending \in Seq(Message) /\ Shape /\ rq \in Message /\ rq.tag # NoTag /\ reader = "reply"
      /\ \A t \in Slaves : JobOK(t)
  BY DEF SInv, Shape, SlavesInv, ReaderInv, ReaderReply
<1>2. /\ Exreply(rq) /\ reader' = "read" /\ UNCHANGED <<head, work, job, cur, pc>>
  BY DEF ReaderReply, qvars, svars
<1>3. Handling /\ ~Handling' BY SMTT(30), <1>1, <1>2 DEF Handling
<1>4. /\ PendInv /\ RqInv /\ HeadInv /\ ActiveInv /\ HeldInv /\ SearchInv BY DEF ClientInv
<1>5. /\ pending # <<>> /\ rq = pending[Len(pending)] /\ rq \notin Waiting
      /\ \A t \in Slaves : Active(t) => rq # job[t].msg
      /\ \A t \in Slaves : ~Holds(t, rq)
  BY <1>3, <1>4 DEF RqInv
<1>6. Len(pending) \in DOMAIN pending BY SMTT(30), <1>1, <1>5
<1>7. rq \in Pend BY <1>5, <1>6 DEF Pend, Elements
<1>8. PICK p \in DOMAIN pending, K \in SUBSET DOMAIN pending :
           /\ pending[p] = rq /\ Selected(pending', pending, K)
           /\ pending' \in Seq(Message) /\ lost' = lost \cap Elements(pending')
           /\ rq \notin Pend' /\ Pend' \subseteq Pend
           /\ \A j \in DOMAIN pending : pending[j] \in Pend' <=> ~Gone(p, j)
           /\ \A j \in DOMAIN pending : j \in K <=> ~Gone(p, j)
  BY <1>1, <1>2, <1>4, <1>7, StillAwaited
<1>9. p = Len(pending) BY <1>1, <1>4, <1>5, <1>6, <1>8, PendUnique
<1>10. \A j \in DOMAIN pending : j <= p BY SMTT(30), <1>1, <1>9
<1>11. \A x \in Pend : x # rq /\ (rq.old # NoTag => x.old # rq.old /\ x.tag # rq.old) => x \in Pend'
  <2> SUFFICES ASSUME NEW j \in DOMAIN pending, pending[j] # rq,
                      rq.old # NoTag => pending[j].old # rq.old /\ pending[j].tag # rq.old
               PROVE  ~Gone(p, j)
    BY <1>8 DEF Pend, Elements
  <2> QED BY <1>8 DEF Gone
<1>12. Waiting \subseteq Pend'
  <2>1. \A x \in Waiting : Request(x) BY WaitingRequest
  <2>2. rq.old # NoTag => \A x \in Waiting : x.tag # rq.old BY <1>1, <1>4 DEF SearchInv
  <2> QED BY <1>4, <1>5, <1>11, <2>1, <2>2 DEF HeadInv, Request
<1>13. \A t \in Slaves : (Active(t)' <=> Active(t)) /\ (Over(t)' <=> Over(t)) BY <1>2 DEF Active, Over
<1>14. \A t \in Slaves : \A f \in Message : Holds(t, f)' => Holds(t, f) BY <1>2 DEF Holds
<1>15. rq.old # NoTag => \A t \in Slaves : ~Over(t) => job[t].msg.tag # rq.old BY <1>1, <1>4 DEF SearchInv
<1>16. ASSUME NEW t \in Slaves, Active(t)' PROVE job[t].msg \in Pend'
  <2>1. Active(t) /\ ~Over(t) BY <1>13, <1>16 DEF Over
  <2>2. job[t].msg \in Pend /\ job[t].msg # rq BY <1>4, <1>5, <2>1 DEF ActiveInv
  <2>3. Request(job[t].msg) BY SMTT(30), <1>1, <2>1 DEF JobOK, HasJob, Active
  <2> QED BY <1>11, <1>15, <2>1, <2>2, <2>3 DEF Request
<1>17. ASSUME NEW t \in Slaves, NEW g \in Message, Holds(t, g)' PROVE g \in Pend'
  <2>1. Holds(t, g) BY <1>14, <1>17
  <2>2. g \in Pend /\ Flush(g) /\ g.old = job[t].msg.tag /\ ~Over(t) BY <1>4, <2>1, HoldsFlush DEF HeldInv
  <2>3. g # rq BY <1>5, <2>1
  <2>4. PICK j \in DOMAIN pending : pending[j] = g BY <2>2 DEF Pend, Elements
  <2>5. rq.old # NoTag => g.tag # rq.old BY <1>4, <1>8, <2>2, <2>4 DEF PendInv, Flush
  <2> QED BY <1>11, <1>15, <2>2, <2>3, <2>5
<1>18. ASSUME NEW n \in Pend', Request(n)
       PROVE  /\ Handling /\ rq = n => Handling'
              /\ reader = "reply" /\ rq.old = n.tag => reader' = "reply" /\ rq' = rq
              /\ \A t \in Slaves : Serving(t, n) => Serving(t, n)'
  <2>1. rq # n BY <1>8
  <2>2. rq.old # n.tag
    <3>1. PICK j \in DOMAIN pending : pending[j] = n BY <1>8 DEF Pend, Elements
    <3>2. ~Gone(p, j) BY <1>8, <3>1
    <3>3. rq.old # NoTag => rq.old # n.tag BY <1>8, <1>10, <3>1, <3>2 DEF Gone
    <3> QED BY <1>18, <3>3 DEF Request
  <2>3. \A t \in Slaves : Serving(t, n) => Serving(t, n)' BY <1>2, <1>13 DEF Serving
  <2> QED BY <2>1, <2>2, <2>3
<1>19. /\ job' = job /\ work' = work /\ head' = head
       /\ \A t \in Slaves : pc'[t] = pc[t] /\ cur'[t] = cur[t]
  BY <1>2
<1> QED BY <1>3, <1>8, <1>12, <1>13, <1>16, <1>17, <1>18, <1>19, Answering

\* A message is read: nobody else has it, and its tag is new.
LEMMA ReadClient ==
  ASSUME SInv, ~down, ClientInv, Exreadmsg
  PROVE  ClientInv'
<1>1. PICK m \in Sendable :
        /\ pending' = Append(pending, m) /\ rq' = m
        /\ reader' \in IF Client!IsFlush(m) THEN {"flush"} ELSE {"append", "reply"}
  BY DEF Exreadmsg, Client!Receive
<1>2. reader = "read" /\ UNCHANGED <<head, work, pc, job, cur, lost>> BY DEF Exreadmsg, qvars, svars
<1>3. pending \in Seq(Message) /\ job \in [Slaves -> Jobs] /\ cur \in [Slaves -> Message] BY DEF SInv, Shape
<1>4. /\ m \in Message /\ m.tag # NoTag /\ m.tag \notin Busy /\ (Client!IsFlush(m) <=> m.old # NoTag)
      /\ m.old # NoTag => m.old # m.tag /\ \A n \in Pend : n.old # NoTag => n.tag # m.old
  BY SMT DEF Sendable, Message, Client!IsFlush, Client!NoTag, Tags, Pend
<1>5. \A n \in Pend : m.tag # n.tag /\ m.tag # n.old
  BY <1>4 DEF Busy, Pend
<1>6. m \notin Pend BY <1>5
<1>7. PICK n \in Nat : n = Len(pending) /\ DOMAIN pending = 1 .. n BY SMTT(30), <1>3
<1>8. /\ DOMAIN pending' = DOMAIN pending \cup {n + 1} /\ pending'[n + 1] = m /\ Len(pending') = n + 1
      /\ \A i \in DOMAIN pending : pending'[i] = pending[i] /\ i < n + 1
      /\ Elements(pending') = Elements(pending) \cup {m} /\ pending' # <<>>
  <2>1. /\ DOMAIN pending' = DOMAIN pending \cup {n + 1} /\ pending'[n + 1] = m /\ Len(pending') = n + 1
        /\ \A i \in DOMAIN pending : pending'[i] = pending[i]
        /\ Elements(pending') = Elements(pending) \cup {m}
    BY SMTT(30), <1>1, <1>3, <1>4, <1>7, Appended
  <2>2. \A i \in DOMAIN pending : i < n + 1 BY SMTT(30), <1>7
  <2>3. pending' # <<>> BY SMTT(30), <1>1, <1>3, <1>4
  <2> QED BY <2>1, <2>2, <2>3
<1>9. \A x : x \in Pend' <=> x \in Pend \/ x = m BY <1>8 DEF Pend
<1>10. /\ PendInv /\ HeadInv /\ ActiveInv /\ WorkOrder /\ HeldInv /\ FlushOrder /\ FindInv BY DEF ClientInv
<1>11. /\ Waiting' = Waiting
       /\ \A t \in Slaves : (Active(t)' <=> Active(t)) /\ (Over(t)' <=> Over(t))
       /\ \A t \in Slaves : \A f : (Holds(t, f)' <=> Holds(t, f)) /\ (Serving(t, f)' <=> Serving(t, f))
  BY <1>2 DEF Waiting, Active, Over, Holds, Serving
<1>12. ~Handling /\ Handling'
  <2>1. reader' \in {"append", "flush", "reply"} BY SMTT(30), <1>1
  <2> QED BY SMTT(30), <1>2, <2>1 DEF Handling
<1>13. PendInv'
  <2>1. ASSUME NEW i \in DOMAIN pending', NEW j \in DOMAIN pending'
        PROVE  /\ pending'[i].tag # NoTag
               /\ pending'[i].tag = pending'[j].tag => i = j
               /\ i < j /\ pending'[i].old # NoTag => pending'[j].tag # pending'[i].old
               /\ pending'[i].old # NoTag /\ pending'[j].old # NoTag => pending'[j].tag # pending'[i].old
    <3>1. \A k \in DOMAIN pending : pending[k] \in Pend BY DEF Pend, Elements
    <3>2. CASE i \in DOMAIN pending /\ j \in DOMAIN pending BY <1>8, <1>10, <3>2 DEF PendInv
    <3>3. CASE i \in DOMAIN pending /\ j = n + 1
      <4>1. pending'[i] = pending[i] /\ pending'[j] = m /\ pending[i] \in Pend BY <1>8, <3>1, <3>3
      <4>2. pending[i].tag # NoTag BY <1>10, <3>3 DEF PendInv
      <4> QED BY <1>5, <4>1, <4>2
    <3>4. CASE i = n + 1 /\ j \in DOMAIN pending
      <4>1. pending'[i] = m /\ pending'[j] = pending[j] /\ pending[j] \in Pend /\ ~(i < j)
        <5>1. ~(n + 1 < j) BY SMTT(30), <1>7, <3>4
        <5> QED BY <1>8, <3>1, <3>4, <5>1
      <4> QED BY <1>4, <1>5, <4>1
    <3>5. CASE i = n + 1 /\ j = n + 1
      <4>1. ~(i < j) BY SMTT(30), <1>7, <3>5
      <4> QED BY <1>4, <1>8, <3>5, <4>1
    <3> QED BY <1>8, <3>2, <3>3, <3>4, <3>5
  <2> QED BY <2>1 DEF PendInv
<1>14. RqInv'
  <2>1. m \notin Waiting BY <1>6, <1>10 DEF HeadInv
  <2>2. \A t \in Slaves : Active(t) => m # job[t].msg BY <1>6, <1>10 DEF ActiveInv
  <2>3. \A t \in Slaves : ~Holds(t, m) BY <1>4, <1>6, <1>10 DEF HeldInv
  <2>4. ASSUME NEW t \in Slaves PROVE ~Holds(t, rq)' BY <1>1, <1>2, <2>3 DEF Holds
  <2>5. \A t \in Slaves : Active(t)' => rq' # job'[t].msg BY <1>1, <1>2, <1>11, <2>2
  <2>6. rq' = pending'[Len(pending')] BY <1>1, <1>8
  <2> QED BY <1>1, <1>8, <1>11, <2>1, <2>4, <2>5, <2>6 DEF RqInv
<1>15. HeadInv' BY <1>2, <1>9, <1>10, <1>11 DEF HeadInv
<1>16. ActiveInv' BY <1>2, <1>9, <1>10, <1>11 DEF ActiveInv
<1>17. WorkOrder'
  <2>1. \A t \in Elements(work) : job'[t].msg = job[t].msg BY <1>2
  <2>2. work \in Seq(Slaves) /\ work' = work BY <1>2 DEF SInv, Shape
  <2> QED BY <1>10, <1>11, <2>1, <2>2, WorkSame
<1>18. HeldInv' BY <1>2, <1>9, <1>10, <1>11 DEF HeldInv
<1>19. FlushOrder'
  <2>1. ASSUME NEW f, NEW g, Precedes(f, g)
        PROVE  \E a, b \in DOMAIN pending' : a < b /\ pending'[a] = f /\ pending'[b] = g
    <3>1. PICK a, b \in DOMAIN pending : a < b /\ pending[a] = f /\ pending[b] = g BY <2>1 DEF Precedes
    <3>2. /\ a \in DOMAIN pending' /\ b \in DOMAIN pending' /\ pending'[a] = f /\ pending'[b] = g
      BY <1>8, <3>1
    <3> QED BY <3>1, <3>2
  <2>2. ASSUME NEW t \in Slaves
        PROVE  /\ \A i, j \in DOMAIN job'[t].flush : i < j => \E a, b \in DOMAIN pending' :
                    a < b /\ pending'[a] = job'[t].flush[i] /\ pending'[b] = job'[t].flush[j]
               /\ pc'[t] = "rflush" => \A i \in DOMAIN job'[t].flush : \E a, b \in DOMAIN pending' :
                    a < b /\ pending'[a] = cur'[t] /\ pending'[b] = job'[t].flush[i]
    <3>1. job'[t].flush = job[t].flush /\ cur'[t] = cur[t] /\ pc'[t] = pc[t] BY <1>2
    <3>2. /\ \A i, j \in DOMAIN job[t].flush : i < j => Precedes(job[t].flush[i], job[t].flush[j])
          /\ pc[t] = "rflush" => \A i \in DOMAIN job[t].flush : Precedes(cur[t], job[t].flush[i])
      BY <1>10 DEF FlushOrder
    <3> QED BY SMTT(30), <2>1, <3>1, <3>2
  <2> QED BY <2>2 DEF FlushOrder, Precedes
<1>20. SearchInv'
  <2>1. reader' # "flushwork" /\ (reader' = "reply" => m.old = NoTag) BY SMTT(30), <1>1, <1>4
  <2> QED BY <1>1, <2>1 DEF SearchInv
<1>21. FindInv'
  <2>1. lost' \subseteq Pend' BY <1>2, <1>9, <1>10 DEF FindInv
  <2>2. ASSUME NEW x \in Pend' \ lost', Request(x)
        PROVE  \/ Handling' /\ rq' = x
               \/ x \in Waiting'
               \/ reader' = "reply" /\ rq'.old = x.tag
               \/ \E t \in Slaves : Serving(t, x)'
    <3>1. reader # "reply" BY SMTT(30), <1>2
    <3>2. CASE x \in Pend BY <1>2, <1>10, <1>11, <1>12, <2>2, <3>1, <3>2 DEF FindInv
    <3> QED BY <1>1, <1>9, <1>12, <2>2, <3>2
  <2> QED BY <2>1, <2>2 DEF FindInv
<1> QED BY <1>13, <1>14, <1>15, <1>16, <1>17, <1>18, <1>19, <1>20, <1>21 DEF ClientInv

\* The request is linked into exq, or lost.
LEMMA EnqueueClient ==
  ASSUME SInv, ~down, ClientInv, Enqueue
  PROVE  ClientInv'
<1>1. /\ pending \in Seq(Message) /\ head \in Seq(Message) /\ rq \in Message /\ Request(rq)
      /\ \A t \in Slaves : pc[t] # "start"
  <2>1. exql = None /\ reader = "append" BY DEF Enqueue
  <2>2. \A t \in Slaves : exql # t BY SMTT(30), <2>1
  <2> QED BY <2>1, <2>2 DEF SInv, Shape, ReaderInv, SlavesInv, SlaveOK
<1>2. /\ reader = "append" /\ reader' = "spawn" /\ UNCHANGED <<pending, work, pc, job, cur>>
      /\ head' = (IF head = <<>> \/ tailok THEN Append(head, rq) ELSE head)
      /\ tailok' = (head = <<>> \/ tailok)
      /\ lost' = (IF tailok' THEN lost ELSE lost \cup ({rq} \cap Elements(pending)))
  BY DEF Enqueue, svars
<1>3. /\ PendInv /\ RqInv /\ HeadInv /\ ActiveInv /\ WorkOrder /\ HeldInv /\ FlushOrder /\ FindInv BY DEF ClientInv
<1>4. Handling /\ ~Handling' BY SMTT(30), <1>2 DEF Handling
<1>5. /\ pending # <<>> /\ rq = pending[Len(pending)] /\ rq \notin Waiting
      /\ \A t \in Slaves : Active(t) => rq # job[t].msg
      /\ \A t \in Slaves : ~Holds(t, rq)
  BY <1>3, <1>4 DEF RqInv
<1>6. Len(pending) \in DOMAIN pending /\ \A i \in DOMAIN pending : i < Len(pending) \/ i = Len(pending)
  BY SMTT(30), <1>1, <1>5
<1>7. rq \in Pend /\ Pend' = Pend BY <1>2, <1>5, <1>6 DEF Pend, Elements
<1>8. (\A m : m \in Waiting <=> m \in Elements(head)) /\ (\A m : m \in Waiting' <=> m \in Elements(head'))
  BY <1>1, <1>2 DEF Waiting
<1>9. /\ \A m : m \in Waiting' => m \in Waiting \/ m = rq
      /\ Waiting \subseteq Waiting'
      /\ rq \in Waiting' \/ rq \in lost'
      /\ lost \subseteq lost' /\ lost' \subseteq Pend
      /\ \A i, j \in DOMAIN head' : head'[i] = head'[j] => i = j
  <2>0. lost \subseteq Pend BY <1>3 DEF FindInv
  <2>1. CASE head = <<>> \/ tailok
    <3>1. head' = Append(head, rq) /\ lost' = lost BY <1>2, <2>1
    <3>2. PICK n \in Nat : n = Len(head) /\ DOMAIN head = 1 .. n BY SMTT(30), <1>1
    <3>3. /\ Elements(head') = Elements(head) \cup {rq} /\ DOMAIN head' = DOMAIN head \cup {n + 1}
          /\ head'[n + 1] = rq /\ \A i \in DOMAIN head : head'[i] = head[i]
      BY SMTT(30), <1>1, <3>1, <3>2, Appended
    <3>4. \A i \in DOMAIN head : head[i] # rq BY <1>5, <1>8 DEF Elements
    <3>5. \A i, j \in DOMAIN head' : head'[i] = head'[j] => i = j BY <1>3, <3>3, <3>4 DEF HeadInv
    <3> QED BY <1>8, <2>0, <3>1, <3>3, <3>5
  <2>2. CASE ~(head = <<>> \/ tailok)
    <3>1. head' = head /\ lost' = lost \cup ({rq} \cap Elements(pending)) BY <1>2, <2>2
    <3>2. \A i, j \in DOMAIN head' : head'[i] = head'[j] => i = j BY <1>3, <3>1 DEF HeadInv
    <3>3. rq \in lost' /\ lost \subseteq lost' /\ lost' \subseteq Pend BY <1>7, <2>0, <3>1 DEF Pend
    <3> QED BY <1>8, <3>1, <3>2, <3>3
  <2> QED BY <2>1, <2>2
<1>10. /\ \A t \in Slaves : (Active(t)' <=> Active(t)) /\ (Over(t)' <=> Over(t))
       /\ \A t \in Slaves : \A f : (Holds(t, f)' <=> Holds(t, f)) /\ (Serving(t, f)' <=> Serving(t, f))
  BY <1>2 DEF Active, Over, Holds, Serving
<1>11. PendInv' BY <1>2, <1>3 DEF PendInv
<1>12. RqInv' BY <1>4 DEF RqInv
<1>13. HeadInv' BY <1>1, <1>2, <1>3, <1>7, <1>9 DEF HeadInv
<1>14. ActiveInv' BY <1>2, <1>3, <1>5, <1>7, <1>9, <1>10 DEF ActiveInv
<1>15. WorkOrder'
  <2>1. \A t \in Elements(work) : job'[t].msg = job[t].msg BY <1>2
  <2>2. work \in Seq(Slaves) /\ work' = work BY <1>2 DEF SInv, Shape
  <2> QED BY <1>3, <1>10, <2>1, <2>2, WorkSame
<1>16. HeldInv'
  <2>1. ASSUME NEW t \in Slaves, NEW f \in Message, Holds(t, f) PROVE f.old # rq.tag
    <3>1. f \in Pend /\ Flush(f) BY <1>3, <2>1, HoldsFlush DEF HeldInv
    <3>2. PICK i \in DOMAIN pending : pending[i] = f BY <3>1 DEF Pend, Elements
    <3>3. i # Len(pending) BY <1>5, <2>1, <3>2
    <3> QED BY <1>3, <1>5, <1>6, <3>1, <3>2, <3>3 DEF PendInv, Flush
  <2> QED BY <1>2, <1>3, <1>7, <1>9, <1>10, <2>1 DEF HeldInv
<1>17. FlushOrder'
  <2>1. ASSUME NEW t \in Slaves
        PROVE  /\ \A i, j \in DOMAIN job'[t].flush : i < j => Precedes(job'[t].flush[i], job'[t].flush[j])
               /\ pc'[t] = "rflush" => \A i \in DOMAIN job'[t].flush : Precedes(cur'[t], job'[t].flush[i])
    BY <1>2, <1>3 DEF FlushOrder
  <2>2. pending' = pending BY <1>2
  <2> QED BY <2>1, <2>2, OrderSame
<1>18. SearchInv'
  <2>1. reader' # "flushwork" /\ reader' # "reply" BY SMTT(30), <1>2
  <2> QED BY <2>1 DEF SearchInv
<1>19. FindInv'
  <2>1. ASSUME NEW x \in Pend' \ lost', Request(x)
        PROVE  x \in Waiting' \/ \E t \in Slaves : Serving(t, x)'
    <3>1. reader # "reply" BY SMTT(30), <1>2
    <3>2. x \in Pend \ lost /\ (rq = x => x \in Waiting') BY <1>7, <1>9, <2>1
    <3> QED BY <1>3, <1>9, <1>10, <2>1, <3>1, <3>2 DEF FindInv
  <2> QED BY <1>7, <1>9, <2>1 DEF FindInv
<1> QED BY <1>11, <1>12, <1>13, <1>14, <1>15, <1>16, <1>17, <1>18, <1>19 DEF ClientInv

\* The Tflush is left with the job s, after the others that wait for it.
LEMMA FlushLeft ==
  ASSUME SInv, ~down, ClientInv, reader = "flushwork", reader' = "read",
         UNCHANGED <<pending, lost, head, work, pc, cur>>,
         NEW i \in DOMAIN work, NEW s \in Slaves, s = work[i],
         job' = [job EXCEPT ![s].flush = Append(@, rq)], job[s].msg.tag = rq.old,
         \A j \in DOMAIN work : j < i => job[work[j]].msg.tag # rq.old,
         \A m \in Waiting : m.tag # rq.old
  PROVE  ClientInv'
<1>1. /\ pending \in Seq(Message) /\ job \in [Slaves -> Jobs] /\ work \in Seq(Slaves) /\ rq \in Message /\ Flush(rq)
      /\ cur \in [Slaves -> Message]
  <2>1. reader \in {"flush", "flushwork"} BY SMT
  <2> QED BY <2>1 DEF SInv, Shape, ReaderInv
<1>2. /\ PendInv /\ RqInv /\ HeadInv /\ ActiveInv /\ WorkOrder /\ HeldInv /\ FlushOrder /\ FindInv
  BY DEF ClientInv
<1>3. Handling /\ ~Handling' BY SMT DEF Handling
<1>4. /\ pending # <<>> /\ rq = pending[Len(pending)] /\ rq \notin Waiting
      /\ \A t \in Slaves : Active(t) => rq # job[t].msg
      /\ \A t \in Slaves : ~Holds(t, rq)
  BY <1>2, <1>3 DEF RqInv
<1>5. Len(pending) \in DOMAIN pending /\ \A j \in DOMAIN pending : j < Len(pending) \/ j = Len(pending)
  BY SMTT(30), <1>1, <1>4
<1>6. rq \in Pend /\ Pend' = Pend BY <1>4, <1>5 DEF Pend, Elements
<1>7. PICK q : q = job[s].flush OBVIOUS
<1>8. /\ q \in Seq(Message) /\ job'[s].msg = job[s].msg /\ job'[s].flush = Append(q, rq)
      /\ \A t \in Slaves \ {s} : job'[t] = job[t]
  <2>1. job' = [job EXCEPT ![s] = [job[s] EXCEPT !.flush = Append(job[s].flush, rq)]] BY SMT, <1>1
  <2>2. PICK j : j = [job[s] EXCEPT !.flush = Append(job[s].flush, rq)] OBVIOUS
  <2>3. job[s] \in Jobs BY <1>1
  <2>4. j.flush = Append(job[s].flush, rq) /\ j.msg = job[s].msg /\ job[s].flush \in Seq(Message) BY SMTT(30), <2>2, <2>3 DEF Jobs
  <2>5. job'[s] = j /\ \A t \in Slaves \ {s} : job'[t] = job[t] BY <1>1, <2>1, <2>2
  <2> QED BY <1>7, <2>4, <2>5
<1>9. PICK n \in Nat : n = Len(q) /\ DOMAIN q = 1 .. n BY SMTT(30), <1>8
<1>10. /\ DOMAIN job'[s].flush = DOMAIN q \cup {n + 1} /\ job'[s].flush[n + 1] = rq
       /\ \A j \in DOMAIN q : job'[s].flush[j] = q[j]
       /\ Elements(job'[s].flush) = Elements(q) \cup {rq} /\ job'[s].flush # <<>>
  <2>1. /\ DOMAIN Append(q, rq) = DOMAIN q \cup {n + 1} /\ Append(q, rq)[n + 1] = rq
        /\ \A j \in DOMAIN q : Append(q, rq)[j] = q[j]
        /\ Elements(Append(q, rq)) = Elements(q) \cup {rq}
    BY SMTT(30), <1>1, <1>8, <1>9, Appended
  <2>2. Append(q, rq) # <<>>
    <3>1. n + 1 \in DOMAIN Append(q, rq) BY <2>1
    <3> QED BY SMT, <3>1
  <2> QED BY <1>8, <2>1, <2>2
<1>11. /\ Active(s)' <=> Active(s)
       /\ \A f : Holds(s, f)' <=> Holds(s, f) \/ f = rq
       /\ \A m : Serving(s, m) => Serving(s, m)'
  <2>1. Active(s)' <=> Active(s) BY DEF Active
  <2>2. \A f : Holds(s, f)' <=> Holds(s, f) \/ f = rq
    <3>1. \A f : Holds(s, f)' <=> f \in Elements(job'[s].flush) \/ (pc[s] = "rflush" /\ cur[s] = f) BY DEF Holds
    <3>2. \A f : Holds(s, f) <=> f \in Elements(q) \/ (pc[s] = "rflush" /\ cur[s] = f) BY <1>7 DEF Holds
    <3> QED BY <1>10, <3>1, <3>2
  <2>3. \A m : Serving(s, m) => Serving(s, m)' BY <1>8, <1>10, <2>1 DEF Serving
  <2> QED BY <2>1, <2>2, <2>3
<1>12. ASSUME NEW t \in Slaves \ {s}
       PROVE  /\ Active(t)' <=> Active(t)
              /\ Over(t)' <=> Over(t)
              /\ \A f : Holds(t, f)' <=> Holds(t, f)
              /\ \A m : Serving(t, m)' <=> Serving(t, m)
  BY <1>8 DEF Active, Over, Holds, Serving
<1>13. \A t \in Slaves : job'[t].msg = job[t].msg BY <1>8
<1>14. PendInv' BY <1>2 DEF PendInv
<1>15. RqInv' BY <1>3 DEF RqInv
<1>16. Waiting' = Waiting /\ HeadInv'
  <2>1. \A t \in Slaves : pc'[t] = "start" <=> pc[t] = "start" OBVIOUS
  <2> QED BY <1>2, <2>1, WaitingSame
<1>17. ActiveInv'
  <2>1. ASSUME NEW t \in Slaves, Active(t)' PROVE job'[t].msg \in Pend' /\ job'[t].msg \notin Waiting'
    <3>1. Active(t) BY <1>11, <1>12, <2>1
    <3>2. job[t].msg \in Pend /\ job[t].msg \notin Waiting BY <1>2, <3>1 DEF ActiveInv
    <3>3. job'[t].msg = job[t].msg BY <1>13
    <3> QED BY SMT, <1>6, <1>16, <3>2, <3>3
  <2> QED BY <2>1 DEF ActiveInv
<1>18. WorkOrder'
  <2>1. \A j \in DOMAIN work : work[j] \in Slaves BY SMTT(30), <1>1
  <2> SUFFICES ASSUME NEW j \in DOMAIN work, NEW k \in DOMAIN work, j < k,
                      job'[work[j]].msg.tag = job'[work[k]].msg.tag
               PROVE  Over(work[k])'
    BY DEF WorkOrder
  <2>2. PICK a, b \in Slaves : a = work[j] /\ b = work[k] BY <2>1
  <2>3. job[a].msg.tag = job[b].msg.tag BY <1>13, <2>2
  <2>4. Over(b) BY <1>2, <2>2, <2>3 DEF WorkOrder
  <2>5. b # s
    <3> SUFFICES ASSUME b = s PROVE FALSE BY SMTT(30)
    <3>1. k = i BY <2>2 DEF SInv, WorkInv
    <3> QED BY <2>2, <2>3, <3>1
  <2>6. Over(b)' /\ work'[k] = b BY <1>12, <2>2, <2>4, <2>5
  <2> QED BY <2>6 DEF Over, Active
<1>19. HeldInv'
  <2>1. ASSUME NEW t \in Slaves, NEW f \in Message, Holds(t, f)'
        PROVE  f \in Pend' /\ f.old = job'[t].msg.tag /\ \A m \in Waiting' : m.tag # f.old
    <3>1. CASE Holds(t, f) BY <1>2, <1>6, <1>13, <1>16, <3>1 DEF HeldInv
    <3>2. CASE t = s /\ f = rq BY <1>6, <1>8, <1>16, <3>2
    <3> QED BY <1>11, <1>12, <2>1, <3>1, <3>2
  <2> QED BY <2>1 DEF HeldInv
<1>20. FlushOrder'
  <2>1. ASSUME NEW f \in Message, Holds(s, f) PROVE Precedes(f, rq)
    <3>1. f \in Pend BY <1>2, <2>1 DEF HeldInv
    <3>2. PICK j \in DOMAIN pending : pending[j] = f BY <3>1 DEF Pend, Elements
    <3>3. j # Len(pending) BY <1>4, <2>1, <3>2
    <3> QED BY <1>4, <1>5, <3>2, <3>3 DEF Precedes
  <2>2. ASSUME NEW t \in Slaves
        PROVE  /\ \A j, k \in DOMAIN job'[t].flush : j < k => Precedes(job'[t].flush[j], job'[t].flush[k])
               /\ pc'[t] = "rflush" => \A j \in DOMAIN job'[t].flush : Precedes(cur'[t], job'[t].flush[j])
    <3>1. CASE t # s BY <1>2, <1>8, <3>1 DEF FlushOrder
    <3>2. CASE t = s
      <4>0. \A j \in DOMAIN q : q[j] \in Message /\ Holds(s, q[j])
        <5>1. \A j \in DOMAIN q : q[j] \in Message BY SMTT(30), <1>8
        <5> QED BY <1>7, <5>1 DEF Holds, Elements
      <4>1. /\ \A j, k \in DOMAIN q : j < k => Precedes(q[j], q[k])
            /\ pc[s] = "rflush" => \A j \in DOMAIN q : Precedes(cur[s], q[j])
        BY <1>2, <1>7 DEF FlushOrder
      <4>2. \A j, k \in DOMAIN q \cup {n + 1} : j < k => j \in DOMAIN q /\ (k \in DOMAIN q \/ k = n + 1) BY SMTT(30), <1>9
      <4>3. ASSUME NEW j \in DOMAIN job'[s].flush, NEW k \in DOMAIN job'[s].flush, j < k
            PROVE  Precedes(job'[s].flush[j], job'[s].flush[k])
        <5>1. j \in DOMAIN q /\ (k \in DOMAIN q \/ k = n + 1) BY <1>10, <4>2, <4>3
        <5>2. CASE k \in DOMAIN q
          <6>1. job'[s].flush[j] = q[j] /\ job'[s].flush[k] = q[k] BY <1>10, <5>1, <5>2
          <6>2. Precedes(q[j], q[k]) BY <4>1, <4>3, <5>1, <5>2
          <6> QED BY <6>1, <6>2
        <5>3. CASE k = n + 1
          <6>1. job'[s].flush[j] = q[j] /\ job'[s].flush[k] = rq BY <1>10, <5>1, <5>3
          <6>2. Precedes(q[j], rq) BY <2>1, <4>0, <5>1
          <6> QED BY <6>1, <6>2
        <5> QED BY <5>1, <5>2, <5>3
      <4>4. ASSUME pc[s] = "rflush", NEW j \in DOMAIN job'[s].flush PROVE Precedes(cur[s], job'[s].flush[j])
        <5>1. CASE j \in DOMAIN q
          <6>1. job'[s].flush[j] = q[j] BY <1>10, <5>1
          <6>2. Precedes(cur[s], q[j]) BY <4>1, <4>4, <5>1
          <6> QED BY <6>1, <6>2
        <5>2. CASE j = n + 1
          <6>1. Holds(s, cur[s]) /\ cur[s] \in Message BY <1>1, <4>4 DEF Holds
          <6>2. Precedes(cur[s], rq) BY <2>1, <6>1
          <6> QED BY <1>10, <5>2, <6>2
        <5> QED BY <1>10, <5>1, <5>2
      <4> QED BY <3>2, <4>3, <4>4
    <3> QED BY <3>1, <3>2
  <2> QED BY <2>2, OrderSame
<1>21. SearchInv'
  <2>1. reader' # "flushwork" /\ reader' # "reply" BY SMTT(30)
  <2> QED BY <2>1 DEF SearchInv
<1>22. FindInv'
  <2>1. ASSUME NEW x \in Pend' \ lost', Request(x)
        PROVE  x \in Waiting' \/ \E t \in Slaves : Serving(t, x)'
    <3>1. reader # "reply" BY SMTT(30)
    <3>2. rq # x BY <1>1, <2>1 DEF Request, Flush
    <3>3. x \in Waiting \/ \E t \in Slaves : Serving(t, x) BY <1>2, <1>6, <2>1, <3>1, <3>2 DEF FindInv
    <3> QED BY <1>11, <1>12, <1>16, <3>3
  <2> QED BY <1>2, <1>6, <2>1 DEF FindInv
<1> QED BY <1>14, <1>15, <1>16, <1>17, <1>18, <1>19, <1>20, <1>21, <1>22 DEF ClientInv

\* exflushed goes on to search fs->work, or to answer: it has unlinked the
\* request, or has not met it.
LEMMA SearchClient ==
  ASSUME SInv, ~down, ClientInv, UNCHANGED <<rq, pending, lost, work, pc, job, cur>>, Flush(rq),
         reader \in {"flush", "flushwork"}, reader' \in {"flushwork", "reply"},
         HeadInv', SearchInv', Waiting' \subseteq Waiting,
         \A m \in Waiting : m \in Waiting' \/ (reader' = "reply" /\ rq.old = m.tag)
  PROVE  ClientInv'
<1>1. /\ PendInv /\ RqInv /\ HeadInv /\ ActiveInv /\ WorkOrder /\ HeldInv /\ FlushOrder /\ FindInv BY DEF ClientInv
<1>2. Handling /\ Handling' BY SMTT(30) DEF Handling
<1>3. /\ pending # <<>> /\ rq = pending[Len(pending)] /\ rq \notin Waiting
      /\ \A t \in Slaves : Active(t) => rq # job[t].msg
      /\ \A t \in Slaves : ~Holds(t, rq)
  BY <1>1, <1>2 DEF RqInv
<1>4. /\ \A t \in Slaves : (Active(t)' <=> Active(t)) /\ (Over(t)' <=> Over(t))
      /\ \A t \in Slaves : \A f : (Holds(t, f)' <=> Holds(t, f)) /\ (Serving(t, f)' <=> Serving(t, f))
      /\ Pend' = Pend
  BY DEF Active, Over, Holds, Serving, Pend
<1>5. PendInv' BY <1>1 DEF PendInv
<1>6. RqInv'
  <2>1. ASSUME NEW t \in Slaves PROVE ~Holds(t, rq)' BY <1>3 DEF Holds
  <2> QED BY <1>3, <1>4, <2>1 DEF RqInv
<1>7. ActiveInv' BY <1>1, <1>4 DEF ActiveInv
<1>8. WorkOrder'
  <2>1. work \in Seq(Slaves) /\ \A t \in Elements(work) : job'[t].msg = job[t].msg BY DEF SInv, Shape
  <2> QED BY <1>1, <1>4, <2>1, WorkSame
<1>9. HeldInv' BY <1>1, <1>4 DEF HeldInv
<1>10. FlushOrder'
  <2>1. ASSUME NEW t \in Slaves
        PROVE  /\ \A i, j \in DOMAIN job'[t].flush : i < j => Precedes(job'[t].flush[i], job'[t].flush[j])
               /\ pc'[t] = "rflush" => \A i \in DOMAIN job'[t].flush : Precedes(cur'[t], job'[t].flush[i])
    BY <1>1 DEF FlushOrder
  <2> QED BY <2>1, OrderSame
<1>11. FindInv'
  <2>1. reader # "reply" BY SMTT(30)
  <2>2. ASSUME NEW x \in Pend' \ lost', Request(x)
        PROVE  \/ Handling' /\ rq' = x
               \/ x \in Waiting'
               \/ reader' = "reply" /\ rq'.old = x.tag
               \/ \E t \in Slaves : Serving(t, x)'
    <3>1. \/ rq = x
          \/ x \in Waiting
          \/ \E t \in Slaves : Serving(t, x)
      BY <1>1, <1>4, <2>1, <2>2 DEF FindInv
    <3> QED BY <1>2, <1>4, <3>1
  <2> QED BY <1>1, <1>4, <2>2 DEF FindInv
<1> QED BY <1>5, <1>6, <1>7, <1>8, <1>9, <1>10, <1>11 DEF ClientInv

\* exflushed searches exq.
LEMMA FlushWaitingClient ==
  ASSUME SInv, ~down, ClientInv, FlushWaiting
  PROVE  ClientInv'
<1>1. reader = "flush" /\ exql = None /\ UNCHANGED <<rq, pending, lost, work, pc, job, cur>>
  BY DEF FlushWaiting, svars, cvars
<1>2. /\ pending \in Seq(Message) /\ head \in Seq(Message) /\ Flush(rq) /\ \A t \in Slaves : pc[t] # "start"
  <2>1. \A t \in Slaves : exql # t BY SMTT(30), <1>1
  <2>2. reader \in {"flush", "flushwork"} BY SMTT(30), <1>1
  <2> QED BY <2>1, <2>2 DEF SInv, Shape, ReaderInv, SlavesInv, SlaveOK
<1>3. PendInv /\ HeadInv BY DEF ClientInv
<1>4. (\A m : m \in Waiting <=> m \in Elements(head)) /\ (\A m : m \in Waiting' <=> m \in Elements(head'))
  BY <1>1, <1>2 DEF Waiting
<1>5. PICK found : found = {i \in DOMAIN head : head[i].tag = rq.old} OBVIOUS
<1>6. CASE found = {}
  <2>1. reader' = "flushwork" /\ head' = head BY <1>5, <1>6 DEF FlushWaiting, qvars
  <2>2. \A t \in Slaves : pc'[t] = "start" <=> pc[t] = "start" BY <1>1
  <2>3. Waiting' = Waiting /\ HeadInv' BY <1>1, <1>3, <2>1, <2>2, WaitingSame
  <2>4. \A m \in Waiting : m.tag # rq.old
    <3>1. \A i \in DOMAIN head : head[i].tag # rq.old BY <1>5, <1>6
    <3>2. \A m \in Elements(head) : m.tag # rq.old BY <3>1 DEF Elements
    <3> QED BY <1>4, <3>2
  <2>5. SearchInv'
    <3>1. reader' # "reply" BY SMTT(30), <2>1
    <3> QED BY <1>1, <2>3, <2>4, <3>1 DEF SearchInv
  <2>6. reader \in {"flush", "flushwork"} /\ reader' \in {"flushwork", "reply"} BY SMTT(30), <1>1, <2>1
  <2> QED BY <1>1, <1>2, <2>3, <2>5, <2>6, SearchClient
<1>7. CASE found # {}
  <2>1. PICK i \in found : head' = Without(head, i) BY <1>5, <1>7 DEF FlushWaiting
  <2>2. reader' = "reply" BY <1>5, <1>7 DEF FlushWaiting
  <2>3. i \in DOMAIN head /\ head[i].tag = rq.old /\ head[i] \in Waiting BY <1>4, <1>5, <2>1 DEF Elements
  <2>4. /\ Elements(head') \subseteq Elements(head)
        /\ \A x \in Elements(head) : x # head[i] => x \in Elements(head')
        /\ head[i] \notin Elements(head')
        /\ \A j, k \in DOMAIN head' : head'[j] = head'[k] => j = k
    <3>1. \A j, k \in DOMAIN head : head[j] = head[k] => j = k BY <1>3 DEF HeadInv
    <3>2. /\ Elements(Without(head, i)) \subseteq Elements(head)
          /\ \A x \in Elements(head) : x # head[i] => x \in Elements(Without(head, i))
          /\ head[i] \notin Elements(Without(head, i))
          /\ \A j, k \in DOMAIN Without(head, i) : Without(head, i)[j] = Without(head, i)[k] => j = k
      BY <1>2, <2>3, <3>1, Withouts
    <3> QED BY <2>1, <3>2
  <2>5. /\ Waiting' \subseteq Waiting /\ \A x \in Waiting : x # head[i] => x \in Waiting'
        /\ head[i] \notin Waiting'
    BY <1>4, <2>4
  <2>6. Pend' = Pend BY <1>1 DEF Pend
  <2>7. HeadInv' BY <1>1, <1>2, <1>3, <2>4, <2>5, <2>6 DEF HeadInv
  <2>8. \A m \in Waiting' : m.tag # rq.old BY <1>2, <1>3, <2>3, <2>5, PendUnique DEF HeadInv
  <2>9. \A t \in Slaves : ~Over(t) => job[t].msg.tag # rq.old BY <2>3, WaitingOver
  <2>10. \A t \in Slaves : Over(t)' <=> Over(t) BY <1>1 DEF Over, Active
  <2>11. SearchInv' BY <1>1, <2>8, <2>9, <2>10 DEF SearchInv
  <2>12. reader \in {"flush", "flushwork"} /\ reader' \in {"flushwork", "reply"} BY SMTT(30), <1>1, <2>2
  <2>13. \A m \in Waiting : m \in Waiting' \/ (reader' = "reply" /\ rq.old = m.tag) BY <2>2, <2>3, <2>5
  <2> QED BY <1>1, <1>2, <2>5, <2>7, <2>11, <2>12, <2>13, SearchClient
<1> QED BY <1>6, <1>7

\* exflushed searches fs->work, and leaves the Tflush with the newest job that
\* has the tag, unless that has finished: all older ones are over.
LEMMA FlushWorkClient ==
  ASSUME SInv, ~down, ClientInv, FlushWork
  PROVE  ClientInv'
<1>1. reader = "flushwork" /\ UNCHANGED <<pending, lost, head, work, pc, cur>>
  BY DEF FlushWork, qvars, cvars
<1>2. /\ pending \in Seq(Message) /\ job \in [Slaves -> Jobs] /\ work \in Seq(Slaves) /\ rq \in Message /\ Flush(rq)
      /\ cur \in [Slaves -> Message]
  <2>1. reader \in {"flush", "flushwork"} BY SMTT(30), <1>1
  <2> QED BY <2>1 DEF SInv, Shape, ReaderInv
<1>3. /\ PendInv /\ RqInv /\ HeadInv /\ ActiveInv /\ WorkOrder /\ HeldInv /\ FlushOrder /\ SearchInv /\ FindInv
  BY DEF ClientInv
<1>4. Waiting' = Waiting /\ HeadInv'
  <2>1. \A t \in Slaves : pc'[t] = "start" <=> pc[t] = "start" BY <1>1
  <2> QED BY <1>1, <1>3, <2>1, WaitingSame
<1>5. PICK found : found = {i \in DOMAIN work : job[work[i]].msg.tag = rq.old} OBVIOUS
<1>6. \A m \in Waiting : m.tag # rq.old BY <1>1, <1>3 DEF SearchInv
<1>7. ASSUME reader' = "reply", UNCHANGED <<rq, job>>, \A t \in Slaves : ~Over(t) => job[t].msg.tag # rq.old
      PROVE  ClientInv'
  <2>1. \A t \in Slaves : Over(t)' <=> Over(t) BY <1>1, <1>7 DEF Over, Active
  <2>2. SearchInv' BY <1>4, <1>6, <1>7, <2>1 DEF SearchInv
  <2>3. reader \in {"flush", "flushwork"} /\ reader' \in {"flushwork", "reply"} BY SMTT(30), <1>1, <1>7
  <2>4. UNCHANGED <<rq, pending, lost, work, pc, job, cur>> BY <1>1, <1>7
  <2> QED BY <1>2, <1>4, <2>2, <2>3, <2>4, SearchClient
<1>8. ASSUME NEW t \in Slaves, ~Over(t), job[t].msg.tag = rq.old PROVE \E j \in found : work[j] = t
  <2>1. t \in Elements(work) BY <1>8, Busied
  <2> QED BY <1>5, <1>8, <2>1 DEF Elements
<1>9. CASE found = {}
  <2>1. reader' = "reply" /\ UNCHANGED <<rq, job>> BY <1>5, <1>9 DEF FlushWork
  <2> QED BY <1>7, <1>8, <1>9, <2>1
<1>10. CASE found # {}
  <2>1. PICK i \in found : IsFirst(i, found) /\ FlushJob(work[i]) BY <1>5, <1>10 DEF FlushWork
  <2>2. i \in DOMAIN work /\ job[work[i]].msg.tag = rq.old BY <1>5, <2>1
  <2>3. work[i] \in Slaves BY SMTT(30), <1>2, <2>2
  <2>4. PICK s \in Slaves : s = work[i] BY <2>3
  <2>5. \A j \in found : ~(j < i)
    <3>1. \A j \in DOMAIN work : j \in Nat BY SMTT(30), <1>2
    <3>2. \A j \in found : j \in Nat /\ i <= j BY <1>5, <2>1, <3>1 DEF IsFirst
    <3>3. i \in Nat BY <2>2, <3>1
    <3> QED BY SMTT(30), <3>2, <3>3
  <2>6. CASE job[s].finished
    <3>1. reader' = "reply" /\ UNCHANGED <<rq, job>> BY <2>1, <2>4, <2>6 DEF FlushJob
    <3>2. Over(s)
      <4> SUFFICES ASSUME ~Over(s) PROVE FALSE BY SMT
      <4>1. pc[s] \in {"run", "end", "reply", "rflush", "flushes"} BY Busied
      <4>2. pc[s] \in {"unlink", "free"} BY <2>6 DEF SInv, SlavesInv, JobOK
      <4> QED BY SMTT(30), <4>1, <4>2
    <3>3. ASSUME NEW t \in Slaves, ~Over(t), job[t].msg.tag = rq.old PROVE FALSE
      <4>1. PICK j \in found : work[j] = t BY <1>8, <3>3
      <4>2. j \in DOMAIN work BY <1>5, <4>1
      <4>3. j # i BY <2>4, <3>2, <3>3, <4>1
      <4>4. i < j
        <5>1. ~(j < i) BY <2>5, <4>1
        <5> QED BY SMTT(30), <1>2, <2>2, <4>2, <4>3, <5>1
      <4>5. Over(work[j]) BY <1>3, <2>2, <3>3, <4>1, <4>2, <4>4 DEF WorkOrder
      <4> QED BY <3>3, <4>1, <4>5
    <3> QED BY <1>7, <3>1, <3>3
  <2>7. CASE ~job[s].finished
    <3>1. /\ job' = [job EXCEPT ![s].flush = Append(@, rq)] /\ reader' = "read"
      BY <2>1, <2>4, <2>7 DEF FlushJob
    <3>2. job[s].msg.tag = rq.old BY <2>2, <2>4
    <3>3. \A j \in DOMAIN work : j < i => job[work[j]].msg.tag # rq.old BY <1>5, <2>5
    <3> QED BY <1>1, <1>6, <2>2, <2>4, <3>1, <3>2, <3>3, FlushLeft
  <2> QED BY <2>6, <2>7
<1> QED BY <1>9, <1>10

\* At the start the client waits for nothing.
LEMMA InitC == Init => CInv
<1> SUFFICES ASSUME Init PROVE ClientInv BY DEF CInv
<1>1. /\ pending = <<>> /\ head = <<>> /\ work = <<>> /\ lost = {} /\ reader = "read"
      /\ pc = [s \in Slaves |-> "off"] /\ job = [s \in Slaves |-> NoJob]
  BY DEF Init, Client!StyxInit
<1>2. /\ DOMAIN pending = {} /\ DOMAIN head = {} /\ DOMAIN work = {} /\ ~Handling /\ reader \notin {"flushwork", "reply"}
      /\ Pend = {} /\ Elements(head) = {}
  BY SMTT(30), <1>1 DEF Handling, Pend, Elements
<1>3. ASSUME NEW s \in Slaves
      PROVE  /\ ~Active(s) /\ pc[s] \notin {"start", "rflush"} /\ DOMAIN job[s].flush = {}
             /\ \A f : ~Holds(s, f) /\ ~Serving(s, f)
  <2>1. pc[s] = "off" /\ job[s].flush = <<>> BY SMTT(30), <1>1, NoneTypes
  <2>2. ~Active(s) /\ pc[s] \notin {"start", "rflush"} /\ pc[s] # "flushes" BY SMTT(30), <2>1 DEF Active
  <2>3. DOMAIN job[s].flush = {} /\ Elements(job[s].flush) = {} BY SMTT(30), <2>1 DEF Elements
  <2> QED BY <2>2, <2>3 DEF Holds, Serving
<1>4. \A m : m \notin Waiting BY <1>2, <1>3, WaitingIs
<1>5. PendInv /\ RqInv /\ HeadInv BY <1>2, <1>3, <1>4 DEF PendInv, RqInv, HeadInv
<1>6. ActiveInv /\ WorkOrder /\ HeldInv BY <1>2, <1>3 DEF ActiveInv, WorkOrder, HeldInv
<1>7. FlushOrder /\ SearchInv /\ FindInv BY <1>1, <1>2, <1>3 DEF FlushOrder, SearchInv, FindInv
<1> QED BY <1>5, <1>6, <1>7 DEF ClientInv

\* A broken connection stays broken.
LEMMA DownStays ==
  ASSUME [Next]_vars, ~down'
  PROVE  ~down
<1>1. CASE Exreadmsg BY <1>1 DEF Exreadmsg
<1>2. CASE Reader
  BY <1>2 DEF Reader, Enqueue, Spawn, Wakeup, FlushWaiting, FlushWork, ReaderReply, ShutWaiting, ShutWork, cvars
<1>3. ASSUME NEW s \in Slaves, Slave(s) PROVE ~down
  BY <1>3 DEF Slave, Qlock, Sleep, SleepReturn, Take, Start, End, Reply, Flushes, Rflush, Unlink, Free, cvars
<1>4. ASSUME NEW s \in Slaves, Fcall(s) PROVE ~down BY <1>4 DEF Fcall, cvars
<1>5. CASE ClientTake \/ Hangup \/ UNCHANGED vars BY <1>5 DEF ClientTake, Hangup, Client!Hangup, vars, cvars
<1> QED BY <1>1, <1>2, <1>3, <1>4, <1>5 DEF Next

\* Every step keeps what is known of the client's messages.
LEMMA NextC == SInv /\ CInv /\ [Next]_vars => CInv'
<1> SUFFICES ASSUME SInv, CInv, [Next]_vars, ~down' PROVE ClientInv' BY DEF CInv
<1>0. ~down /\ ClientInv BY DownStays DEF CInv
<1>1. CASE Exreadmsg BY <1>0, <1>1, ReadClient
<1>2. CASE Enqueue BY <1>0, <1>2, EnqueueClient
<1>3. CASE FlushWaiting BY <1>0, <1>3, FlushWaitingClient
<1>4. CASE FlushWork BY <1>0, <1>4, FlushWorkClient
<1>5. CASE ReaderReply BY <1>0, <1>5, ReaderReplyClient
<1>6. CASE Spawn \/ Wakeup BY <1>0, <1>6, IdleSteps
<1>7. ~ShutWaiting /\ ~ShutWork BY <1>0 DEF ShutWaiting, ShutWork, SInv, ReaderInv
<1>8. ASSUME NEW s \in Slaves, Qlock(s) \/ Sleep(s) \/ SleepReturn(s) PROVE ClientInv'
  BY <1>0, <1>8, IdleSteps
<1>9. ASSUME NEW s \in Slaves, Take(s) PROVE ClientInv' BY <1>0, <1>9, IdleSteps, TakeClient
<1>10. ASSUME NEW s \in Slaves, Start(s) PROVE ClientInv' BY <1>0, <1>10, StartClient
<1>11. ASSUME NEW s \in Slaves, Fcall(s) \/ End(s) \/ Unlink(s) \/ Free(s) PROVE ClientInv'
  BY <1>0, <1>11, JobStill
<1>12. ASSUME NEW s \in Slaves, Flushes(s) PROVE ClientInv' BY <1>0, <1>12, JobStill, FlushesClient
<1>13. ASSUME NEW s \in Slaves, Reply(s) PROVE ClientInv' BY <1>0, <1>13, ReplyClient
<1>14. ASSUME NEW s \in Slaves, Rflush(s) PROVE ClientInv' BY <1>0, <1>14, RflushClient
<1>15. CASE ClientTake \/ UNCHANGED vars
  <2>1. UNCHANGED <<pending, lost, head, work, job, cur, pc, reader, rq>>
    BY <1>15 DEF ClientTake, Client!Take, vars, rvars, qvars, svars, cvars
  <2> QED BY <1>0, <2>1, PlainStep
<1>16. ~Hangup BY DEF Hangup, Client!Hangup
<1> QED BY <1>1, <1>2, <1>3, <1>4, <1>5, <1>6, <1>7, <1>8, <1>9, <1>10, <1>11, <1>12, <1>13, <1>14, <1>15, <1>16 DEF Next, Reader, Slave

\* An answer to an awaited message is an answer of Styx.
LEMMA ExreplyIsStyx ==
  ASSUME NEW m, Exreply(m), down' = down, ~down => m \in Pend
  PROVE  Client!Answer \/ UNCHANGED <<pending, wire, down>>
<1>1. CASE down BY <1>1 DEF Exreply
<1>2. CASE ~down
  <2>1. m \in Elements(pending) BY <1>2 DEF Pend
  <2>2. PICK p : p = Position(m) OBVIOUS
  <2>3. p \in DOMAIN pending /\ pending[p] = m BY <2>1, <2>2 DEF Elements, Position
  <2>4. wire' = Append(wire, pending[p]) /\ pending' \in Answered(m) BY <1>2, <2>3 DEF Exreply
  <2>5. CASE Client!IsFlush(m)
    <3>1. pending' \in Client!Settle(p) BY <2>1, <2>2, <2>4, <2>5 DEF Answered
    <3>2. Client!Rflush(p) BY <2>3, <2>4, <2>5, <3>1 DEF Client!Rflush
    <3> QED BY <2>3, <3>2 DEF Client!Answer
  <2>6. CASE ~Client!IsFlush(m)
    <3>1. pending' = Client!Without(pending, p) BY <2>1, <2>2, <2>4, <2>6, SameLists DEF Answered
    <3>2. Client!Reply(p) BY <2>3, <2>4, <2>6, <3>1 DEF Client!Reply
    <3> QED BY <2>3, <3>2 DEF Client!Answer
  <2> QED BY <2>5, <2>6
<1> QED BY <1>1, <1>2

\* What a step is for the client.
StyxStep == \/ Client!Arrival \/ Client!Answer \/ Client!Take \/ Client!Hangup
            \/ UNCHANGED <<pending, wire, down>>

\* Every step is one that Styx allows, or none for the client.
LEMMA NextStyx == SInv /\ CInv /\ [Next]_vars => StyxStep
<1> SUFFICES ASSUME SInv, CInv, [Next]_vars PROVE StyxStep OBVIOUS
<1>1. CASE Exreadmsg
  <2>1. PICK m \in Sendable : Client!Receive(m) BY <1>1 DEF Exreadmsg
  <2>2. m \in Message BY SMTT(30) DEF Sendable, Message, Tags
  <2>3. pending \in Seq(Message) /\ pending' = Append(pending, m) BY <2>1 DEF SInv, Shape, Client!Receive
  <2>4. Len(pending') = Len(pending) + 1 /\ pending'[Len(pending')] = m BY SMTT(30), <2>2, <2>3
  <2> QED BY <2>1, <2>4 DEF StyxStep, Client!Arrival, Client!Receive
<1>2. CASE ReaderReply
  <2>1. Exreply(rq) /\ down' = down /\ reader = "reply" BY <1>2 DEF ReaderReply
  <2>2. ~down => rq \in Pend
    <3> SUFFICES ASSUME ~down PROVE rq \in Pend OBVIOUS
    <3>1. Handling BY SMTT(30), <2>1 DEF Handling
    <3>2. pending # <<>> /\ rq = pending[Len(pending)] BY <3>1 DEF CInv, ClientInv, RqInv
    <3>3. pending \in Seq(Message) BY DEF SInv, Shape
    <3>4. Len(pending) \in DOMAIN pending BY SMTT(30), <3>2, <3>3
    <3> QED BY <3>2, <3>4 DEF Pend, Elements
  <2> QED BY <2>1, <2>2, ExreplyIsStyx DEF StyxStep
<1>3. ASSUME NEW s \in Slaves, Reply(s) PROVE StyxStep
  <2>1. Exreply(job[s].msg) /\ down' = down /\ pc[s] = "reply" BY <1>3 DEF Reply, At
  <2>2. ~down => job[s].msg \in Pend BY <2>1 DEF CInv, ClientInv, ActiveInv, Active
  <2> QED BY <2>1, <2>2, ExreplyIsStyx DEF StyxStep
<1>4. ASSUME NEW s \in Slaves, Rflush(s) PROVE StyxStep
  <2>1. Exreply(cur[s]) /\ down' = down /\ pc[s] = "rflush" BY <1>4 DEF Rflush, At
  <2>2. cur[s] \in Message BY DEF SInv, Shape
  <2>3. ~down => cur[s] \in Pend BY <2>1, <2>2 DEF CInv, ClientInv, HeldInv, Holds
  <2> QED BY <2>1, <2>3, ExreplyIsStyx DEF StyxStep
<1>5. CASE Enqueue \/ Spawn \/ Wakeup \/ FlushWaiting \/ FlushWork \/ ShutWaiting \/ ShutWork \/ UNCHANGED vars
  BY <1>5 DEF StyxStep, Enqueue, Spawn, Wakeup, FlushWaiting, FlushWork, ShutWaiting, ShutWork, vars, cvars
<1>6. ASSUME NEW s \in Slaves,
             \/ Qlock(s) \/ Sleep(s) \/ SleepReturn(s) \/ Take(s) \/ Start(s) \/ End(s) \/ Flushes(s)
             \/ Unlink(s) \/ Free(s) \/ Fcall(s)
      PROVE  StyxStep
  BY <1>6 DEF StyxStep, Qlock, Sleep, SleepReturn, Take, Start, End, Flushes, Unlink, Free, Fcall, cvars
<1>7. CASE ClientTake \/ Hangup BY <1>7 DEF StyxStep, ClientTake, Hangup
<1> QED BY <1>1, <1>2, <1>3, <1>4, <1>5, <1>6, <1>7 DEF Next, Reader, Slave

\* The invariant of the client's messages.
THEOREM ClientInvariance == Spec => [](SInv /\ CInv)
<1>1. Init => SInv /\ CInv BY InitS, InitC
<1>2. SInv /\ CInv /\ [Next]_vars => SInv' /\ CInv' BY NextS, NextC
<1> QED BY <1>1, <1>2, PTL DEF Spec

\* Whatever the client waits for can be found by exflushed and exshutdown, for any
\* numbers of slaves and tags, except what Enqueue links behind a freed exq.tail.
THEOREM RequestsAreFindable == Spec => []Findable
<1>1. SInv /\ CInv => Findable
  <2> SUFFICES ASSUME SInv, CInv, ~down, NEW m \in Elements(pending) \ lost, ~Client!IsFlush(m)
               PROVE  \/ rq = m \/ m \in Elements(head)
                      \/ reader = "reply" /\ rq.old = m.tag
                      \/ \E s \in Slaves : \/ exql = s /\ cur[s] = m
                                           \/ s \in Elements(work) /\ job[s].msg = m
    BY DEF Findable
  <2>1. PendInv /\ FindInv BY DEF CInv, ClientInv
  <2>2. m.old = NoTag BY SMTT(30) DEF Client!IsFlush, Client!NoTag
  <2>3. Request(m) BY <2>1, <2>2 DEF PendInv, Elements, Request
  <2>4. \/ rq = m
        \/ m \in Waiting
        \/ reader = "reply" /\ rq.old = m.tag
        \/ \E s \in Slaves : Serving(s, m)
    BY <2>1, <2>3 DEF FindInv, Pend
  <2>5. ASSUME m \in Waiting PROVE m \in Elements(head) \/ \E s \in Slaves : exql = s /\ cur[s] = m
    BY <2>5, WaitingIs DEF SInv, SlavesInv, SlaveOK
  <2>6. ASSUME NEW s \in Slaves, Serving(s, m) PROVE s \in Elements(work) /\ job[s].msg = m
    <3>1. ~Over(s) BY <2>6 DEF Serving, Over
    <3> QED BY <2>6, <3>1, Busied DEF Serving
  <2> QED BY <2>4, <2>5, <2>6
<1> QED BY <1>1, ClientInvariance, PTL

\* exportfs keeps the contract of Styx: every step answers an awaited request at
\* most once, or a Tflush with what it settles (exreply, exslave, exflushed).
THEOREM ServerIsStyx == Spec => IsStyx
<1>1. Init => Client!StyxInit BY DEF Init
<1>2. SInv /\ CInv /\ [Next]_vars => [Client!Arrival \/ Client!Answer \/ Client!Take \/ Client!Hangup]_(Client!svars)
  BY NextStyx DEF StyxStep, Client!svars
<1> QED BY <1>1, <1>2, ClientInvariance, PTL DEF Spec, IsStyx, Client!StyxSpec
=============================================================================
