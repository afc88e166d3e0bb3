--------------------------- MODULE ExportFsProofs ---------------------------
(***************************************************************************)
(* Proofs about ExportFs, for any sets of tags and any number of slaves.   *)
(*                                                                         *)
(* SInv says where everybody is: who holds the locks, what a slave has at  *)
(* each place, who is in fs->work.  RefInv counts what the references are  *)
(* for.                                                                    *)
(***************************************************************************)
EXTENDS ExportFs, Integers, TLAPS

Readers == {"read", "append", "spawn", "wakeup", "flush", "flushwork", "reply", "shut", "done"}
Labels == {"off", "qlock", "queued", "sleep", "blocked", "woken", "take", "start", "run",
           "end", "reply", "flushes", "rflush", "unlink", "free"}
Jobs == [msg : Message, busy : BOOLEAN, finished : BOOLEAN, shut : BOOLEAN, err : BOOLEAN,
         flush : Seq(Message)]

Request(m) == m.tag # NoTag /\ m.old = NoTag
Flush(m) == m.tag # NoTag /\ m.old # NoTag

InWork == {"run", "end", "reply", "flushes", "rflush", "unlink"}

\* TypeOK without the count of references.
Shape ==
  /\ reader \in Readers /\ rq \in Message
  /\ head \in Seq(Message) /\ tailok \in BOOLEAN
  /\ exql \in Slaves \cup {None} /\ leaked \in BOOLEAN
  /\ work \in Seq(Slaves)
  /\ qhold \in Slaves \cup {None} /\ qwait \in Seq(Slaves)
  /\ pc \in [Slaves -> Labels] /\ job \in [Slaves -> Jobs]
  /\ cur \in [Slaves -> Message] /\ swi \in [Slaves -> BOOLEAN]
  /\ down \in BOOLEAN /\ lost \subseteq Message
  /\ pending \in Seq(Message) /\ wire \in Seq(Message)

\* The lock exq.qwait and its queue.
Holding == {"sleep", "blocked", "woken", "take"}

WaitInv ==
  /\ \A s \in Slaves : qhold = s <=> pc[s] \in Holding
  /\ \A s \in Slaves : s \in Elements(qwait) <=> pc[s] = "queued"
  /\ \A i, j \in DOMAIN qwait : qwait[i] = qwait[j] => i = j

\* What is true of a slave that deals with a message, at each of its places,
\* and of its job.
Plain == {"off", "qlock", "queued"} \cup Holding

SlaveOK(s) ==
  /\ exql = s <=> pc[s] = "start"
  /\ s \in Elements(work) <=> pc[s] \in InWork /\ reader # "done"
  /\ cur[s] # NoMsg <=> pc[s] \in {"start", "rflush"}
  /\ pc[s] = "start" => Request(cur[s])
  /\ pc[s] = "rflush" => Flush(cur[s])

JobOK(s) ==
  /\ HasJob(s) => Request(job[s].msg)
  /\ ~HasJob(s) => job[s] = NoJob
  /\ job[s].busy <=> pc[s] \in {"run", "end"}
  /\ job[s].finished <=> pc[s] \in {"unlink", "free"}
  /\ job[s].shut => down /\ reader = "done"
  /\ \A i \in DOMAIN job[s].flush : Flush(job[s].flush[i])
  /\ pc[s] \in {"unlink", "free"} /\ ~job[s].shut => job[s].flush = <<>>
  /\ swi[s] => HasJob(s) /\ (job[s].shut \/ (pc[s] \in {"run", "end"} /\ job[s].flush # <<>>))

SlavesInv == \A s \in Slaves : SlaveOK(s) /\ JobOK(s)

\* fs->work names a slave once.
WorkInv == \A i, j \in DOMAIN work : work[i] = work[j] => i = j

\* What the reader deals with.
ReaderInv ==
  /\ reader = "append" => Request(rq)
  /\ reader \in {"flush", "flushwork"} => Flush(rq)
  /\ reader = "reply" => rq.tag # NoTag
  /\ \A i \in DOMAIN head : Request(head[i])
  /\ reader \in {"shut", "done"} => down /\ head = <<>> /\ exql = None

SInv == Shape /\ WaitInv /\ SlavesInv /\ WorkInv /\ ReaderInv

-----------------------------------------------------------------------------
(* Lists.                                                                  *)

\* t consists of the elements of s at the indices K, in their order.
Selected(t, s, K) ==
  \E g \in [DOMAIN t -> K] : Orders(g, K) /\ \A i \in DOMAIN t : t[i] = s[g[i]]

USE ZenonT(30)

\* What is kept of a list are the elements at the given indices, in order.
LEMMA KeptFacts ==
  ASSUME NEW S, NEW s \in Seq(S), NEW K \in SUBSET DOMAIN s, NEW t \in Kept(s, K)
  PROVE  t \in Seq(S) /\ Selected(t, s, K)
<1>1. PICK g \in {f \in UNION {[1 .. n -> K] : n \in (0 .. Len(s)) \cap {Cardinality(K)}} : Orders(f, K)} :
        t = [i \in DOMAIN g |-> s[g[i]]]
  BY DEF Kept
<1>g. PICK n \in 0 .. Len(s) : g \in [1 .. n -> K] BY <1>1
<1>2. DOMAIN t = 1 .. n /\ DOMAIN g = 1 .. n /\ \A i \in 1 .. n : t[i] = s[g[i]] BY <1>1, <1>g
<1>3. \A i \in 1 .. n : s[g[i]] \in S
  <2>1. \A k \in DOMAIN s : s[k] \in S BY SMTT(30)
  <2> QED BY <1>g, <2>1
<1>4. t \in Seq(S)
  <2>1. n \in Nat BY SMTT(30)
  <2>2. t = [i \in 1 .. n |-> s[g[i]]] BY <1>1, <1>2
  <2> QED BY SMTT(30), <1>3, <2>1, <2>2
<1>5. Orders(g, K) BY <1>1
<1> QED BY <1>g, <1>2, <1>4, <1>5 DEF Selected

\* So is what is left when one element is unlinked.
LEMMA WithoutFacts ==
  ASSUME NEW S, NEW s \in Seq(S), NEW i \in DOMAIN s
  PROVE  Without(s, i) \in Seq(S) /\ Selected(Without(s, i), s, DOMAIN s \ {i})
<1>1. PICK n \in Nat : n = Len(s) /\ DOMAIN s = 1 .. n BY SMTT(30)
<1>2. PICK g : g = [j \in 1 .. n - 1 |-> IF j < i THEN j ELSE j + 1] OBVIOUS
<1>3. /\ i \in 1 .. n /\ n - 1 \in Nat /\ g \in [1 .. n - 1 -> 1 .. n \ {i}]
      /\ \A j, k \in 1 .. n - 1 : j < k => g[j] < g[k]
  BY SMTT(30), <1>1, <1>2
<1>4. /\ Without(s, i) = [j \in 1 .. n - 1 |-> s[IF j < i THEN j ELSE j + 1]]
      /\ DOMAIN Without(s, i) = 1 .. n - 1
  BY <1>1 DEF Without
<1>5. \A j \in 1 .. n - 1 : Without(s, i)[j] = s[g[j]] BY <1>2, <1>4
<1>6. \A j \in 1 .. n - 1 : s[g[j]] \in S BY SMTT(30), <1>1, <1>3
<1>7. Without(s, i) \in Seq(S)
  <2>1. PICK m \in Nat : m = n - 1 BY <1>3
  <2>2. Without(s, i) = [j \in 1 .. m |-> s[g[j]]] BY <1>2, <1>4, <2>1
  <2>3. \A j \in 1 .. m : s[g[j]] \in S BY <1>6, <2>1
  <2> QED BY SMTT(30), <2>2, <2>3
<1>8. ASSUME NEW k \in 1 .. n \ {i} PROVE \E j \in 1 .. n - 1 : g[j] = k
  <2>1. CASE k < i BY SMTT(30), <1>1, <1>2, <1>3, <2>1
  <2>2. CASE k > i
    <3>1. k - 1 \in 1 .. n - 1 /\ g[k - 1] = k BY SMTT(30), <1>1, <1>2, <1>3, <2>2
    <3> QED BY <3>1
  <2> QED BY SMTT(30), <1>1, <1>3, <2>1, <2>2
<1>9. Orders(g, DOMAIN s \ {i}) BY <1>1, <1>3, <1>8 DEF Orders
<1> QED BY <1>1, <1>3, <1>4, <1>5, <1>7, <1>9 DEF Selected

\* The elements of a list with one more at its end.
LEMMA Appended ==
  ASSUME NEW S, NEW q \in Seq(S), NEW x \in S
  PROVE  /\ Append(q, x) \in Seq(S) /\ Len(Append(q, x)) = Len(q) + 1
         /\ DOMAIN Append(q, x) = DOMAIN q \cup {Len(q) + 1}
         /\ Append(q, x)[Len(q) + 1] = x
         /\ \A i \in DOMAIN q : Append(q, x)[i] = q[i] /\ i <= Len(q)
         /\ Elements(Append(q, x)) = Elements(q) \cup {x}
<1>1. /\ Append(q, x) \in Seq(S) /\ Len(Append(q, x)) = Len(q) + 1
      /\ DOMAIN Append(q, x) = DOMAIN q \cup {Len(q) + 1}
      /\ Append(q, x)[Len(q) + 1] = x
  BY SMTT(30)
<1>2. \A i \in DOMAIN q : Append(q, x)[i] = q[i] /\ i <= Len(q) BY SMTT(30)
<1>3. Elements(Append(q, x)) = Elements(q) \cup {x}
  <2>1. ASSUME NEW y \in Elements(Append(q, x)) PROVE y \in Elements(q) \cup {x}
    <3>1. PICK i \in DOMAIN Append(q, x) : Append(q, x)[i] = y BY <2>1 DEF Elements
    <3> QED BY <1>1, <1>2, <3>1 DEF Elements
  <2>2. ASSUME NEW y \in Elements(q) \cup {x} PROVE y \in Elements(Append(q, x))
    <3>1. CASE y \in Elements(q) BY <1>1, <1>2, <3>1 DEF Elements
    <3>2. CASE y = x
      <4>1. Len(q) + 1 \in DOMAIN Append(q, x) BY <1>1
      <4> QED BY <1>1, <3>2, <4>1 DEF Elements
    <3> QED BY <2>2, <3>1, <3>2
  <2> QED BY <2>1, <2>2
<1> QED BY <1>1, <1>2, <1>3

\* The elements of a list without its first.
LEMMA Tailed ==
  ASSUME NEW S, NEW q \in Seq(S), q # <<>>
  PROVE  /\ Tail(q) \in Seq(S) /\ Len(q) \in Nat \ {0} /\ Len(Tail(q)) = Len(q) - 1
         /\ Head(q) = q[1] /\ Head(q) \in S /\ 1 \in DOMAIN q
         /\ Elements(q) = Elements(Tail(q)) \cup {Head(q)}
         /\ \A i \in DOMAIN Tail(q) : Tail(q)[i] = q[i + 1] /\ i + 1 \in DOMAIN q
<1>1. /\ Tail(q) \in Seq(S) /\ Len(q) \in Nat \ {0} /\ Len(Tail(q)) = Len(q) - 1
      /\ Head(q) = q[1] /\ Head(q) \in S /\ 1 \in DOMAIN q
  BY SMTT(30)
<1>2. \A i \in DOMAIN Tail(q) : Tail(q)[i] = q[i + 1] /\ i + 1 \in DOMAIN q BY SMTT(30)
<1>3. \A i \in DOMAIN q : i = 1 \/ (i - 1 \in DOMAIN Tail(q) /\ Tail(q)[i - 1] = q[i]) BY SMTT(30)
<1>4. ASSUME NEW y \in Elements(q) PROVE y \in Elements(Tail(q)) \cup {Head(q)}
  <2>1. PICK i \in DOMAIN q : q[i] = y BY DEF Elements
  <2>2. i = 1 \/ (i - 1 \in DOMAIN Tail(q) /\ Tail(q)[i - 1] = y) BY <1>3, <2>1
  <2> QED BY <1>1, <2>1, <2>2 DEF Elements
<1>5. \A y \in Elements(Tail(q)) \cup {Head(q)} : y \in Elements(q)
  BY SMTT(30), <1>1, <1>2 DEF Elements
<1> QED BY <1>1, <1>2, <1>4, <1>5

\* The elements of a list with one more at its front.
LEMMA Consed ==
  ASSUME NEW S, NEW q \in Seq(S), NEW x \in S
  PROVE  /\ <<x>> \o q \in Seq(S) /\ Len(<<x>> \o q) = Len(q) + 1
         /\ (<<x>> \o q)[1] = x /\ 1 \in DOMAIN (<<x>> \o q)
         /\ \A i \in DOMAIN q : i + 1 \in DOMAIN (<<x>> \o q) /\ (<<x>> \o q)[i + 1] = q[i]
         /\ \A i \in DOMAIN (<<x>> \o q) :
              i = 1 \/ (i - 1 \in DOMAIN q /\ (<<x>> \o q)[i] = q[i - 1])
         /\ Elements(<<x>> \o q) = Elements(q) \cup {x}
<1>1. /\ <<x>> \o q \in Seq(S) /\ Len(<<x>> \o q) = Len(q) + 1
      /\ (<<x>> \o q)[1] = x /\ 1 \in DOMAIN (<<x>> \o q)
  BY SMTT(30)
<1>2. \A i \in DOMAIN q : i + 1 \in DOMAIN (<<x>> \o q) /\ (<<x>> \o q)[i + 1] = q[i] BY SMTT(30)
<1>3. \A i \in DOMAIN (<<x>> \o q) :
        i = 1 \/ (i - 1 \in DOMAIN q /\ (<<x>> \o q)[i] = q[i - 1])
  BY SMTT(30)
<1>4. \A y \in Elements(<<x>> \o q) : y \in Elements(q) \cup {x} BY SMTT(30), <1>1, <1>3 DEF Elements
<1>5. ASSUME NEW y \in Elements(q) \cup {x} PROVE y \in Elements(<<x>> \o q)
  <2>1. CASE y = x BY <1>1, <2>1 DEF Elements
  <2>2. CASE y # x
    <3>1. PICK i \in DOMAIN q : q[i] = y BY <2>2 DEF Elements
    <3>2. i + 1 \in DOMAIN (<<x>> \o q) /\ (<<x>> \o q)[i + 1] = y BY <1>2, <3>1
    <3> QED BY <3>2 DEF Elements
  <2> QED BY <2>1, <2>2
<1> QED BY <1>1, <1>2, <1>3, <1>4, <1>5

\* A list without one of its elements.
LEMMA Withouts ==
  ASSUME NEW S, NEW q \in Seq(S), NEW i \in DOMAIN q
  PROVE  /\ Without(q, i) \in Seq(S) /\ Len(Without(q, i)) = Len(q) - 1
         /\ Elements(Without(q, i)) \subseteq Elements(q)
         /\ \A x \in Elements(q) : x # q[i] => x \in Elements(Without(q, i))
         /\ (\A j, k \in DOMAIN q : q[j] = q[k] => j = k) =>
              /\ q[i] \notin Elements(Without(q, i))
              /\ \A j, k \in DOMAIN Without(q, i) : Without(q, i)[j] = Without(q, i)[k] => j = k
<1>1. PICK w : w = Without(q, i) OBVIOUS
<1>2. w \in Seq(S) /\ Selected(w, q, DOMAIN q \ {i}) BY <1>1, WithoutFacts
<1>3. PICK g \in [DOMAIN w -> DOMAIN q \ {i}] :
        Orders(g, DOMAIN q \ {i}) /\ \A n \in DOMAIN w : w[n] = q[g[n]]
  BY <1>2 DEF Selected
<1>4. Len(w) = Len(q) - 1
  <2>1. DOMAIN q = 1 .. Len(q) /\ Len(q) \in Nat /\ Len(q) # 0 BY SMTT(30)
  <2>2. DOMAIN w = 1 .. Len(q) - 1 BY <1>1 DEF Without
  <2>3. DOMAIN w = 1 .. Len(w) /\ Len(w) \in Nat BY SMTT(30), <1>2
  <2>6. Len(q) - 1 \in Nat BY SMTT(30), <2>1
  <2>4. PICK n \in Nat : n = Len(q) - 1 BY <2>6
  <2>5. DOMAIN w = 1 .. n BY <2>2, <2>4
  <2> QED BY SMTT(30), <2>3, <2>4, <2>5
<1>a. \A n \in DOMAIN w : g[n] \in DOMAIN q /\ g[n] # i /\ w[n] = q[g[n]] BY <1>3
<1>b. \A k \in DOMAIN q : k # i => \E n \in DOMAIN w : w[n] = q[k] BY SMTT(30), <1>3 DEF Orders
<1>5. Elements(w) \subseteq Elements(q) BY SMTT(30), <1>a DEF Elements
<1>6. \A x \in Elements(q) : x # q[i] => x \in Elements(w) BY <1>b DEF Elements
<1>7. ASSUME \A j, k \in DOMAIN q : q[j] = q[k] => j = k
      PROVE  /\ q[i] \notin Elements(w)
             /\ \A j, k \in DOMAIN w : w[j] = w[k] => j = k
  <2>1. q[i] \notin Elements(w) BY SMTT(30), <1>a, <1>7 DEF Elements
  <2>2. ASSUME NEW j \in DOMAIN w, NEW k \in DOMAIN w, w[j] = w[k] PROVE j = k
    <3>1. g[j] \in DOMAIN q /\ g[k] \in DOMAIN q /\ g[j] = g[k] BY SMTT(30), <1>a, <1>7, <2>2
    <3>2. ~(g[j] < g[k]) /\ ~(g[k] < g[j]) BY SMTT(30), <3>1
    <3>3. ~(j < k) /\ ~(k < j) BY <1>3, <3>2 DEF Orders
    <3>4. j \in Int /\ k \in Int BY SMTT(30), <1>2
    <3> QED BY SMTT(30), <3>3, <3>4
  <2> QED BY <2>1, <2>2
<1> QED BY <1>1, <1>2, <1>4, <1>5, <1>6, <1>7

-----------------------------------------------------------------------------
(* Where everybody is.                                                     *)

USE ExportAssumption DEF Slaves, None, NoTag

\* TypeOK, in two parts.
LEMMA Typed == TypeOK <=> Shape /\ ref \in Nat
BY DEF TypeOK, Shape, Readers, Labels, Jobs

\* NoMsg and NoJob are a message and a job.
LEMMA NoneTypes ==
  /\ NoMsg \in Message /\ NoMsg.tag = NoTag /\ NoMsg.old = NoTag
  /\ NoJob \in Jobs /\ NoJob.msg = NoMsg /\ NoJob.busy = FALSE /\ NoJob.finished = FALSE
  /\ NoJob.shut = FALSE /\ NoJob.err = FALSE /\ NoJob.flush = <<>>
BY SMTT(30) DEF NoMsg, NoJob, Message, Jobs

\* qunlock: the first in the queue gets the lock.
LEMMA QunlockFacts ==
  ASSUME Shape, WaitInv, NEW s \in Slaves, pc[s] \in Holding, NEW l \in {"qlock", "start"}, Qunlock(s, l)
  PROVE  /\ WaitInv' /\ pc' \in [Slaves -> Labels] /\ pc'[s] = l
         /\ qhold' \in Slaves \cup {None} /\ qwait' \in Seq(Slaves)
         /\ \A t \in Slaves \ {s} : pc'[t] = pc[t] \/ (pc[t] = "queued" /\ pc'[t] = "sleep")
<1>0. /\ pc \in [Slaves -> Labels] /\ qwait \in Seq(Slaves) /\ qhold = s
      /\ l \in Labels /\ l \notin Holding /\ l # "queued"
  BY DEF Shape, WaitInv, Labels, Holding
<1>1. CASE qwait = <<>>
  <2>1. qhold' = None /\ pc' = [pc EXCEPT ![s] = l] /\ qwait' = qwait BY <1>1 DEF Qunlock, Goto
  <2>2. pc' \in [Slaves -> Labels] /\ pc'[s] = l /\ \A t \in Slaves \ {s} : pc'[t] = pc[t] BY <1>0, <2>1
  <2>3. \A t \in Slaves \ {s} : pc[t] \notin Holding BY <1>0 DEF WaitInv
  <2>4. WaitInv'
    <3>1. \A t \in Slaves : qhold' # t BY SMTT(30), <2>1
    <3>2. \A t \in Slaves : pc'[t] \notin Holding BY <1>0, <2>2, <2>3
    <3>3. pc[s] # "queued" BY DEF Holding
    <3>4. \A t \in Slaves : t \in Elements(qwait') <=> pc'[t] = "queued" BY <1>0, <2>1, <2>2, <3>3 DEF WaitInv
    <3> QED BY <2>1, <3>1, <3>2, <3>4 DEF WaitInv
  <2> QED BY <1>0, <2>1, <2>2, <2>4
<1>2. CASE qwait # <<>>
  <2> PICK h : h = Head(qwait) OBVIOUS
  <2>1. /\ qhold' = h /\ qwait' = Tail(qwait)
        /\ pc' = [pc EXCEPT ![s] = l, ![h] = "sleep"]
    BY <1>2 DEF Qunlock
  <2>2. /\ Tail(qwait) \in Seq(Slaves) /\ h \in Slaves /\ h = qwait[1] /\ 1 \in DOMAIN qwait
        /\ Elements(qwait) = Elements(Tail(qwait)) \cup {h}
        /\ \A i \in DOMAIN Tail(qwait) : Tail(qwait)[i] = qwait[i + 1] /\ i + 1 \in DOMAIN qwait
    BY <1>0, <1>2, Tailed
  <2>3. pc[h] = "queued" /\ h # s BY <1>0, <2>2 DEF WaitInv, Holding
  <2>4. /\ pc' \in [Slaves -> Labels] /\ pc'[s] = l /\ pc'[h] = "sleep"
        /\ \A t \in Slaves \ {s, h} : pc'[t] = pc[t]
    BY <1>0, <2>1, <2>2, <2>3 DEF Labels
  <2>5. h \notin Elements(Tail(qwait))
    <3> SUFFICES ASSUME NEW i \in DOMAIN Tail(qwait), Tail(qwait)[i] = h PROVE FALSE BY DEF Elements
    <3>1. i + 1 = 1 BY <2>2 DEF WaitInv
    <3>2. i \in Nat /\ i # 0 BY SMTT(30), <1>0, <1>2
    <3> QED BY SMTT(30), <3>1, <3>2
  <2>6. \A i, j \in DOMAIN Tail(qwait) : Tail(qwait)[i] = Tail(qwait)[j] => i = j
    <3> SUFFICES ASSUME NEW i \in DOMAIN Tail(qwait), NEW j \in DOMAIN Tail(qwait),
                        Tail(qwait)[i] = Tail(qwait)[j]
                 PROVE  i = j
      OBVIOUS
    <3>0. qwait[i + 1] = qwait[j + 1] /\ i + 1 \in DOMAIN qwait /\ j + 1 \in DOMAIN qwait BY <2>2
    <3>1. i + 1 = j + 1 BY <3>0 DEF WaitInv
    <3>2. i \in Nat /\ j \in Nat BY SMTT(30), <1>0, <1>2
    <3> QED BY SMTT(30), <3>1, <3>2
  <2>7. \A t \in Slaves : t \in Elements(Tail(qwait)) <=> pc'[t] = "queued"
    <3> SUFFICES ASSUME NEW t \in Slaves PROVE t \in Elements(Tail(qwait)) <=> pc'[t] = "queued"
      OBVIOUS
    <3>1. CASE t = s BY <1>0, <2>2, <2>4, <3>1 DEF WaitInv, Holding
    <3>2. CASE t = h BY <2>4, <2>5, <3>2
    <3>3. CASE t # s /\ t # h BY SMTT(30), <2>2, <2>4, <3>3 DEF WaitInv
    <3> QED BY <3>1, <3>2, <3>3
  <2>8. \A t \in Slaves : h = t <=> pc'[t] \in Holding
    <3> SUFFICES ASSUME NEW t \in Slaves PROVE h = t <=> pc'[t] \in Holding
      OBVIOUS
    <3>1. CASE t = s BY <1>0, <2>3, <2>4, <3>1
    <3>2. CASE t = h BY <2>4, <3>2 DEF Holding
    <3>3. CASE t # s /\ t # h BY <1>0, <2>4, <3>3 DEF WaitInv
    <3> QED BY <3>1, <3>2, <3>3
  <2>9. WaitInv' BY <2>1, <2>6, <2>7, <2>8 DEF WaitInv
  <2> QED BY <2>1, <2>2, <2>3, <2>4, <2>9
<1> QED BY <1>1, <1>2

\* The lists of the client are those of the server, and what the answer to a
\* Tflush settles is taken from them.
LEMMA SameLists ==
  /\ \A s, i : Client!Without(s, i) = Without(s, i)
  /\ \A i : Client!Settle(i) =
       Kept(pending, {j \in DOMAIN pending : j > i \/ ~Client!Settled(pending[i], pending[j])})
<1>1. \A s, K : Client!Kept(s, K) = Kept(s, K)
  BY DEF Client!Kept, Kept, Client!Orders, Orders, Client!Cardinality, Cardinality
<1>2. \A s, i : Client!Without(s, i) = Without(s, i) BY DEF Client!Without, Without
<1> QED BY <1>1, <1>2 DEF Client!Settle

-----------------------------------------------------------------------------
\* At the start nothing has been read.
LEMMA InitS == Init => SInv
<1> SUFFICES ASSUME Init PROVE SInv OBVIOUS
<1>1. /\ reader = "read" /\ rq = NoMsg /\ head = <<>> /\ tailok = TRUE /\ exql = None /\ leaked = FALSE
      /\ work = <<>> /\ qhold = None /\ qwait = <<>> /\ lost = {}
      /\ pc = [s \in Slaves |-> "off"] /\ job = [s \in Slaves |-> NoJob]
      /\ cur = [s \in Slaves |-> NoMsg] /\ swi = [s \in Slaves |-> FALSE]
      /\ pending = <<>> /\ wire = <<>> /\ down = FALSE
  BY DEF Init, Client!StyxInit
<1>2. Shape
  <2>1. <<>> \in Seq(Message) /\ <<>> \in Seq(Slaves) BY SMTT(30)
  <2>2. reader \in Readers /\ pc \in [Slaves -> Labels] BY <1>1 DEF Readers, Labels
  <2>3. job \in [Slaves -> Jobs] /\ cur \in [Slaves -> Message] BY <1>1, NoneTypes
  <2> QED BY <1>1, <2>1, <2>2, <2>3, NoneTypes DEF Shape
<1>3. \A s \in Slaves : pc[s] = "off" /\ job[s] = NoJob /\ cur[s] = NoMsg /\ swi[s] = FALSE BY <1>1
<1>4. Elements(work) = {} /\ Elements(qwait) = {} BY SMTT(30), <1>1 DEF Elements
<1>5. \A s \in Slaves : exql # s /\ qhold # s BY SMTT(30), <1>1
<1>6. WaitInv BY SMTT(30), <1>1, <1>3, <1>4, <1>5 DEF WaitInv, Holding
<1>7. ASSUME NEW s \in Slaves PROVE SlaveOK(s) /\ JobOK(s)
  <2>1. SlaveOK(s) BY <1>3, <1>4, <1>5 DEF SlaveOK, InWork
  <2>2. ~HasJob(s) BY <1>3 DEF HasJob
  <2>3. JobOK(s) BY SMTT(30), <1>3, <2>2, NoneTypes DEF JobOK
  <2> QED BY <2>1, <2>3
<1>8. WorkInv /\ ReaderInv BY SMTT(30), <1>1 DEF WorkInv, ReaderInv
<1> QED BY <1>2, <1>6, <1>7, <1>8 DEF SInv, SlavesInv

\* Every step keeps it.
LEMMA NextS == SInv /\ [Next]_vars => SInv'

\* A slave that keeps its job and what it is dealing with, and only moves among
\* the places without any.
<1>SlaveFrame.
     ASSUME NEW t \in Slaves, SlaveOK(t), JobOK(t),
            pc'[t] = pc[t] \/ (pc[t] \in Plain /\ pc'[t] \in Plain),
            job'[t] = job[t], cur'[t] = cur[t], swi'[t] = swi[t],
            exql' = t <=> exql = t,
            t \in Elements(work') <=> t \in Elements(work),
            reader' = "done" <=> reader = "done", down => down'
     PROVE  SlaveOK(t)' /\ JobOK(t)'
  <2> USE <1>SlaveFrame
  <2>1. SlaveOK(t)' BY SMTT(30) DEF SlaveOK, Plain, Holding, InWork
  <2>2. JobOK(t)' BY DEF JobOK, HasJob, Plain, Holding
  <2> QED BY <2>1, <2>2

\* exq.qwait and its queue, in a step of a slave that neither holds the lock nor
\* waits for it, before and after.
<1>WaitFrame.
     ASSUME WaitInv, UNCHANGED wvars,
            \A t \in Slaves : pc'[t] = pc[t]
                              \/ (pc[t] \notin Holding \cup {"queued"} /\ pc'[t] \notin Holding \cup {"queued"})
                              \/ (pc[t] \in Holding /\ pc'[t] \in Holding)
     PROVE  WaitInv'
  <2> USE <1>WaitFrame
  <2> QED BY DEF WaitInv, Holding, wvars

\* An answer: what it may do to the lists of the client.
<1>ExreplyType.
     ASSUME Shape, NEW m \in Message, Exreply(m)
     PROVE  pending' \in Seq(Message) /\ wire' \in Seq(Message) /\ lost' \subseteq Message
  <2> USE <1>ExreplyType
  <2>0. pending \in Seq(Message) /\ wire \in Seq(Message) /\ lost \subseteq Message BY DEF Shape
  <2>1. CASE down BY <2>0, <2>1 DEF Exreply
  <2>2. CASE ~down
    <3>1. /\ wire' = Append(wire, m) /\ lost' = lost \cap Elements(pending')
          /\ pending' \in Answered(m)
      BY <2>2 DEF Exreply
    <3>2. ASSUME NEW i, NEW p \in Client!Settle(i) PROVE p \in Seq(Message)
      <4>1. PICK K : K = {j \in DOMAIN pending : j > i \/ ~Client!Settled(pending[i], pending[j])} OBVIOUS
      <4>2. K \in SUBSET DOMAIN pending BY <4>1
      <4>3. p \in Kept(pending, K) BY <3>2, <4>1, SameLists
      <4> QED BY <2>0, <4>2, <4>3, KeptFacts
    <3>3. m \in Elements(pending) => Position(m) \in DOMAIN pending BY DEF Elements, Position
    <3>4. pending' \in Seq(Message)
      <4>1. CASE pending' = pending BY <2>0, <4>1
      <4>2. CASE pending' \in Client!Settle(Position(m)) BY <3>2, <4>2
      <4>3. CASE m \in Elements(pending) /\ pending' = Without(pending, Position(m))
        BY <2>0, <3>3, <4>3, WithoutFacts
      <4> QED BY <3>1, <4>1, <4>2, <4>3 DEF Answered
    <3>5. wire' \in Seq(Message) BY SMTT(30), <2>0, <3>1
    <3> QED BY <2>0, <3>1, <3>4, <3>5
  <2> QED BY <2>1, <2>2

\* Steps of the reader and the client that leave the slaves alone.
<1>SlavesStill.
     ASSUME WaitInv, SlavesInv, WorkInv, UNCHANGED <<exql, work, wvars, svars>>,
            reader' = "done" <=> reader = "done", down => down'
     PROVE  WaitInv' /\ SlavesInv' /\ WorkInv'
  <2> USE <1>SlavesStill
  <2>1. WaitInv' BY DEF WaitInv, wvars, svars
  <2>2. WorkInv' BY DEF WorkInv
  <2>3. ASSUME NEW t \in Slaves PROVE SlaveOK(t)' /\ JobOK(t)'
    <3>1. SlaveOK(t) /\ JobOK(t) BY DEF SlavesInv
    <3>2. pc'[t] = pc[t] /\ job'[t] = job[t] /\ cur'[t] = cur[t] /\ swi'[t] = swi[t] BY DEF svars
    <3>3. Elements(work') = Elements(work) OBVIOUS
    <3> QED BY <3>1, <3>2, <3>3, <1>SlaveFrame
  <2> QED BY <2>1, <2>2, <2>3 DEF SlavesInv

\* The reader gets a message, has it linked or unlinked, and answers.
<1>ReaderSteps.
     ASSUME SInv, Exreadmsg \/ Enqueue \/ FlushWaiting \/ ReaderReply \/ ShutWaiting
     PROVE  SInv'
  <2> USE <1>ReaderSteps
  <2>0. Shape /\ WaitInv /\ SlavesInv /\ WorkInv /\ ReaderInv BY DEF SInv
  <2>1. CASE Exreadmsg
    <3>1. PICK m \in Sendable :
            /\ Client!Receive(m) /\ rq' = m
            /\ reader' \in IF Client!IsFlush(m) THEN {"flush"} ELSE {"append", "reply"}
      BY <2>1 DEF Exreadmsg
    <3>2. /\ reader = "read" /\ UNCHANGED <<head, tailok, exql, leaked, work, wvars, svars, down, lost>>
      BY <2>1 DEF Exreadmsg, qvars
    <3>3. /\ m \in Message /\ m.tag # NoTag
          /\ Client!IsFlush(m) <=> m.old # NoTag
      BY DEF Sendable, Message, Client!IsFlush, Client!NoTag, Tags
    <3>4. pending' = Append(pending, m) /\ wire' = wire BY <3>1 DEF Client!Receive
    <3>5. reader' \in {"flush", "append", "reply"} BY <3>1
    <3>6. WaitInv' /\ SlavesInv' /\ WorkInv' BY <2>0, <3>2, <3>5, <1>SlavesStill
    <3>7. Shape'
      <4>1. pending' \in Seq(Message) BY SMTT(30), <2>0, <3>3, <3>4 DEF Shape
      <4>2. reader' \in Readers BY <3>5 DEF Readers
      <4>3. pc' = pc /\ job' = job /\ cur' = cur /\ swi' = swi /\ qhold' = qhold /\ qwait' = qwait
        BY <3>2 DEF svars, wvars
      <4> QED BY <2>0, <3>1, <3>2, <3>3, <3>4, <4>1, <4>2, <4>3 DEF Shape
    <3>8. ReaderInv' BY <2>0, <3>1, <3>2, <3>3 DEF ReaderInv, Request, Flush
    <3> QED BY <3>6, <3>7, <3>8 DEF SInv
  <2>2. CASE Enqueue
    <3>1. /\ reader = "append" /\ reader' = "spawn"
          /\ head' = IF head = <<>> \/ tailok THEN Append(head, rq) ELSE head
          /\ tailok' = (head = <<>> \/ tailok)
          /\ lost' = IF tailok' THEN lost ELSE lost \cup ({rq} \cap Elements(pending))
          /\ UNCHANGED <<rq, exql, leaked, work, wvars, svars, down, pending, wire>>
      BY <2>2 DEF Enqueue
    <3>2. WaitInv' /\ SlavesInv' /\ WorkInv' BY <2>0, <3>1, <1>SlavesStill
    <3>3. head \in Seq(Message) /\ rq \in Message /\ Request(rq) BY <2>0, <3>1 DEF Shape, ReaderInv
    <3>4. /\ head' \in Seq(Message)
          /\ \A i \in DOMAIN head' : Request(head'[i])
      <4>1. CASE head' = head BY <2>0, <4>1 DEF Shape, ReaderInv
      <4>2. CASE head' = Append(head, rq)
        <5>1. /\ Append(head, rq) \in Seq(Message)
              /\ DOMAIN Append(head, rq) = DOMAIN head \cup {Len(head) + 1}
              /\ Append(head, rq)[Len(head) + 1] = rq
              /\ \A i \in DOMAIN head : Append(head, rq)[i] = head[i]
          BY SMTT(30), <3>3, Appended
        <5> QED BY <2>0, <3>3, <4>2, <5>1 DEF ReaderInv
      <4> QED BY <3>1, <4>1, <4>2
    <3>5. Shape'
      <4>1. lost' \subseteq Message BY <2>0, <3>1, <3>3 DEF Shape
      <4>2. tailok' \in BOOLEAN BY <3>1
      <4>3. pc' = pc /\ job' = job /\ cur' = cur /\ swi' = swi /\ qhold' = qhold /\ qwait' = qwait
        BY <3>1 DEF svars, wvars
      <4>4. reader' \in Readers BY <3>1 DEF Readers
      <4> QED BY <2>0, <3>1, <3>4, <4>1, <4>2, <4>3, <4>4 DEF Shape
    <3>6. ReaderInv' BY <3>1, <3>4 DEF ReaderInv
    <3> QED BY <3>2, <3>5, <3>6 DEF SInv
  <2>3. CASE FlushWaiting
    <3>1. /\ reader = "flush" /\ reader' \in {"flushwork", "reply"}
          /\ UNCHANGED <<rq, exql, leaked, work, wvars, svars, down, pending, wire, lost>>
      BY <2>3 DEF FlushWaiting, cvars
    <3>2. WaitInv' /\ SlavesInv' /\ WorkInv' BY <2>0, <3>1, <1>SlavesStill
    <3>3. head \in Seq(Message) /\ rq \in Message /\ Flush(rq) BY <2>0, <3>1 DEF Shape, ReaderInv
    <3>4. /\ head' \in Seq(Message) /\ tailok' \in BOOLEAN
          /\ Elements(head') \subseteq Elements(head)
      <4>3. PICK found : found = {i \in DOMAIN head : head[i].tag = rq.old} OBVIOUS
      <4>1. CASE found = {} BY <2>0, <2>3, <4>1, <4>3 DEF FlushWaiting, qvars, Shape
      <4>2. CASE found # {}
        <5>1. PICK i \in found :
                /\ head' = Without(head, i)
                /\ tailok' = ((tailok /\ i # Len(head)) \/ Len(head) = 1)
          BY <2>3, <4>2, <4>3 DEF FlushWaiting
        <5>2. i \in DOMAIN head BY <4>3
        <5> QED BY <3>3, <5>1, <5>2, Withouts
      <4> QED BY <4>1, <4>2
    <3>5. Shape'
      <4>3. pc' = pc /\ job' = job /\ cur' = cur /\ swi' = swi /\ qhold' = qhold /\ qwait' = qwait
        BY <3>1 DEF svars, wvars
      <4>4. reader' \in Readers BY <3>1 DEF Readers
      <4> QED BY <2>0, <3>1, <3>4, <4>3, <4>4 DEF Shape
    <3>6. \A i \in DOMAIN head' : Request(head'[i]) BY <2>0, <3>4 DEF ReaderInv, Elements
    <3>7. ReaderInv' BY <3>1, <3>3, <3>6 DEF ReaderInv, Flush
    <3> QED BY <3>2, <3>5, <3>7 DEF SInv
  <2>4. CASE ReaderReply
    <3>1. /\ reader = "reply" /\ reader' = "read" /\ rq' = NoMsg /\ Exreply(rq)
          /\ UNCHANGED <<head, tailok, exql, leaked, work, wvars, svars, down>>
      BY <2>4 DEF ReaderReply, qvars
    <3>2. WaitInv' /\ SlavesInv' /\ WorkInv' BY <2>0, <3>1, <1>SlavesStill
    <3>3. rq \in Message BY <2>0 DEF Shape
    <3>4. pending' \in Seq(Message) /\ wire' \in Seq(Message) /\ lost' \subseteq Message
      BY <2>0, <3>1, <3>3, <1>ExreplyType
    <3>5. Shape'
      <4>3. pc' = pc /\ job' = job /\ cur' = cur /\ swi' = swi /\ qhold' = qhold /\ qwait' = qwait
        BY <3>1 DEF svars, wvars
      <4>4. reader' \in Readers BY <3>1 DEF Readers
      <4> QED BY <2>0, <3>1, <3>4, <4>3, <4>4, NoneTypes DEF Shape
    <3>6. ReaderInv' BY <2>0, <3>1 DEF ReaderInv
    <3> QED BY <3>2, <3>5, <3>6 DEF SInv
  <2>5. CASE ShutWaiting
    <3>1. /\ reader = "read" /\ down /\ exql = None /\ head' = <<>> /\ tailok' = TRUE /\ reader' = "shut"
          /\ UNCHANGED <<rq, exql, leaked, work, wvars, svars, down, pending, wire, lost>>
      BY <2>5 DEF ShutWaiting, cvars
    <3>2. WaitInv' /\ SlavesInv' /\ WorkInv' BY <2>0, <3>1, <1>SlavesStill
    <3>5. Shape'
      <4>3. pc' = pc /\ job' = job /\ cur' = cur /\ swi' = swi /\ qhold' = qhold /\ qwait' = qwait
        BY <3>1 DEF svars, wvars
      <4>4. reader' \in Readers /\ head' \in Seq(Message) /\ tailok' \in BOOLEAN BY SMTT(30), <3>1 DEF Readers
      <4> QED BY <2>0, <3>1, <4>3, <4>4 DEF Shape
    <3>6. ReaderInv' BY SMTT(30), <3>1 DEF ReaderInv
    <3> QED BY <3>2, <3>5, <3>6 DEF SInv
  <2> QED BY <2>1, <2>2, <2>3, <2>4, <2>5

\* A slave is made, or woken.
<1>WakeSteps.
     ASSUME SInv, Spawn \/ Wakeup
     PROVE  SInv'
  <2> USE <1>WakeSteps
  <2>0. Shape /\ WaitInv /\ SlavesInv /\ WorkInv /\ ReaderInv BY DEF SInv
  <2>1. /\ reader \in {"spawn", "wakeup"} /\ reader' \in {"wakeup", "read"} /\ rq' \in {rq, NoMsg}
        /\ UNCHANGED <<head, tailok, exql, leaked, work, qhold, qwait, job, cur, swi, down, pending, wire, lost>>
    BY DEF Spawn, Wakeup, qvars, wvars, cvars
  <2>2. /\ pc' \in [Slaves -> Labels]
        /\ \A t \in Slaves : \/ pc'[t] = pc[t]
                             \/ pc[t] = "off" /\ pc'[t] = "qlock"
                             \/ pc[t] = "blocked" /\ pc'[t] = "woken"
    <3>0. pc \in [Slaves -> Labels] /\ qhold \in Slaves \cup {None} BY <2>0 DEF Shape
    <3>1. CASE Spawn
      <4>1. CASE pc' = pc BY <3>0, <4>1
      <4>2. CASE \E s \in Slaves : At(s, "off") /\ Goto(s, "qlock")
        <5>1. PICK s \in Slaves : pc[s] = "off" /\ pc' = [pc EXCEPT ![s] = "qlock"] BY <4>2 DEF At, Goto
        <5> QED BY <3>0, <5>1 DEF Labels
      <4> QED BY <3>1, <4>1, <4>2 DEF Spawn
    <3>2. CASE Wakeup
      <4>1. CASE pc' = pc BY <3>0, <4>1
      <4>2. CASE qhold # None /\ At(qhold, "blocked") /\ Goto(qhold, "woken")
        BY <3>0, <4>2 DEF Goto, Labels, At
      <4> QED BY <3>2, <4>1, <4>2 DEF Wakeup
    <3> QED BY <3>1, <3>2
  <2>3. WaitInv' BY <2>0, <2>1, <2>2, <1>WaitFrame DEF Holding, wvars
  <2>4. ASSUME NEW t \in Slaves PROVE SlaveOK(t)' /\ JobOK(t)'
    <3>1. SlaveOK(t) /\ JobOK(t) BY <2>0 DEF SlavesInv
    <3>2. pc'[t] = pc[t] \/ (pc[t] \in Plain /\ pc'[t] \in Plain) BY <2>2 DEF Plain, Holding
    <3>3. reader' # "done" /\ reader # "done" BY <2>1
    <3>4. Elements(work') = Elements(work) BY <2>1
    <3> QED BY <2>1, <3>1, <3>2, <3>3, <3>4, <1>SlaveFrame
  <2>5. Shape'
    <3>1. rq' \in Message BY <2>0, <2>1, NoneTypes DEF Shape
    <3>2. reader' \in Readers BY <2>1 DEF Readers
    <3> QED BY <2>0, <2>1, <2>2, <3>1, <3>2 DEF Shape
  <2>6. ReaderInv' BY <2>0, <2>1 DEF ReaderInv
  <2>7. WorkInv' BY <2>0, <2>1 DEF WorkInv
  <2> QED BY <2>3, <2>4, <2>5, <2>6, <2>7 DEF SInv, SlavesInv

\* exflushed finds the slave that has the request, or none.
<1>FlushWorkStep.
     ASSUME SInv, FlushWork
     PROVE  SInv'
  <2> USE <1>FlushWorkStep
  <2>0. Shape /\ WaitInv /\ SlavesInv /\ WorkInv /\ ReaderInv BY DEF SInv
  <2>1. /\ reader = "flushwork"
        /\ UNCHANGED <<head, tailok, exql, work, wvars, pc, cur, down, pending, wire, lost>>
    BY DEF FlushWork, qvars, cvars
  <2>2. \/ reader' = "reply" /\ UNCHANGED <<rq, leaked, job, swi>>
        \/ \E i \in DOMAIN work : FlushJob(work[i])
    BY DEF FlushWork
  <2>4. rq \in Message /\ Flush(rq) BY <2>0, <2>1 DEF Shape, ReaderInv
  <2>3. \A i \in DOMAIN work : work[i] \in Slaves /\ work[i] \in Elements(work) BY SMTT(30), <2>0 DEF Shape, Elements
  <2>5. CASE reader' = "reply" /\ rq' = rq /\ job' = job /\ swi' = swi /\ leaked' \in {leaked, TRUE}
    <3>1. reader' = "reply" /\ rq' = rq /\ job' = job /\ swi' = swi /\ leaked' \in {leaked, TRUE}
      BY <2>5
    <3>2. WaitInv' /\ SlavesInv' /\ WorkInv'
      <4>1. UNCHANGED <<exql, work, wvars, svars>> BY <2>1, <3>1 DEF svars
      <4> QED BY <2>0, <2>1, <3>1, <4>1, <1>SlavesStill
    <3>3. Shape'
      <4>1. reader' \in Readers /\ leaked' \in BOOLEAN BY <2>0, <3>1 DEF Readers, Shape
      <4> QED BY <2>0, <2>1, <3>1, <4>1 DEF Shape, wvars
    <3>4. ReaderInv' BY <2>0, <2>1, <2>4, <3>1 DEF ReaderInv, Flush
    <3> QED BY <3>2, <3>3, <3>4 DEF SInv
  <2>6. ASSUME NEW s \in Elements(work), s \in Slaves, ~job[s].finished, FlushJob(s) PROVE SInv'
    <3>1. /\ job' = [job EXCEPT ![s].flush = Append(@, rq)]
          /\ swi' = [swi EXCEPT ![s] = @ \/ job[s].busy]
          /\ reader' = "read" /\ rq' = NoMsg /\ leaked' = leaked
      BY <2>6 DEF FlushJob, Interrupt
    <3>2. s \in Slaves /\ s \in Elements(work) BY <2>6
    <3>3. job[s] \in Jobs /\ job[s].flush \in Seq(Message) /\ job[s].busy \in BOOLEAN /\ swi[s] \in BOOLEAN
      BY <2>0, <3>2 DEF Shape, Jobs
    <3>4. /\ job' \in [Slaves -> Jobs] /\ swi' \in [Slaves -> BOOLEAN]
          /\ \A t \in Slaves \ {s} : job'[t] = job[t] /\ swi'[t] = swi[t]
          /\ swi'[s] = (swi[s] \/ job[s].busy)
          /\ job'[s] = [job[s] EXCEPT !.flush = Append(job[s].flush, rq)]
      <4>1. Append(job[s].flush, rq) \in Seq(Message) BY SMTT(30), <2>4, <3>3
      <4>2. [job[s] EXCEPT !.flush = Append(job[s].flush, rq)] \in Jobs BY <3>3, <4>1 DEF Jobs
      <4> QED BY <2>0, <3>1, <3>2, <3>3, <4>2 DEF Shape
    <3>5. /\ job'[s].msg = job[s].msg /\ job'[s].busy = job[s].busy
          /\ job'[s].finished = job[s].finished /\ job'[s].shut = job[s].shut
          /\ job'[s].flush = Append(job[s].flush, rq)
      BY <3>3, <3>4 DEF Jobs
    <3>6. ASSUME NEW t \in Slaves PROVE SlaveOK(t)' /\ JobOK(t)'
      <4>1. SlaveOK(t) /\ JobOK(t) BY <2>0 DEF SlavesInv
      <4>2. CASE t # s
        <5>1. Elements(work') = Elements(work) BY <2>1
        <5> QED BY <2>1, <3>1, <3>4, <4>1, <4>2, <5>1, <1>SlaveFrame
      <4>3. CASE t = s
        <5>1. pc[s] \in InWork /\ reader # "done" BY <3>2, <4>1, <4>3 DEF SlaveOK
        <5>2. SlaveOK(s)' BY <2>1, <3>1, <4>1, <4>3 DEF SlaveOK
        <5>3. job'[s].flush # <<>> /\ \A i \in DOMAIN job'[s].flush : Flush(job'[s].flush[i])
          <6>1. /\ DOMAIN Append(job[s].flush, rq) = DOMAIN job[s].flush \cup {Len(job[s].flush) + 1}
                /\ Append(job[s].flush, rq)[Len(job[s].flush) + 1] = rq
                /\ \A i \in DOMAIN job[s].flush : Append(job[s].flush, rq)[i] = job[s].flush[i]
            BY SMTT(30), <2>4, <3>3, Appended
          <6>2. \A i \in DOMAIN job[s].flush : Flush(job[s].flush[i]) BY <4>1, <4>3 DEF JobOK
          <6>3. Append(job[s].flush, rq) # <<>> BY SMTT(30), <2>4, <3>3
          <6> QED BY <2>4, <3>5, <6>1, <6>2, <6>3
        <5>4. pc[s] \notin {"unlink", "free"} /\ ~job[s].shut
          <6>1. JobOK(s) BY <4>1, <4>3
          <6> QED BY <2>6, <5>1, <6>1 DEF JobOK
        <5>5. swi'[s] => job[s].busy
          <6>1. JobOK(s) BY <4>1, <4>3
          <6> QED BY <3>4, <5>4, <6>1 DEF JobOK
        <5>6. JobOK(s)'
          <6>1. JobOK(s) /\ pc' = pc BY <2>1, <4>1, <4>3
          <6>2. HasJob(s) /\ HasJob(s)' BY <5>1, <6>1 DEF HasJob, InWork
          <6> QED BY <3>5, <5>3, <5>4, <5>5, <6>1, <6>2 DEF JobOK
        <5> QED BY <4>3, <5>2, <5>6
      <4> QED BY <4>2, <4>3
    <3>7. WaitInv' BY <2>0, <2>1 DEF WaitInv, wvars
    <3>8. Shape'
      <4>1. reader' \in Readers /\ rq' \in Message BY <3>1, NoneTypes DEF Readers
      <4> QED BY <2>0, <2>1, <3>1, <3>4, <4>1 DEF Shape, wvars
    <3>9. ReaderInv' BY <2>0, <2>1, <3>1 DEF ReaderInv
    <3>10. WorkInv' BY <2>0, <2>1 DEF WorkInv
    <3> QED BY <3>6, <3>7, <3>8, <3>9, <3>10 DEF SInv, SlavesInv
  <2>7. \A s \in Elements(work) : s \in Slaves BY <2>3 DEF Elements
  <2>8. ASSUME NEW s \in Elements(work), job[s].finished, FlushJob(s) PROVE SInv'
    BY <2>5, <2>8 DEF FlushJob
  <2> QED BY <2>2, <2>3, <2>5, <2>6, <2>7, <2>8

\* exshutdown tells the slaves that are in fs->work.
<1>ShutWorkStep.
     ASSUME SInv, ShutWork
     PROVE  SInv'
  <2> USE <1>ShutWorkStep
  <2>0. Shape /\ WaitInv /\ SlavesInv /\ WorkInv /\ ReaderInv BY DEF SInv
  <2>1. /\ reader = "shut" /\ work' = <<>> /\ reader' = "done"
        /\ job' = [s \in Slaves |-> [job[s] EXCEPT !.shut = @ \/ s \in Elements(work)]]
        /\ swi' = [s \in Slaves |-> swi[s] \/ s \in Elements(work)]
        /\ UNCHANGED <<rq, head, tailok, exql, leaked, wvars, pc, cur, down, pending, wire, lost>>
    BY DEF ShutWork, qvars, cvars
  <2>2. down /\ head = <<>> /\ exql = None BY <2>0, <2>1 DEF ReaderInv
  <2>3. ASSUME NEW s \in Slaves
        PROVE  /\ [job[s] EXCEPT !.shut = @ \/ s \in Elements(work)] \in Jobs
               /\ job'[s].msg = job[s].msg /\ job'[s].busy = job[s].busy
               /\ job'[s].finished = job[s].finished /\ job'[s].flush = job[s].flush
               /\ job'[s].shut = (job[s].shut \/ s \in Elements(work))
               /\ s \notin Elements(work) => job'[s] = job[s]
    <3>1. job[s] \in Jobs BY <2>0 DEF Shape
    <3> QED BY <2>1, <3>1 DEF Jobs
  <2>4. job' \in [Slaves -> Jobs] /\ swi' \in [Slaves -> BOOLEAN] BY <2>0, <2>1, <2>3 DEF Shape
  <2>5. ASSUME NEW s \in Slaves PROVE SlaveOK(s)' /\ JobOK(s)'
    <3>1. SlaveOK(s) /\ JobOK(s) BY <2>0 DEF SlavesInv
    <3>2. s \notin Elements(work') BY SMTT(30), <2>1 DEF Elements
    <3>3. SlaveOK(s)' BY <2>1, <3>1, <3>2 DEF SlaveOK
    <3>4. swi'[s] = (swi[s] \/ s \in Elements(work)) BY <2>1
    <3>5. s \in Elements(work) => pc[s] \in InWork BY <3>1 DEF SlaveOK
    <3>6. JobOK(s)' BY SMTT(30), <2>1, <2>2, <2>3, <3>1, <3>4, <3>5 DEF JobOK, HasJob, InWork
    <3> QED BY <3>3, <3>6
  <2>6. WaitInv' BY <2>0, <2>1 DEF WaitInv, wvars
  <2>7. Shape'
    <3>1. reader' \in Readers /\ work' \in Seq(Slaves) BY SMTT(30), <2>1 DEF Readers
    <3> QED BY <2>0, <2>1, <2>4, <3>1 DEF Shape, wvars
  <2>8. ReaderInv' BY <2>0, <2>1, <2>2 DEF ReaderInv
  <2>9. WorkInv' BY SMTT(30), <2>1 DEF WorkInv
  <2> QED BY <2>5, <2>6, <2>7, <2>8, <2>9 DEF SInv, SlavesInv

\* A step of a slave that neither holds exq.qwait nor waits for it.
<1>OwnStep.
     ASSUME SInv, NEW s \in Slaves, NEW l \in Labels \ (Holding \cup {"queued"}),
            pc[s] \notin Holding \cup {"queued"}, Goto(s, l),
            UNCHANGED <<rvars, qvars, leaked, wvars, down>>,
            job' \in [Slaves -> Jobs], cur' \in [Slaves -> Message], swi' \in [Slaves -> BOOLEAN],
            \A t \in Slaves \ {s} : job'[t] = job[t] /\ cur'[t] = cur[t] /\ swi'[t] = swi[t],
            exql' \in Slaves \cup {None}, work' \in Seq(Slaves),
            \A t \in Slaves \ {s} : exql' = t <=> exql = t,
            \A t \in Slaves \ {s} : t \in Elements(work') <=> t \in Elements(work),
            pending' \in Seq(Message), wire' \in Seq(Message), lost' \subseteq Message,
            WorkInv', exql' = exql \/ exql' = None,
            pc'[s] = l => SlaveOK(s)' /\ JobOK(s)'
     PROVE  SInv'
  <2> USE <1>OwnStep
  <2>0. Shape /\ WaitInv /\ SlavesInv /\ ReaderInv BY DEF SInv
  <2>1. pc' \in [Slaves -> Labels] /\ pc'[s] = l /\ \A t \in Slaves \ {s} : pc'[t] = pc[t]
    <3>1. pc \in [Slaves -> Labels] /\ pc' = [pc EXCEPT ![s] = l] /\ l \in Labels BY <2>0 DEF Shape, Goto
    <3> QED BY <3>1
  <2>2. WaitInv'
    <3>1. pc'[s] \notin Holding \cup {"queued"} BY <2>1
    <3> QED BY <2>0, <2>1, <3>1, <1>WaitFrame
  <2>3. ASSUME NEW t \in Slaves PROVE SlaveOK(t)' /\ JobOK(t)'
    <3>1. CASE t = s BY <2>1, <3>1
    <3>2. CASE t # s
      <4>1. SlaveOK(t) /\ JobOK(t) BY <2>0 DEF SlavesInv
      <4>2. pc'[t] = pc[t] /\ job'[t] = job[t] /\ cur'[t] = cur[t] /\ swi'[t] = swi[t] BY <2>1, <3>2
      <4>3. exql' = t <=> exql = t BY <3>2
      <4>4. t \in Elements(work') <=> t \in Elements(work) BY <3>2
      <4>5. reader' = reader /\ down' = down BY DEF rvars
      <4> QED BY SMTT(30), <4>1, <4>2, <4>3, <4>4, <4>5, <1>SlaveFrame
    <3> QED BY <3>1, <3>2
  <2>4. Shape' BY <2>0, <2>1 DEF Shape, rvars, qvars, wvars
  <2>5. ReaderInv' BY <2>0 DEF ReaderInv, rvars, qvars
  <2> QED BY <2>2, <2>3, <2>4, <2>5 DEF SInv, SlavesInv

\* What a slave does between run and unlink, but for the answers.
<1>RunSteps.
     ASSUME SInv, NEW s \in Slaves, Fcall(s) \/ End(s) \/ Flushes(s)
     PROVE  SInv'
  <2> USE <1>RunSteps
  <2>0. Shape /\ SlaveOK(s) /\ JobOK(s) /\ WorkInv BY DEF SInv, SlavesInv
  <2>1. /\ UNCHANGED <<reader, rq, head, tailok, exql, leaked, work, wvars, down, pending, wire, lost>>
        /\ pc[s] \in {"run", "end", "flushes"}
    BY DEF Fcall, End, Flushes, At, rvars, qvars, cvars
  <2>2. /\ job \in [Slaves -> Jobs] /\ cur \in [Slaves -> Message] /\ swi \in [Slaves -> BOOLEAN]
        /\ pc \in [Slaves -> Labels]
        /\ job[s] \in Jobs /\ job[s].flush \in Seq(Message) /\ job[s].shut \in BOOLEAN
        /\ exql \in Slaves \cup {None} /\ work \in Seq(Slaves)
        /\ pending \in Seq(Message) /\ wire \in Seq(Message) /\ lost \subseteq Message
    <3>1. job \in [Slaves -> Jobs] BY <2>0 DEF Shape
    <3>2. job[s] \in Jobs BY <3>1
    <3>3. job[s].flush \in Seq(Message) /\ job[s].shut \in BOOLEAN BY <3>2 DEF Jobs
    <3> QED BY <2>0, <3>1, <3>2, <3>3 DEF Shape
  <2>3. SUFFICES \E l \in Labels \ (Holding \cup {"queued"}) :
                   /\ Goto(s, l)
                   /\ job' \in [Slaves -> Jobs] /\ cur' \in [Slaves -> Message] /\ swi' \in [Slaves -> BOOLEAN]
                   /\ \A t \in Slaves \ {s} : job'[t] = job[t] /\ cur'[t] = cur[t] /\ swi'[t] = swi[t]
                   /\ pc'[s] = l => SlaveOK(s)' /\ JobOK(s)'
    <3> SUFFICES ASSUME NEW l \in Labels \ (Holding \cup {"queued"}), Goto(s, l),
                        job' \in [Slaves -> Jobs], cur' \in [Slaves -> Message], swi' \in [Slaves -> BOOLEAN],
                        \A t \in Slaves \ {s} : job'[t] = job[t] /\ cur'[t] = cur[t] /\ swi'[t] = swi[t],
                        pc'[s] = l => SlaveOK(s)' /\ JobOK(s)'
                 PROVE  SInv'
      OBVIOUS
    <3>1. UNCHANGED <<rvars, qvars, leaked, wvars, down>> /\ WorkInv' BY <2>0, <2>1 DEF rvars, qvars, WorkInv
    <3>2. pc[s] \notin Holding \cup {"queued"} BY <2>1 DEF Holding
    <3>3. Elements(work') = Elements(work) /\ exql' = exql /\ work' = work /\ pending' = pending /\ wire' = wire /\ lost' = lost
      BY <2>1
    <3> QED BY <2>2, <3>1, <3>2, <3>3, <1>OwnStep
  <2>4. CASE Fcall(s)
    <3>1. PICK err \in BOOLEAN : job' = [job EXCEPT ![s].err = err] BY <2>4 DEF Fcall
    <3>2. pc[s] = "run" /\ Goto(s, "end") /\ cur' = cur /\ swi' = swi BY <2>4 DEF Fcall, At
    <3>3. /\ job' \in [Slaves -> Jobs]
          /\ \A t \in Slaves \ {s} : job'[t] = job[t]
          /\ job'[s].msg = job[s].msg /\ job'[s].busy = job[s].busy /\ job'[s].finished = job[s].finished
          /\ job'[s].shut = job[s].shut /\ job'[s].flush = job[s].flush
      <4>1. [job[s] EXCEPT !.err = err] \in Jobs BY <2>2 DEF Jobs
      <4>2. job' = [job EXCEPT ![s] = [job[s] EXCEPT !.err = err]] BY <3>1
      <4>3. job'[s] = [job[s] EXCEPT !.err = err] BY <2>2, <4>2
      <4> QED BY <2>2, <4>1, <4>2, <4>3 DEF Jobs
    <3>4. ASSUME pc'[s] = "end" PROVE SlaveOK(s)' /\ JobOK(s)'
      <4>1. SlaveOK(s)' BY <2>0, <2>1, <3>2, <3>4 DEF SlaveOK, InWork
      <4>2. HasJob(s) /\ HasJob(s)' BY <3>2, <3>4 DEF HasJob
      <4>3. JobOK(s)' BY <2>0, <2>1, <3>2, <3>3, <3>4, <4>2 DEF JobOK
      <4> QED BY <4>1, <4>3
    <3>5. "end" \in Labels \ (Holding \cup {"queued"}) BY DEF Labels, Holding
    <3> QED BY <2>2, <3>2, <3>3, <3>4, <3>5
  <2>5. CASE End(s)
    <3>1. /\ pc[s] = "end" /\ swi' = [swi EXCEPT ![s] = FALSE] /\ cur' = cur
          /\ job' = [job EXCEPT ![s].busy = FALSE, ![s].finished = job[s].shut]
      BY <2>5 DEF End, At
    <3>2. PICK l : l = IF job[s].shut THEN "unlink"
                       ELSE IF job[s].flush = <<>> \/ ~job[s].err THEN "reply"
                       ELSE "flushes"
      OBVIOUS
    <3>3. Goto(s, l) BY <2>5, <3>2 DEF End
    <3>4. /\ job' \in [Slaves -> Jobs] /\ swi' \in [Slaves -> BOOLEAN] /\ ~swi'[s]
          /\ \A t \in Slaves \ {s} : job'[t] = job[t] /\ swi'[t] = swi[t]
          /\ job'[s].msg = job[s].msg /\ ~job'[s].busy /\ job'[s].finished = job[s].shut
          /\ job'[s].shut = job[s].shut /\ job'[s].flush = job[s].flush
      <4>1. [job[s] EXCEPT !.busy = FALSE, !.finished = job[s].shut] \in Jobs BY <2>2 DEF Jobs
      <4>2. job' = [job EXCEPT ![s] = [job[s] EXCEPT !.busy = FALSE, !.finished = job[s].shut]] BY <2>2, <3>1
      <4>3. job'[s] = [job[s] EXCEPT !.busy = FALSE, !.finished = job[s].shut] BY <2>2, <4>2
      <4> QED BY SMTT(30), <2>2, <3>1, <4>1, <4>2, <4>3 DEF Jobs
    <3>5. /\ l \in {"unlink", "reply", "flushes"} /\ (l = "unlink" <=> job[s].shut) BY <3>2
    <3>6. ASSUME pc'[s] = l PROVE SlaveOK(s)' /\ JobOK(s)'
      <4>1. SlaveOK(s)' BY <2>0, <2>1, <3>1, <3>5, <3>6 DEF SlaveOK, InWork
      <4>2. HasJob(s) /\ HasJob(s)' BY <3>1, <3>5, <3>6 DEF HasJob
      <4>3. JobOK(s)' BY <2>0, <2>1, <2>2, <3>1, <3>4, <3>5, <3>6, <4>2 DEF JobOK
      <4> QED BY <4>1, <4>3
    <3>7. l \in Labels \ (Holding \cup {"queued"}) BY <3>5 DEF Labels, Holding
    <3> QED BY <2>2, <3>1, <3>3, <3>4, <3>6, <3>7
  <2>6. CASE Flushes(s)
    <3>0. pc[s] = "flushes" /\ swi' = swi BY <2>6 DEF Flushes, At
    <3>1. CASE job[s].flush # <<>> /\ ~job[s].shut
      <4>1. /\ cur' = [cur EXCEPT ![s] = Head(job[s].flush)]
            /\ job' = [job EXCEPT ![s].flush = Tail(@)]
            /\ Goto(s, "rflush")
        BY <2>6, <3>1 DEF Flushes
      <4>2. /\ Tail(job[s].flush) \in Seq(Message) /\ Head(job[s].flush) \in Message
            /\ Head(job[s].flush) = job[s].flush[1] /\ 1 \in DOMAIN job[s].flush
            /\ \A i \in DOMAIN Tail(job[s].flush) :
                 Tail(job[s].flush)[i] = job[s].flush[i + 1] /\ i + 1 \in DOMAIN job[s].flush
        BY <2>2, <3>1, Tailed
      <4>3. /\ job' \in [Slaves -> Jobs] /\ cur' \in [Slaves -> Message]
            /\ \A t \in Slaves \ {s} : job'[t] = job[t] /\ cur'[t] = cur[t]
            /\ job'[s].msg = job[s].msg /\ job'[s].busy = job[s].busy /\ job'[s].finished = job[s].finished
            /\ job'[s].shut = job[s].shut /\ job'[s].flush = Tail(job[s].flush)
            /\ cur'[s] = job[s].flush[1]
        <5>1. [job[s] EXCEPT !.flush = Tail(job[s].flush)] \in Jobs BY <2>2, <4>2 DEF Jobs
        <5>2. job' = [job EXCEPT ![s] = [job[s] EXCEPT !.flush = Tail(job[s].flush)]] BY <2>2, <4>1
        <5>3. job'[s] = [job[s] EXCEPT !.flush = Tail(job[s].flush)] BY <2>2, <5>2
        <5> QED BY <2>2, <4>1, <4>2, <5>1, <5>2, <5>3 DEF Jobs
      <4>4. \A i \in DOMAIN job[s].flush : Flush(job[s].flush[i]) BY <2>0 DEF JobOK
      <4>5. /\ Flush(cur'[s]) /\ cur'[s] # NoMsg
            /\ \A i \in DOMAIN job'[s].flush : Flush(job'[s].flush[i])
        BY SMTT(30), <4>2, <4>3, <4>4, NoneTypes DEF Flush
      <4>6. ASSUME pc'[s] = "rflush" PROVE SlaveOK(s)' /\ JobOK(s)'
        <5>1. SlaveOK(s)' BY <2>0, <2>1, <3>0, <4>5, <4>6 DEF SlaveOK, InWork
        <5>2. HasJob(s) /\ HasJob(s)' BY <3>0, <4>6 DEF HasJob
        <5>3. JobOK(s)' BY <2>0, <2>1, <3>0, <3>1, <4>3, <4>5, <4>6, <5>2 DEF JobOK
        <5> QED BY <5>1, <5>3
      <4>7. "rflush" \in Labels \ (Holding \cup {"queued"}) BY DEF Labels, Holding
      <4> QED BY <2>2, <3>0, <4>1, <4>3, <4>6, <4>7
    <3>2. CASE ~(job[s].flush # <<>> /\ ~job[s].shut)
      <4>1. /\ cur' = cur /\ job' = [job EXCEPT ![s].finished = TRUE]
            /\ Goto(s, "unlink")
        BY <2>6, <3>2 DEF Flushes
      <4>3. /\ job' \in [Slaves -> Jobs]
            /\ \A t \in Slaves \ {s} : job'[t] = job[t]
            /\ job'[s].msg = job[s].msg /\ job'[s].busy = job[s].busy /\ job'[s].finished = TRUE
            /\ job'[s].shut = job[s].shut /\ job'[s].flush = job[s].flush
        <5>1. [job[s] EXCEPT !.finished = TRUE] \in Jobs BY <2>2 DEF Jobs
        <5>2. job' = [job EXCEPT ![s] = [job[s] EXCEPT !.finished = TRUE]] BY <2>2, <4>1
        <5>3. job'[s] = [job[s] EXCEPT !.finished = TRUE] BY <2>2, <5>2
        <5> QED BY SMTT(30), <2>2, <4>1, <5>1, <5>2, <5>3 DEF Jobs
      <4>6. ASSUME pc'[s] = "unlink" PROVE SlaveOK(s)' /\ JobOK(s)'
        <5>1. SlaveOK(s)' BY <2>0, <2>1, <3>0, <4>1, <4>6 DEF SlaveOK, InWork
        <5>2. HasJob(s) /\ HasJob(s)' BY <3>0, <4>6 DEF HasJob
        <5>3. JobOK(s)' BY <2>0, <2>1, <3>0, <3>2, <4>3, <4>6, <5>2 DEF JobOK
        <5> QED BY <5>1, <5>3
      <4>7. "unlink" \in Labels \ (Holding \cup {"queued"}) BY DEF Labels, Holding
      <4> QED BY <2>2, <3>0, <4>1, <4>3, <4>6, <4>7
    <3> QED BY <3>1, <3>2
  <2> QED BY <2>4, <2>5, <2>6

\* A slave answers.
<1>AnswerSteps.
     ASSUME SInv, NEW s \in Slaves, Reply(s) \/ Rflush(s)
     PROVE  SInv'
  <2> USE <1>AnswerSteps
  <2>0. Shape /\ SlaveOK(s) /\ JobOK(s) /\ WorkInv BY DEF SInv, SlavesInv
  <2>1. /\ UNCHANGED <<rvars, qvars, exql, leaked, work, wvars, job, swi, down>>
        /\ Goto(s, "flushes") /\ pc[s] \in {"reply", "rflush"}
        /\ Exreply(job[s].msg) \/ Exreply(cur[s])
        /\ cur' = cur \/ cur' = [cur EXCEPT ![s] = NoMsg]
        /\ pc[s] = "rflush" => cur' = [cur EXCEPT ![s] = NoMsg]
    BY DEF Reply, Rflush, At
  <2>2. /\ job \in [Slaves -> Jobs] /\ cur \in [Slaves -> Message] /\ swi \in [Slaves -> BOOLEAN]
        /\ exql \in Slaves \cup {None} /\ work \in Seq(Slaves) /\ job[s].msg \in Message /\ cur[s] \in Message
    <3>1. job \in [Slaves -> Jobs] /\ cur \in [Slaves -> Message] BY <2>0 DEF Shape
    <3>2. job[s].msg \in Message /\ cur[s] \in Message BY <3>1 DEF Jobs
    <3> QED BY <2>0, <3>1, <3>2 DEF Shape
  <2>3. pending' \in Seq(Message) /\ wire' \in Seq(Message) /\ lost' \subseteq Message
    BY <2>0, <2>1, <2>2, <1>ExreplyType
  <2>4. /\ cur' \in [Slaves -> Message] /\ \A t \in Slaves \ {s} : cur'[t] = cur[t]
        /\ cur'[s] = NoMsg
    <3>1. pc[s] = "reply" => cur[s] = NoMsg BY <2>0 DEF SlaveOK
    <3> QED BY <2>1, <2>2, <3>1, NoneTypes
  <2>5. ASSUME pc'[s] = "flushes" PROVE SlaveOK(s)' /\ JobOK(s)'
    <3>0. reader' = reader BY <2>1 DEF rvars
    <3>1. SlaveOK(s)' BY <2>0, <2>1, <2>4, <2>5, <3>0 DEF SlaveOK, InWork
    <3>2. HasJob(s) /\ HasJob(s)' BY <2>1, <2>5 DEF HasJob
    <3>3. JobOK(s)' BY <2>0, <2>1, <2>5, <3>0, <3>2 DEF JobOK
    <3> QED BY <3>1, <3>3
  <2>6. /\ "flushes" \in Labels \ (Holding \cup {"queued"}) /\ pc[s] \notin Holding \cup {"queued"}
    BY <2>1 DEF Labels, Holding
  <2>7. WorkInv' /\ Elements(work') = Elements(work) BY <2>0, <2>1 DEF WorkInv
  <2>8. UNCHANGED <<rvars, qvars, leaked, wvars, down>> /\ exql' = exql /\ work' = work /\ job' = job /\ swi' = swi
    BY <2>1
  <2> QED BY <2>1, <2>2, <2>3, <2>4, <2>5, <2>6, <2>7, <2>8, <1>OwnStep

\* A job begins and ends.
<1>JobSteps.
     ASSUME SInv, NEW s \in Slaves, Start(s) \/ Unlink(s) \/ Free(s)
     PROVE  SInv'
  <2> USE <1>JobSteps
  <2>0. Shape /\ SlaveOK(s) /\ JobOK(s) /\ WorkInv /\ ReaderInv BY DEF SInv, SlavesInv
  <2>1. /\ job \in [Slaves -> Jobs] /\ cur \in [Slaves -> Message] /\ swi \in [Slaves -> BOOLEAN]
        /\ exql \in Slaves \cup {None} /\ work \in Seq(Slaves) /\ cur[s] \in Message
        /\ pending \in Seq(Message) /\ wire \in Seq(Message) /\ lost \subseteq Message
    BY <2>0 DEF Shape
  <2>2. CASE Start(s)
    <3>1. /\ pc[s] = "start" /\ swi' = [swi EXCEPT ![s] = FALSE] /\ Goto(s, "run")
          /\ job' = [job EXCEPT ![s] = [NoJob EXCEPT !.msg = cur[s], !.busy = TRUE]]
          /\ cur' = [cur EXCEPT ![s] = NoMsg]
          /\ work' = <<s>> \o work /\ exql' = None
          /\ UNCHANGED <<rvars, qvars, leaked, wvars, down>> /\ pending' = pending /\ wire' = wire /\ lost' = lost
      BY <2>2 DEF Start, At, cvars
    <3>2. exql = s /\ Request(cur[s]) /\ s \notin Elements(work) BY <2>0, <3>1 DEF SlaveOK, InWork
    <3>3. /\ work' \in Seq(Slaves) /\ work'[1] = s
          /\ \A i \in DOMAIN work' : i = 1 \/ (i - 1 \in DOMAIN work /\ work'[i] = work[i - 1])
          /\ Elements(work') = Elements(work) \cup {s}
      BY SMTT(30), <2>1, <3>1, Consed
    <3>4. PICK j : j = [NoJob EXCEPT !.msg = cur[s], !.busy = TRUE] OBVIOUS
    <3>5. /\ j \in Jobs /\ j.msg = cur[s] /\ j.busy = TRUE /\ j.finished = FALSE /\ j.shut = FALSE
          /\ j.flush = <<>>
      BY <2>1, <3>4, NoneTypes DEF Jobs
    <3>6. /\ job' \in [Slaves -> Jobs] /\ cur' \in [Slaves -> Message] /\ swi' \in [Slaves -> BOOLEAN]
          /\ job'[s] = j /\ cur'[s] = NoMsg /\ ~swi'[s]
          /\ \A t \in Slaves \ {s} : job'[t] = job[t] /\ cur'[t] = cur[t] /\ swi'[t] = swi[t]
      BY <2>1, <3>1, <3>4, <3>5, NoneTypes
    <3>7. WorkInv'
      <4> SUFFICES ASSUME NEW i \in DOMAIN work', NEW k \in DOMAIN work', work'[i] = work'[k] PROVE i = k
        BY DEF WorkInv
      <4>1. \A n \in DOMAIN work : work[n] # s BY <3>2 DEF Elements
      <4>2. i \in Int /\ k \in Int BY SMTT(30), <3>3
      <4>3. i = 1 <=> k = 1 BY <3>3, <4>1
      <4>4. CASE i # 1
        <5>1. work[i - 1] = work[k - 1] /\ i - 1 \in DOMAIN work /\ k - 1 \in DOMAIN work BY <3>3, <4>3, <4>4
        <5>2. i - 1 = k - 1 BY <2>0, <5>1 DEF WorkInv
        <5> QED BY SMTT(30), <4>2, <5>2
      <4> QED BY <4>3, <4>4
    <3>8. ASSUME pc'[s] = "run" PROVE SlaveOK(s)' /\ JobOK(s)'
      <4>0. reader' = reader /\ reader # "done" BY SMTT(30), <2>0, <3>1, <3>2 DEF rvars, ReaderInv
      <4>a. s \in Elements(work') /\ exql' # s /\ cur'[s] = NoMsg BY SMTT(30), <3>1, <3>3, <3>6
      <4>1. SlaveOK(s)' BY <3>8, <4>0, <4>a DEF SlaveOK, InWork
      <4>2. HasJob(s)' BY <3>8 DEF HasJob
      <4>3. JobOK(s)' BY SMTT(30), <3>2, <3>5, <3>6, <3>8, <4>2 DEF JobOK
      <4> QED BY <4>1, <4>3
    <3>9. /\ "run" \in Labels \ (Holding \cup {"queued"}) /\ pc[s] \notin Holding \cup {"queued"}
      BY <3>1 DEF Labels, Holding
    <3>10. /\ exql' \in Slaves \cup {None} /\ \A t \in Slaves \ {s} : exql' = t <=> exql = t
      BY SMTT(30), <3>1, <3>2
    <3>11. \A t \in Slaves \ {s} : t \in Elements(work') <=> t \in Elements(work) BY <3>3
    <3> QED BY <2>1, <3>1, <3>3, <3>6, <3>7, <3>8, <3>9, <3>10, <3>11, <1>OwnStep
  <2>3. CASE Unlink(s)
    <3>0. PICK K : K = {i \in DOMAIN work : work[i] # s} OBVIOUS
    <3>1. /\ pc[s] = "unlink" /\ Goto(s, "free") /\ work' \in Kept(work, K)
          /\ job' = job /\ cur' = cur /\ swi' = swi /\ exql' = exql
          /\ UNCHANGED <<rvars, qvars, leaked, wvars, down>> /\ pending' = pending /\ wire' = wire /\ lost' = lost
      BY <2>3, <3>0 DEF Unlink, At, cvars
    <3>2. K \in SUBSET DOMAIN work BY <3>0
    <3>3. work' \in Seq(Slaves) /\ Selected(work', work, K)
      <4>1. work \in Seq(Slaves) BY <2>1
      <4> HIDE DEF Slaves
      <4> QED BY <3>1, <3>2, <4>1, KeptFacts
    <3>4. PICK g \in [DOMAIN work' -> K] : Orders(g, K) /\ \A i \in DOMAIN work' : work'[i] = work[g[i]]
      BY <3>3 DEF Selected
    <3>5. \A t \in Slaves : t \in Elements(work') <=> t \in Elements(work) /\ t # s
      <4>1. \A i \in DOMAIN work' : g[i] \in DOMAIN work /\ work[g[i]] # s /\ work'[i] = work[g[i]]
        BY <3>0, <3>4
      <4>2. \A k \in DOMAIN work : work[k] # s => \E i \in DOMAIN work' : work'[i] = work[k]
        BY SMTT(30), <3>0, <3>4 DEF Orders
      <4> QED BY SMTT(30), <4>1, <4>2 DEF Elements
    <3>6. WorkInv'
      <4> SUFFICES ASSUME NEW i \in DOMAIN work', NEW j \in DOMAIN work', work'[i] = work'[j] PROVE i = j
        BY DEF WorkInv
      <4>1. g[i] \in DOMAIN work /\ g[j] \in DOMAIN work /\ work[g[i]] = work[g[j]] BY <3>2, <3>4
      <4>2. g[i] = g[j] BY <2>0, <4>1 DEF WorkInv
      <4>3. g[i] \in Int BY SMTT(30), <2>1, <4>1
      <4>4. ~(g[i] < g[j]) /\ ~(g[j] < g[i]) BY SMTT(30), <4>2, <4>3
      <4>5. ~(i < j) /\ ~(j < i) BY <3>4, <4>4 DEF Orders
      <4>6. i \in Int /\ j \in Int BY SMTT(30), <3>3
      <4> QED BY SMTT(30), <4>5, <4>6
    <3>7. ASSUME pc'[s] = "free" PROVE SlaveOK(s)' /\ JobOK(s)'
      <4>0. reader' = reader /\ down' = down BY <3>1 DEF rvars
      <4>1. SlaveOK(s)' BY <2>0, <3>1, <3>5, <3>7, <4>0 DEF SlaveOK, InWork
      <4>2. HasJob(s) /\ HasJob(s)' BY <3>1, <3>7 DEF HasJob
      <4>3. JobOK(s)' BY SMTT(30), <2>0, <3>1, <3>7, <4>0, <4>2 DEF JobOK
      <4> QED BY <4>1, <4>3
    <3>8. /\ "free" \in Labels \ (Holding \cup {"queued"}) /\ pc[s] \notin Holding \cup {"queued"}
      BY <3>1 DEF Labels, Holding
    <3>9. \A t \in Slaves \ {s} : t \in Elements(work') <=> t \in Elements(work) BY <3>5
    <3> QED BY <2>1, <3>1, <3>3, <3>6, <3>7, <3>8, <3>9, <1>OwnStep
  <2>4. CASE Free(s)
    <3>0. /\ pc[s] = "free" /\ work' = work /\ swi' = [swi EXCEPT ![s] = FALSE] /\ cur' = cur /\ exql' = exql
          /\ UNCHANGED <<rvars, qvars, leaked, wvars, down>> /\ pending' = pending /\ wire' = wire /\ lost' = lost
      BY <2>4 DEF Free, At, cvars
    <3>a. WorkInv' /\ Elements(work') = Elements(work) /\ reader' = reader BY <2>0, <3>0 DEF WorkInv, rvars
    <3>1. CASE job[s].flush # <<>>
      <4>1. job' = [job EXCEPT ![s].flush = Tail(@)] /\ pc' = pc BY <2>4, <3>1 DEF Free
      <4>2. job[s] \in Jobs /\ job[s].flush \in Seq(Message) BY <2>1 DEF Jobs
      <4>3. /\ Tail(job[s].flush) \in Seq(Message)
            /\ \A i \in DOMAIN Tail(job[s].flush) :
                 Tail(job[s].flush)[i] = job[s].flush[i + 1] /\ i + 1 \in DOMAIN job[s].flush
        BY <3>1, <4>2, Tailed
      <4>4. /\ job' \in [Slaves -> Jobs] /\ swi' \in [Slaves -> BOOLEAN] /\ ~swi'[s]
            /\ \A t \in Slaves \ {s} : job'[t] = job[t] /\ swi'[t] = swi[t]
            /\ job'[s].msg = job[s].msg /\ job'[s].busy = job[s].busy /\ job'[s].finished = job[s].finished
            /\ job'[s].shut = job[s].shut /\ job'[s].flush = Tail(job[s].flush)
        <5>1. [job[s] EXCEPT !.flush = Tail(job[s].flush)] \in Jobs BY <4>2, <4>3 DEF Jobs
        <5>2. job' = [job EXCEPT ![s] = [job[s] EXCEPT !.flush = Tail(job[s].flush)]] BY <2>1, <4>1
        <5>3. job'[s] = [job[s] EXCEPT !.flush = Tail(job[s].flush)] BY <2>1, <5>2
        <5> QED BY <2>1, <3>0, <4>2, <5>1, <5>2, <5>3 DEF Jobs
      <4>5. \A i \in DOMAIN job'[s].flush : Flush(job'[s].flush[i]) BY SMTT(30), <2>0, <4>3, <4>4 DEF JobOK
      <4>6. SlaveOK(s)' BY <2>0, <3>0, <3>a, <4>1 DEF SlaveOK, InWork
      <4>7. JobOK(s)'
        <5>1. HasJob(s) /\ HasJob(s)' BY <3>0, <4>1 DEF HasJob
        <5>2. job[s].shut BY <2>0, <3>0, <3>1 DEF JobOK
        <5> QED BY <2>0, <3>0, <3>a, <4>1, <4>4, <4>5, <5>1, <5>2 DEF JobOK
      <4>8. /\ "free" \in Labels \ (Holding \cup {"queued"}) /\ pc[s] \notin Holding \cup {"queued"}
        BY <3>0 DEF Labels, Holding
      <4>9. Goto(s, "free") BY <2>0, <3>0, <4>1 DEF Shape, Goto
      <4> QED BY <2>1, <3>0, <3>a, <4>4, <4>6, <4>7, <4>8, <4>9, <1>OwnStep
    <3>2. CASE job[s].flush = <<>>
      <4>1. Goto(s, "qlock") /\ job' = [job EXCEPT ![s] = NoJob] BY <2>4, <3>2 DEF Free
      <4>2. /\ job' \in [Slaves -> Jobs] /\ swi' \in [Slaves -> BOOLEAN]
            /\ job'[s] = NoJob /\ ~swi'[s]
            /\ \A t \in Slaves \ {s} : job'[t] = job[t] /\ swi'[t] = swi[t]
        BY <2>1, <3>0, <4>1, NoneTypes
      <4>3. ASSUME pc'[s] = "qlock" PROVE SlaveOK(s)' /\ JobOK(s)'
        <5>1. SlaveOK(s)' BY <2>0, <3>0, <3>a, <4>3 DEF SlaveOK, InWork
        <5>2. ~HasJob(s)' BY <4>3 DEF HasJob
        <5>3. JobOK(s)' BY SMTT(30), <4>2, <4>3, <5>2, NoneTypes DEF JobOK
        <5> QED BY <5>1, <5>3
      <4>4. /\ "qlock" \in Labels \ (Holding \cup {"queued"}) /\ pc[s] \notin Holding \cup {"queued"}
        BY <3>0 DEF Labels, Holding
      <4> QED BY <2>1, <3>0, <3>a, <4>1, <4>2, <4>3, <4>4, <1>OwnStep
    <3> QED BY <3>1, <3>2
  <2> QED BY <2>2, <2>3, <2>4

\* A slave queues, sleeps and takes a request.
<1>TakeSteps.
     ASSUME SInv, NEW s \in Slaves, Qlock(s) \/ Sleep(s) \/ SleepReturn(s) \/ Take(s)
     PROVE  SInv'
  <2> USE <1>TakeSteps
  <2>0. Shape /\ WaitInv /\ SlavesInv /\ WorkInv /\ ReaderInv BY DEF SInv
  <2>1. /\ pc \in [Slaves -> Labels] /\ qwait \in Seq(Slaves) /\ qhold \in Slaves \cup {None}
        /\ cur \in [Slaves -> Message] /\ head \in Seq(Message)
    BY <2>0 DEF Shape
  <2>2. /\ UNCHANGED <<reader, rq, leaked, work, job, down, pending, wire, lost>>
        /\ pc[s] \in {"qlock", "sleep", "woken", "take"}
    BY DEF Qlock, Sleep, SleepReturn, Take, At, rvars, cvars
  <2>3. ~swi[s]
    <3>1. JobOK(s) BY <2>0 DEF SlavesInv
    <3> QED BY <2>2, <3>1 DEF JobOK, HasJob
  <2>4. ASSUME pc' \in [Slaves -> Labels], \A t \in Slaves : pc'[t] = pc[t] \/ (pc[t] \in Plain /\ pc'[t] \in Plain),
               WaitInv', qhold' \in Slaves \cup {None}, qwait' \in Seq(Slaves),
               UNCHANGED <<head, tailok, exql, cur, swi>>
        PROVE  SInv'
    <3>1. ASSUME NEW t \in Slaves PROVE SlaveOK(t)' /\ JobOK(t)'
      <4>1. SlaveOK(t) /\ JobOK(t) BY <2>0 DEF SlavesInv
      <4>2. Elements(work') = Elements(work) BY <2>2
      <4> QED BY <2>2, <2>4, <4>1, <4>2, <1>SlaveFrame
    <3>2. Shape' BY <2>0, <2>2, <2>4 DEF Shape
    <3>3. ReaderInv' /\ WorkInv' BY <2>0, <2>2, <2>4 DEF ReaderInv, WorkInv
    <3> QED BY <2>4, <3>1, <3>2, <3>3 DEF SInv, SlavesInv
  <2>5. CASE Qlock(s)
    <3>0. UNCHANGED <<head, tailok, exql, cur, swi>> /\ pc[s] = "qlock" BY <2>5 DEF Qlock, qvars, At
    <3>1. CASE qhold = None
      <4>1. qhold' = s /\ pc' = [pc EXCEPT ![s] = "sleep"] /\ qwait' = qwait BY <2>5, <3>1 DEF Qlock, Goto
      <4>2. pc' \in [Slaves -> Labels] /\ pc'[s] = "sleep" /\ \A t \in Slaves \ {s} : pc'[t] = pc[t]
        BY <2>1, <4>1 DEF Labels
      <4>3. WaitInv'
        <5>1. \A t \in Slaves : qhold' = t <=> pc'[t] \in Holding BY SMTT(30), <2>0, <3>1, <4>1, <4>2 DEF WaitInv, Holding
        <5>2. \A t \in Slaves : t \in Elements(qwait') <=> pc'[t] = "queued" BY <2>0, <3>0, <4>1, <4>2 DEF WaitInv
        <5> QED BY <2>0, <4>1, <5>1, <5>2 DEF WaitInv
      <4>4. \A t \in Slaves : pc'[t] = pc[t] \/ (pc[t] \in Plain /\ pc'[t] \in Plain) BY <3>0, <4>2 DEF Plain, Holding
      <4> QED BY <2>1, <2>4, <3>0, <4>1, <4>2, <4>3, <4>4
    <3>2. CASE qhold # None
      <4>1. qhold' = qhold /\ pc' = [pc EXCEPT ![s] = "queued"] /\ qwait' = Append(qwait, s)
        BY <2>5, <3>2 DEF Qlock, Goto
      <4>2. pc' \in [Slaves -> Labels] /\ pc'[s] = "queued" /\ \A t \in Slaves \ {s} : pc'[t] = pc[t]
        BY <2>1, <4>1 DEF Labels
      <4>3. /\ qwait' \in Seq(Slaves) /\ DOMAIN qwait' = DOMAIN qwait \cup {Len(qwait) + 1}
            /\ qwait'[Len(qwait) + 1] = s /\ \A i \in DOMAIN qwait : qwait'[i] = qwait[i]
            /\ Elements(qwait') = Elements(qwait) \cup {s}
        <5>1. qwait \in Seq(Slaves) BY <2>1
        <5> HIDE DEF Slaves
        <5> QED BY SMTT(30), <4>1, <5>1, Appended
      <4>4. WaitInv'
        <5>1. \A t \in Slaves : qhold' = t <=> pc'[t] \in Holding BY <2>0, <3>0, <4>1, <4>2 DEF WaitInv, Holding
        <5>2. \A t \in Slaves : t \in Elements(qwait') <=> pc'[t] = "queued" BY <2>0, <4>2, <4>3 DEF WaitInv
        <5>3. s \notin Elements(qwait) BY <2>0, <3>0 DEF WaitInv
        <5>4. \A i \in DOMAIN qwait : qwait[i] # s BY <5>3 DEF Elements
        <5>5. \A i, j \in DOMAIN qwait' : qwait'[i] = qwait'[j] => i = j
          <6>1. \A i, j \in DOMAIN qwait : qwait[i] = qwait[j] => i = j BY <2>0 DEF WaitInv
          <6> QED BY <4>3, <5>4, <6>1
        <5> QED BY <5>1, <5>2, <5>5 DEF WaitInv
      <4>5. \A t \in Slaves : pc'[t] = pc[t] \/ (pc[t] \in Plain /\ pc'[t] \in Plain) BY <3>0, <4>2 DEF Plain, Holding
      <4> QED BY <2>1, <2>4, <3>0, <4>1, <4>2, <4>3, <4>4, <4>5
    <3> QED BY <3>1, <3>2
  <2>6. ASSUME UNCHANGED wvars, pc[s] \in Holding, NEW l \in Holding, Goto(s, l), UNCHANGED <<head, tailok, exql, cur, swi>>
        PROVE  SInv'
    <3>1. pc' \in [Slaves -> Labels] /\ pc'[s] = l /\ \A t \in Slaves \ {s} : pc'[t] = pc[t]
      BY <2>1, <2>6 DEF Labels, Holding, Goto
    <3>2. WaitInv' BY <2>0, <2>6, <3>1, <1>WaitFrame
    <3>3. \A t \in Slaves : pc'[t] = pc[t] \/ (pc[t] \in Plain /\ pc'[t] \in Plain) BY <2>6, <3>1 DEF Plain
    <3>4. qhold' = qhold /\ qwait' = qwait BY <2>6 DEF wvars
    <3> QED BY <2>1, <2>4, <2>6, <3>1, <3>2, <3>3, <3>4
  <2>7. CASE Sleep(s)
    <3>1. PICK l : l = IF swi[s] \/ Exwork THEN "woken" ELSE "blocked" OBVIOUS
    <3>2. /\ UNCHANGED wvars /\ pc[s] = "sleep" /\ Goto(s, l) /\ UNCHANGED <<head, tailok, exql, cur, swi>>
      BY <2>7, <3>1 DEF Sleep, qvars, At
    <3>3. l \in Holding /\ pc[s] \in Holding BY <3>1, <3>2 DEF Holding
    <3> QED BY <2>6, <3>2, <3>3
  <2>8. CASE SleepReturn(s)
    <3>2. /\ UNCHANGED wvars /\ pc[s] = "woken" /\ Goto(s, "take") /\ UNCHANGED <<head, tailok, exql, cur, swi>>
      BY <2>3, <2>8 DEF SleepReturn, qvars, At
    <3>3. "take" \in Holding /\ pc[s] \in Holding BY <3>2 DEF Holding
    <3> QED BY <2>6, <3>2, <3>3
  <2>9. CASE Take(s)
    <3>0. pc[s] = "take" /\ exql = None /\ swi' = swi /\ pc[s] \in Holding BY <2>9 DEF Take, At, Holding
    <3>1. CASE head = <<>>
      <4>1. Qunlock(s, "qlock") /\ UNCHANGED <<head, tailok, exql, cur>> BY <2>9, <3>1 DEF Take, qvars
      <4>2. /\ WaitInv' /\ pc' \in [Slaves -> Labels] /\ pc'[s] = "qlock"
            /\ qhold' \in Slaves \cup {None} /\ qwait' \in Seq(Slaves)
            /\ \A t \in Slaves \ {s} : pc'[t] = pc[t] \/ (pc[t] = "queued" /\ pc'[t] = "sleep")
        BY <2>0, <3>0, <4>1, QunlockFacts
      <4>3. \A t \in Slaves : pc'[t] = pc[t] \/ (pc[t] \in Plain /\ pc'[t] \in Plain)
        BY <3>0, <4>2 DEF Plain, Holding
      <4> QED BY <2>4, <3>0, <4>1, <4>2, <4>3
    <3>2. CASE head # <<>>
      <4>1. /\ Qunlock(s, "start") /\ cur' = [cur EXCEPT ![s] = Head(head)] /\ head' = Tail(head)
            /\ tailok' = (tailok \/ Len(head) = 1) /\ exql' = s
        BY <2>9, <3>2 DEF Take
      <4>2. /\ WaitInv' /\ pc' \in [Slaves -> Labels] /\ pc'[s] = "start"
            /\ qhold' \in Slaves \cup {None} /\ qwait' \in Seq(Slaves)
            /\ \A t \in Slaves \ {s} : pc'[t] = pc[t] \/ (pc[t] = "queued" /\ pc'[t] = "sleep")
        BY <2>0, <3>0, <4>1, QunlockFacts
      <4>3. /\ Tail(head) \in Seq(Message) /\ Head(head) \in Message
            /\ Head(head) = head[1] /\ 1 \in DOMAIN head
            /\ \A i \in DOMAIN Tail(head) : Tail(head)[i] = head[i + 1] /\ i + 1 \in DOMAIN head
        BY <2>1, <3>2, Tailed
      <4>4. \A i \in DOMAIN head : Request(head[i]) BY <2>0 DEF ReaderInv
      <4>5. /\ cur' \in [Slaves -> Message] /\ cur'[s] = Head(head)
            /\ \A t \in Slaves \ {s} : cur'[t] = cur[t]
        BY <2>1, <4>1, <4>3
      <4>6. Request(cur'[s]) /\ cur'[s] # NoMsg BY <4>3, <4>4, <4>5, NoneTypes DEF Request
      <4>7. ASSUME NEW t \in Slaves PROVE SlaveOK(t)' /\ JobOK(t)'
        <5>0. SlaveOK(t) /\ JobOK(t) BY <2>0 DEF SlavesInv
        <5>1. CASE t # s
          <6>1. pc'[t] = pc[t] \/ (pc[t] \in Plain /\ pc'[t] \in Plain) BY <4>2, <5>1 DEF Plain, Holding
          <6>2. exql' = t <=> exql = t BY SMTT(30), <3>0, <4>1, <5>1
          <6>3. Elements(work') = Elements(work) /\ job'[t] = job[t] /\ cur'[t] = cur[t] /\ swi'[t] = swi[t]
            BY <2>2, <3>0, <4>5, <5>1
          <6>4. reader' = reader /\ down' = down BY <2>2
          <6> QED BY <5>0, <6>1, <6>2, <6>3, <6>4, <1>SlaveFrame
        <5>2. CASE t = s
          <6>1. SlaveOK(s)'
            <7>1. s \notin Elements(work') BY <2>2, <3>0, <5>0, <5>2 DEF SlaveOK, InWork
            <7> QED BY <4>1, <4>2, <4>6, <7>1 DEF SlaveOK, InWork
          <6>2. JobOK(s)'
            <7>1. job'[s] = job[s] /\ swi'[s] = swi[s] BY <2>2, <3>0
            <7>2. ~HasJob(s) /\ ~HasJob(s)' BY <3>0, <4>2 DEF HasJob
            <7>3. job[s] = NoJob BY <5>0, <5>2, <7>2 DEF JobOK
            <7> QED BY SMTT(30), <2>3, <4>2, <7>1, <7>2, <7>3, NoneTypes DEF JobOK
          <6> QED BY <5>2, <6>1, <6>2
        <5> QED BY <5>1, <5>2
      <4>8. Shape'
        <5>1. tailok' \in BOOLEAN /\ exql' \in Slaves \cup {None} /\ head' \in Seq(Message) BY <4>1, <4>3
        <5>2. job' = job /\ swi' = swi BY <2>2, <3>0
        <5> QED BY <2>0, <2>2, <4>2, <4>5, <5>1, <5>2 DEF Shape
      <4>9. ReaderInv'
        <5>1. \A i \in DOMAIN head' : Request(head'[i]) BY <4>1, <4>3, <4>4
        <5>2. reader \notin {"shut", "done"} BY <2>0, <3>2 DEF ReaderInv
        <5> QED BY <2>0, <2>2, <5>1, <5>2 DEF ReaderInv
      <4>10. WorkInv' BY <2>0, <2>2 DEF WorkInv
      <4> QED BY <4>2, <4>7, <4>8, <4>9, <4>10 DEF SInv, SlavesInv
    <3> QED BY <3>1, <3>2
  <2> QED BY <2>5, <2>7, <2>8, <2>9

\* The client takes an answer, or goes.
<1>ClientSteps.
     ASSUME SInv, ClientTake \/ Hangup \/ UNCHANGED vars
     PROVE  SInv'
  <2> USE <1>ClientSteps
  <2>0. Shape /\ WaitInv /\ SlavesInv /\ WorkInv /\ ReaderInv BY DEF SInv
  <2>1. /\ UNCHANGED <<reader, rq, head, tailok, exql, leaked, work, wvars, svars>>
        /\ down' = down \/ down' = TRUE
        /\ pending' = pending \/ pending' = <<>>
        /\ wire' = wire \/ (wire # <<>> /\ wire' = Tail(wire))
        /\ lost' = lost \/ lost' = {}
    BY DEF ClientTake, Hangup, vars, cvars, rvars, qvars, Client!Take, Client!Hangup
  <2>2. WaitInv' /\ SlavesInv' /\ WorkInv' BY SMTT(30), <2>0, <2>1, <1>SlavesStill
  <2>3. /\ pending' \in Seq(Message) /\ wire' \in Seq(Message) /\ lost' \subseteq Message /\ down' \in BOOLEAN
    <3>1. pending \in Seq(Message) /\ wire \in Seq(Message) /\ lost \subseteq Message /\ down \in BOOLEAN
      BY <2>0 DEF Shape
    <3>2. wire' \in Seq(Message) BY SMTT(30), <2>1, <3>1
    <3>3. pending' \in Seq(Message)
      <4>1. <<>> \in Seq(Message) BY SMTT(30)
      <4> QED BY <2>1, <3>1, <4>1
    <3>4. lost' \subseteq Message BY <2>1, <3>1
    <3>5. down' \in BOOLEAN BY <2>1, <3>1
    <3> QED BY <3>2, <3>3, <3>4, <3>5
  <2>4. Shape' BY <2>0, <2>1, <2>3 DEF Shape, wvars, svars
  <2>5. ReaderInv' BY SMTT(30), <2>0, <2>1 DEF ReaderInv
  <2> QED BY <2>2, <2>4, <2>5 DEF SInv

<1> SUFFICES ASSUME SInv, [Next]_vars PROVE SInv' OBVIOUS
<1>1. CASE Exreadmsg \/ Enqueue \/ FlushWaiting \/ ReaderReply \/ ShutWaiting BY <1>1, <1>ReaderSteps
<1>2. CASE Spawn \/ Wakeup BY <1>2, <1>WakeSteps
<1>3. CASE FlushWork BY <1>3, <1>FlushWorkStep
<1>4. CASE ShutWork BY <1>4, <1>ShutWorkStep
<1>5. ASSUME NEW s \in Slaves, Fcall(s) \/ End(s) \/ Flushes(s) PROVE SInv' BY <1>5, <1>RunSteps
<1>6. ASSUME NEW s \in Slaves, Reply(s) \/ Rflush(s) PROVE SInv' BY <1>6, <1>AnswerSteps
<1>7. ASSUME NEW s \in Slaves, Start(s) \/ Unlink(s) \/ Free(s) PROVE SInv' BY <1>7, <1>JobSteps
<1>8. ASSUME NEW s \in Slaves, Qlock(s) \/ Sleep(s) \/ SleepReturn(s) \/ Take(s) PROVE SInv'
  BY <1>8, <1>TakeSteps
<1>9. CASE ClientTake \/ Hangup \/ UNCHANGED vars BY <1>9, <1>ClientSteps
<1> QED BY <1>1, <1>2, <1>3, <1>4, <1>5, <1>6, <1>7, <1>8, <1>9 DEF Next, Reader, Slave

-----------------------------------------------------------------------------
(* The references.                                                         *)

\* Who holds a reference, apart from the reader and the requests that wait.
WithJob == {s \in Slaves : HasJob(s)}
WithCur == {s \in Slaves : cur[s] # NoMsg}

\* The references of exportproc itself, of the message it deals with, and of
\* the requests that wait.
Base == (IF reader = "done" THEN 0 ELSE 1)
        + (IF reader \in {"append", "flush", "flushwork", "reply"} THEN 1 ELSE 0) + Len(head)

Tally(j, c, f) ==
  /\ j \in Nat /\ c \in Nat /\ f \in Nat
  /\ Counts(j, WithJob) /\ Counts(c, WithCur) /\ Counts(f, Flushing)
  /\ ref = Base + j + c + f

RefInv == \E j, c, f \in Nat : Tally(j, c, f)

\* This is RefsExact.
LEMMA RefInvIsExact ==
  ASSUME Shape, RefInv
  PROVE  RefsExact /\ ref \in Nat
<1>1. PICK j, c, f \in Nat : Tally(j, c, f) BY DEF RefInv
<1>2. Len(head) \in Nat BY SMTT(30) DEF Shape
<1>3. ref = Base + j + c + f BY <1>1 DEF Tally
<1>4. ref \in Nat /\ j \in 0 .. ref /\ c \in 0 .. ref /\ f \in 0 .. ref BY SMTT(30), <1>2, <1>3 DEF Base
<1>5. /\ Counts(j, {s \in Slaves : HasJob(s)}) /\ Counts(c, {s \in Slaves : cur[s] # NoMsg})
      /\ Counts(f, Flushing)
  BY <1>1 DEF Tally, WithJob, WithCur
<1>6. ref = (IF reader = "done" THEN 0 ELSE 1)
            + (IF reader \in {"append", "flush", "flushwork", "reply"} THEN 1 ELSE 0)
            + Len(head) + j + c + f
  BY <1>3 DEF Base
<1> QED BY <1>4, <1>5, <1>6 DEF RefsExact

\* At the start there is the reader's reference.
LEMMA InitRef == Init => RefInv
<1> SUFFICES ASSUME Init PROVE RefInv OBVIOUS
<1>1. /\ reader = "read" /\ head = <<>> /\ pc = [s \in Slaves |-> "off"] /\ ref = 1
      /\ job = [s \in Slaves |-> NoJob] /\ cur = [s \in Slaves |-> NoMsg]
  BY DEF Init
<1>2. WithJob = {} /\ WithCur = {} BY <1>1 DEF WithJob, WithCur, HasJob
<1>3. Flushing = {}
  <2>1. \A s \in Slaves : job[s].flush = <<>> BY <1>1, NoneTypes
  <2>2. \A s \in Slaves : {s} \X DOMAIN job[s].flush = {} BY SMTT(30), <2>1
  <2> QED BY <2>2 DEF Flushing
<1>4. Counts(0, {})
  <2>1. PICK g : g = [i \in 1 .. 0 |-> 0] OBVIOUS
  <2>2. 1 .. 0 = {} BY SMTT(30)
  <2>3. g \in [1 .. 0 -> {}] BY <2>1, <2>2
  <2> QED BY <2>2, <2>3 DEF Counts
<1>5. 0 \in Nat /\ ref = Base + 0 + 0 + 0 BY SMTT(30), <1>1 DEF Base
<1>6. Tally(0, 0, 0) BY <1>2, <1>3, <1>4, <1>5 DEF Tally
<1> QED BY <1>5, <1>6 DEF RefInv

\* Every step keeps the count.
LEMMA NextRef == SInv /\ SInv' /\ RefInv /\ [Next]_vars => RefInv'

\* One more is one more.
<1>CountIn.
     ASSUME NEW S, NEW n \in Nat, Counts(n, S), NEW x, x \notin S
     PROVE  Counts(n + 1, S \cup {x})
  <2> USE <1>CountIn
  <2>1. PICK g \in [1 .. n -> S] : /\ \A i, j \in 1 .. n : g[i] = g[j] => i = j
                                   /\ \A y \in S : \E i \in 1 .. n : g[i] = y
    BY DEF Counts
  <2>2. PICK h : h = [i \in 1 .. n + 1 |-> IF i <= n THEN g[i] ELSE x] OBVIOUS
  <2>3. h \in [1 .. n + 1 -> S \cup {x}] BY SMTT(30), <2>1, <2>2
  <2>4. \A i, j \in 1 .. n + 1 : h[i] = h[j] => i = j BY SMTT(30), <2>1, <2>2
  <2>5. ASSUME NEW y \in S \cup {x} PROVE \E i \in 1 .. n + 1 : h[i] = y
    <3>1. CASE y = x
      <4>1. n + 1 \in 1 .. n + 1 /\ h[n + 1] = x BY SMTT(30), <2>2
      <4> QED BY <3>1, <4>1
    <3>2. CASE y \in S
      <4>1. PICK i \in 1 .. n : g[i] = y BY <2>1, <3>2
      <4>2. i \in 1 .. n + 1 /\ h[i] = y BY SMTT(30), <2>2, <4>1
      <4> QED BY <4>2
    <3> QED BY <3>1, <3>2
  <2> QED BY <2>3, <2>4, <2>5 DEF Counts

\* One less is one less.
<1>CountOut.
     ASSUME NEW S, NEW n \in Nat, Counts(n, S), NEW x \in S
     PROVE  n - 1 \in Nat /\ Counts(n - 1, S \ {x})
  <2> USE <1>CountOut
  <2>1. PICK g \in [1 .. n -> S] : /\ \A i, j \in 1 .. n : g[i] = g[j] => i = j
                                   /\ \A y \in S : \E i \in 1 .. n : g[i] = y
    BY DEF Counts
  <2>2. PICK k \in 1 .. n : g[k] = x BY <2>1
  <2>3. n - 1 \in Nat BY SMTT(30), <2>2
  <2>4. PICK h : h = [i \in 1 .. n - 1 |-> g[IF i < k THEN i ELSE i + 1]] OBVIOUS
  <2>5. ASSUME NEW i \in 1 .. n - 1
        PROVE  \E j \in 1 .. n : j = (IF i < k THEN i ELSE i + 1) /\ j # k /\ h[i] = g[j]
    <3>1. PICK j : j = IF i < k THEN i ELSE i + 1 OBVIOUS
    <3>2. j \in 1 .. n /\ j # k BY SMTT(30), <2>2, <3>1
    <3>3. h[i] = g[j] BY <2>4, <3>1
    <3> QED BY <3>1, <3>2, <3>3
  <2>6. h \in [1 .. n - 1 -> S \ {x}]
    <3>1. ASSUME NEW i \in 1 .. n - 1 PROVE h[i] \in S \ {x}
      <4>1. PICK j \in 1 .. n : j # k /\ h[i] = g[j] BY <2>5
      <4>2. g[j] \in S /\ g[j] # x BY <2>1, <2>2, <4>1
      <4> QED BY <4>1, <4>2
    <3> QED BY <2>4, <3>1
  <2>7. ASSUME NEW i \in 1 .. n - 1, NEW j \in 1 .. n - 1, h[i] = h[j] PROVE i = j
    <3>1. PICK a \in 1 .. n : a = (IF i < k THEN i ELSE i + 1) /\ h[i] = g[a] BY <2>5
    <3>2. PICK b \in 1 .. n : b = (IF j < k THEN j ELSE j + 1) /\ h[j] = g[b] BY <2>5
    <3>3. a = b BY <2>1, <2>7, <3>1, <3>2
    <3> QED BY SMTT(30), <2>2, <3>1, <3>2, <3>3
  <2>8. ASSUME NEW y \in S \ {x} PROVE \E i \in 1 .. n - 1 : h[i] = y
    <3>1. PICK j \in 1 .. n : g[j] = y BY <2>1
    <3>2. j # k BY <2>2, <3>1
    <3>3. PICK i : i = IF j < k THEN j ELSE j - 1 OBVIOUS
    <3>4. i \in 1 .. n - 1 /\ j = IF i < k THEN i ELSE i + 1 BY SMTT(30), <2>2, <3>2, <3>3
    <3>5. h[i] = y BY <2>4, <3>1, <3>4
    <3> QED BY <3>4, <3>5
  <2> QED BY <2>3, <2>6, <2>7, <2>8 DEF Counts

\* A step that gives no reference and takes none.
<1>TallySame.
     ASSUME RefInv, WithJob' = WithJob, WithCur' = WithCur, Flushing' = Flushing,
            Shape, Shape', NEW d \in Int, Base' = Base + d, ref' = ref + d
     PROVE  RefInv'
  <2> USE <1>TallySame
  <2>1. PICK j, c, f \in Nat : Tally(j, c, f) BY DEF RefInv
  <2>2. Base \in Int /\ ref = Base + j + c + f BY SMTT(30), <2>1 DEF Base, Shape, Tally
  <2>3. ref' = Base' + j + c + f BY SMTT(30), <2>2
  <2>4. Tally(j, c, f)' BY <2>1, <2>3 DEF Tally
  <2> QED BY <2>4 DEF RefInv

\* The Tflushes that wait, one by one.
<1>FlushingIs.
     \A x : x \in Flushing <=> \E s \in Slaves : \E i \in DOMAIN job[s].flush : x = <<s, i>>
  BY SMTT(30) DEF Flushing

\* Steps that leave the lists of Tflushes alone.
<1>FlushingSame.
     ASSUME \A t \in Slaves : job'[t].flush = job[t].flush
     PROVE  Flushing' = Flushing
  <2> USE <1>FlushingSame
  <2> QED BY DEF Flushing

\* One more at the end of one list.
<1>FlushingIn.
     ASSUME NEW s \in Slaves, NEW k, k \notin DOMAIN job[s].flush,
            DOMAIN job'[s].flush = DOMAIN job[s].flush \cup {k},
            \A t \in Slaves \ {s} : job'[t].flush = job[t].flush
     PROVE  Flushing' = Flushing \cup {<<s, k>>} /\ <<s, k>> \notin Flushing
  <2> USE <1>FlushingIn
  <2>1. \A x : x \in Flushing' <=> \E t \in Slaves : \E i \in DOMAIN job'[t].flush : x = <<t, i>> BY SMTT(30) DEF Flushing
  <2>2. <<s, k>> \notin Flushing BY SMTT(30), <1>FlushingIs
  <2>3. \A x \in Flushing' : x \in Flushing \cup {<<s, k>>} BY SMTT(30), <2>1, <1>FlushingIs
  <2>4. \A x \in Flushing \cup {<<s, k>>} : x \in Flushing' BY <2>1, <1>FlushingIs
  <2> QED BY <2>2, <2>3, <2>4

\* And one less.
<1>FlushingOut.
     ASSUME NEW s \in Slaves, NEW k \in DOMAIN job[s].flush,
            DOMAIN job'[s].flush = DOMAIN job[s].flush \ {k},
            \A t \in Slaves \ {s} : job'[t].flush = job[t].flush
     PROVE  Flushing' = Flushing \ {<<s, k>>} /\ <<s, k>> \in Flushing
  <2> USE <1>FlushingOut
  <2>1. \A x : x \in Flushing' <=> \E t \in Slaves : \E i \in DOMAIN job'[t].flush : x = <<t, i>> BY SMTT(30) DEF Flushing
  <2>2. <<s, k>> \in Flushing BY <1>FlushingIs
  <2>3. \A x \in Flushing' : x \in Flushing \ {<<s, k>>} BY SMTT(30), <2>1, <1>FlushingIs
  <2>4. \A x \in Flushing \ {<<s, k>>} : x \in Flushing' BY SMTT(30), <2>1, <1>FlushingIs
  <2> QED BY <2>2, <2>3, <2>4

\* Steps that leave alone which slaves have a job, and what they deal with.
<1>SameHolders.
     ASSUME \A t \in Slaves : HasJob(t)' <=> HasJob(t), \A t \in Slaves : cur'[t] = cur[t],
            \A t \in Slaves : job'[t].flush = job[t].flush
     PROVE  WithJob' = WithJob /\ WithCur' = WithCur /\ Flushing' = Flushing
  <2> USE <1>SameHolders
  <2>1. WithJob' = WithJob /\ WithCur' = WithCur BY DEF WithJob, WithCur
  <2> QED BY <2>1, <1>FlushingSame

\* So those of the reader, but for a Tflush that is queued with a slave.
<1>RefReader.
     ASSUME Shape, Shape', RefInv,
            \/ Exreadmsg \/ Enqueue \/ FlushWaiting \/ ReaderReply \/ ShutWaiting
            \/ Spawn \/ Wakeup \/ ShutWork
     PROVE  RefInv'
  <2> USE <1>RefReader
  <2>1. head \in Seq(Message) /\ rq \in Message /\ pc \in [Slaves -> Labels] /\ job \in [Slaves -> Jobs]
    BY DEF Shape
  <2>2. Len(head) \in Nat /\ ref \in Int
    <3>1. ref \in Nat BY RefInvIsExact
    <3> QED BY SMTT(30), <2>1, <3>1
  <2>3. ASSUME NEW d \in Int, Base' = Base + d, ref' = ref + d, \A t \in Slaves : HasJob(t)' <=> HasJob(t),
               cur' = cur, \A t \in Slaves : job'[t].flush = job[t].flush
        PROVE  RefInv'
    BY <2>3, <1>SameHolders, <1>TallySame
  <2>4. ASSUME NEW d \in Int, Base' = Base + d, ref' = ref + d, UNCHANGED <<pc, job, cur>>
        PROVE  RefInv'
    BY <2>3, <2>4 DEF HasJob
  <2>5. CASE Exreadmsg
    <3>1. /\ reader = "read" /\ reader' \in {"flush", "append", "reply"} /\ head' = head
          /\ ref' = ref + 1 /\ UNCHANGED <<pc, job, cur>>
      BY <2>5 DEF Exreadmsg, qvars, svars
    <3>2. Base' = Base + 1 BY SMTT(30), <2>2, <3>1 DEF Base
    <3> QED BY SMTT(30), <2>4, <3>1, <3>2
  <2>6. CASE Enqueue
    <3>1. /\ reader = "append" /\ reader' = "spawn" /\ UNCHANGED <<pc, job, cur>>
          /\ \/ head' = Append(head, rq) /\ ref' = ref
             \/ head' = head /\ ref' = ref - 1
      BY <2>6 DEF Enqueue, svars
    <3>2. \/ Len(head') = Len(head) + 1 /\ ref' = ref
          \/ Len(head') = Len(head) /\ ref' = ref - 1
      BY SMTT(30), <2>1, <3>1
    <3>3. CASE ref' = ref /\ Len(head') = Len(head) + 1
      <4>1. Base' = Base + 0 /\ ref' = ref + 0 BY SMTT(30), <2>2, <3>1, <3>3 DEF Base
      <4> QED BY SMTT(30), <2>4, <3>1, <4>1
    <3>4. CASE ref' = ref - 1 /\ Len(head') = Len(head)
      <4>1. Base' = Base + (-1) /\ ref' = ref + (-1) BY SMTT(30), <2>2, <3>1, <3>4 DEF Base
      <4> QED BY SMTT(30), <2>4, <3>1, <4>1
    <3> QED BY <3>2, <3>3, <3>4
  <2>7. CASE FlushWaiting
    <3>1. reader = "flush" /\ UNCHANGED <<pc, job, cur>> BY <2>7 DEF FlushWaiting, svars
    <3>2. \/ reader' = "flushwork" /\ head' = head /\ ref' = ref
          \/ reader' = "reply" /\ ref' = ref - 1 /\ \E i \in DOMAIN head : head' = Without(head, i)
      BY <2>7 DEF FlushWaiting, qvars
    <3>3. CASE reader' = "flushwork" /\ head' = head /\ ref' = ref
      <4>1. Base' = Base + 0 /\ ref' = ref + 0 BY SMTT(30), <2>2, <3>1, <3>3 DEF Base
      <4> QED BY SMTT(30), <2>4, <3>1, <4>1
    <3>4. CASE reader' = "reply" /\ ref' = ref - 1 /\ \E i \in DOMAIN head : head' = Without(head, i)
      <4>1. Len(head') = Len(head) - 1 BY <2>1, <3>4, Withouts
      <4>2. Base' = Base + (-1) /\ ref' = ref + (-1) BY SMTT(30), <2>2, <3>1, <3>4, <4>1 DEF Base
      <4> QED BY SMTT(30), <2>4, <3>1, <4>2
    <3> QED BY <3>2, <3>3, <3>4
  <2>8. CASE ReaderReply
    <3>1. /\ reader = "reply" /\ reader' = "read" /\ head' = head
          /\ ref' = ref - 1 /\ UNCHANGED <<pc, job, cur>>
      BY <2>8 DEF ReaderReply, qvars, svars
    <3>2. Base' = Base + (-1) /\ ref' = ref + (-1) BY SMTT(30), <2>2, <3>1 DEF Base
    <3> QED BY SMTT(30), <2>4, <3>1, <3>2
  <2>9. CASE ShutWaiting
    <3>1. /\ reader = "read" /\ reader' = "shut" /\ head' = <<>>
          /\ ref' = ref - Len(head) /\ UNCHANGED <<pc, job, cur>>
      BY <2>9 DEF ShutWaiting, svars
    <3>2. Base' = Base + (-Len(head)) /\ ref' = ref + (-Len(head)) BY SMTT(30), <2>2, <3>1 DEF Base
    <3> QED BY SMTT(30), <2>2, <2>4, <3>1, <3>2
  <2>10. CASE Spawn \/ Wakeup
    <3>1. /\ reader \in {"spawn", "wakeup"} /\ reader' \in {"wakeup", "read"} /\ head' = head
          /\ ref' = ref /\ UNCHANGED <<job, cur>>
      BY <2>10 DEF Spawn, Wakeup, qvars
    <3>2. Base' = Base + 0 /\ ref' = ref + 0 BY SMTT(30), <2>2, <3>1 DEF Base
    <3>3. \A t \in Slaves : HasJob(t)' <=> HasJob(t)
      <4>1. \/ pc' = pc
            \/ \E s \in Slaves : pc[s] \in {"off", "blocked"} /\ \E l \in {"qlock", "woken"} : pc' = [pc EXCEPT ![s] = l]
        <5>1. qhold \in Slaves \cup {None} BY DEF Shape
        <5> QED BY <2>10, <5>1 DEF Spawn, Wakeup, Goto, At
      <4> QED BY <2>1, <4>1 DEF HasJob
    <3> QED BY SMTT(30), <2>3, <3>1, <3>2, <3>3
  <2>11. CASE ShutWork
    <3>1. /\ reader = "shut" /\ reader' = "done" /\ head' = head
          /\ ref' = ref - 1 /\ UNCHANGED <<pc, cur>>
          /\ job' = [s \in Slaves |-> [job[s] EXCEPT !.shut = @ \/ s \in Elements(work)]]
      BY <2>11 DEF ShutWork, qvars
    <3>2. Base' = Base + (-1) /\ ref' = ref + (-1) BY SMTT(30), <2>2, <3>1 DEF Base
    <3>3. \A t \in Slaves : job'[t].flush = job[t].flush BY <2>1, <3>1 DEF Jobs
    <3>4. \A t \in Slaves : HasJob(t)' <=> HasJob(t) BY <3>1 DEF HasJob
    <3>5. -1 \in Int /\ cur' = cur BY SMTT(30), <3>1
    <3> QED BY <2>3, <3>2, <3>3, <3>4, <3>5
  <2> QED BY <2>5, <2>6, <2>7, <2>8, <2>9, <2>10, <2>11

\* A Tflush that is queued with a slave takes its reference along.
<1>RefFlushWork.
     ASSUME SInv, Shape', RefInv, FlushWork
     PROVE  RefInv'
  <2> USE <1>RefFlushWork
  <2>1. Shape /\ job \in [Slaves -> Jobs] /\ work \in Seq(Slaves) /\ rq \in Message BY DEF SInv, Shape
  <2>2. /\ reader = "flushwork" /\ UNCHANGED <<head, ref, pc, cur>>
    BY DEF FlushWork, qvars
  <2>3. Len(head) \in Nat /\ ref \in Int
    <3>1. ref \in Nat BY <2>1, RefInvIsExact
    <3>2. head \in Seq(Message) BY <2>1 DEF Shape
    <3> QED BY SMTT(30), <3>1, <3>2
  <2>4. CASE reader' = "reply" /\ job' = job
    <3>1. Base' = Base + 0 /\ ref' = ref + 0 BY SMTT(30), <2>2, <2>3, <2>4 DEF Base
    <3>2. \A t \in Slaves : HasJob(t)' <=> HasJob(t) BY <2>2 DEF HasJob
    <3>3. 0 \in Int BY SMTT(30)
    <3>4. WithJob' = WithJob /\ WithCur' = WithCur /\ Flushing' = Flushing
      BY <2>2, <2>4, <3>2, <1>SameHolders
    <3> QED BY <2>1, <3>1, <3>3, <3>4, <1>TallySame
  <2>5. ASSUME NEW s \in Slaves, reader' = "read", job' = [job EXCEPT ![s].flush = Append(@, rq)]
        PROVE  RefInv'
    <3>1. job[s] \in Jobs /\ job[s].flush \in Seq(Message) BY <2>1 DEF Jobs
    <3>2. /\ DOMAIN Append(job[s].flush, rq) = DOMAIN job[s].flush \cup {Len(job[s].flush) + 1}
          /\ Len(job[s].flush) + 1 \notin DOMAIN job[s].flush
      BY SMTT(30), <2>1, <3>1
    <3>3. /\ job'[s].flush = Append(job[s].flush, rq)
          /\ \A t \in Slaves \ {s} : job'[t].flush = job[t].flush
      <4>1. job' = [job EXCEPT ![s] = [job[s] EXCEPT !.flush = Append(job[s].flush, rq)]] BY <2>1, <2>5
      <4>2. job'[s] = [job[s] EXCEPT !.flush = Append(job[s].flush, rq)] BY <2>1, <4>1
      <4> QED BY <2>1, <3>1, <4>1, <4>2 DEF Jobs
    <3>4. PICK k : k = Len(job[s].flush) + 1 OBVIOUS
    <3>5. Flushing' = Flushing \cup {<<s, k>>} /\ <<s, k>> \notin Flushing
      <4>1. k \notin DOMAIN job[s].flush /\ DOMAIN job'[s].flush = DOMAIN job[s].flush \cup {k}
        BY <3>2, <3>3, <3>4
      <4> QED BY <3>3, <4>1, <1>FlushingIn
    <3>6. PICK j, c, f \in Nat : Tally(j, c, f) BY DEF RefInv
    <3>7. WithJob' = WithJob /\ WithCur' = WithCur BY <2>2 DEF WithJob, WithCur, HasJob
    <3>8. Counts(f + 1, Flushing') BY <3>5, <3>6, <1>CountIn DEF Tally
    <3>9. f + 1 \in Nat /\ ref' = Base' + j + c + (f + 1)
      <4>1. ref = Base + j + c + f BY <3>6 DEF Tally
      <4> QED BY SMTT(30), <2>2, <2>3, <2>5, <4>1 DEF Base
    <3>10. Tally(j, c, f + 1)'
      <4>1. Counts(j, WithJob') /\ Counts(c, WithCur') BY <3>6, <3>7 DEF Tally
      <4> QED BY <3>8, <3>9, <4>1 DEF Tally
    <3> QED BY <3>9, <3>10 DEF RefInv
  <2>6. \A i \in DOMAIN work : work[i] \in Slaves BY SMTT(30), <2>1
  <2> QED BY <2>4, <2>5, <2>6 DEF FlushWork, FlushJob

\* The steps of a slave that give no reference and take none.
<1>RefStill.
     ASSUME SInv, Shape', RefInv,
            \/ \E s \in Slaves : \/ Qlock(s) \/ Sleep(s) \/ SleepReturn(s) \/ Fcall(s) \/ End(s)
                                 \/ Reply(s) \/ Unlink(s) \/ (Take(s) /\ head = <<>>)
            \/ ClientTake \/ Hangup \/ UNCHANGED vars
     PROVE  RefInv'
  <2> USE <1>RefStill
  <2>1. /\ pc \in [Slaves -> Labels] /\ job \in [Slaves -> Jobs] /\ cur \in [Slaves -> Message]
        /\ head \in Seq(Message) /\ Shape /\ WaitInv
    BY DEF SInv, Shape
  <2>2. Len(head) \in Nat /\ ref \in Int
    <3>1. ref \in Nat BY <2>1, RefInvIsExact
    <3> QED BY SMTT(30), <2>1, <3>1
  <2>3. ASSUME reader' = reader, head' = head, ref' = ref, cur' = cur,
               \A t \in Slaves : HasJob(t)' <=> HasJob(t), \A t \in Slaves : job'[t].flush = job[t].flush
        PROVE  RefInv'
    <3>1. WithJob' = WithJob /\ WithCur' = WithCur /\ Flushing' = Flushing BY <2>3, <1>SameHolders
    <3>2. Base' = Base + 0 /\ ref' = ref + 0 BY SMTT(30), <2>2, <2>3 DEF Base
    <3>3. 0 \in Int BY SMTT(30)
    <3> QED BY <2>1, <3>1, <3>2, <3>3, <1>TallySame
  <2>4. CASE ClientTake \/ Hangup \/ UNCHANGED vars
    <3>1. reader' = reader /\ head' = head /\ ref' = ref /\ cur' = cur /\ pc' = pc /\ job' = job
      BY <2>4 DEF ClientTake, Hangup, vars, rvars, qvars, svars
    <3> QED BY <2>3, <3>1 DEF HasJob
  <2>5. ASSUME NEW s \in Slaves, Qlock(s) \/ Sleep(s) \/ Unlink(s) \/ Reply(s)
        PROVE  RefInv'
    <3>1. reader' = reader /\ head' = head /\ ref' = ref /\ cur' = cur /\ job' = job
      BY <2>5 DEF Qlock, Sleep, Unlink, Reply, rvars, qvars
    <3>2. \/ pc[s] \in {"qlock", "sleep"} /\ \E l \in {"sleep", "queued", "woken", "blocked"} : Goto(s, l)
          \/ pc[s] \in {"reply", "unlink"} /\ \E l \in {"flushes", "free"} : Goto(s, l)
      BY <2>5 DEF Qlock, Sleep, Unlink, Reply, At
    <3>3. \A t \in Slaves : HasJob(t)' <=> HasJob(t) BY <2>1, <3>2 DEF HasJob, Goto
    <3> QED BY <2>3, <3>1, <3>3
  <2>6. ASSUME NEW s \in Slaves, Fcall(s) \/ End(s)
        PROVE  RefInv'
    <3>1. reader' = reader /\ head' = head /\ ref' = ref /\ cur' = cur
      BY <2>6 DEF Fcall, End, rvars, qvars
    <3>2. pc[s] \in {"run", "end"} /\ \E l \in {"end", "unlink", "reply", "flushes"} : Goto(s, l)
      BY <2>6 DEF Fcall, End, At
    <3>3. \A t \in Slaves : HasJob(t)' <=> HasJob(t) BY <2>1, <3>2 DEF HasJob, Goto
    <3>4. \/ \E err \in BOOLEAN : job' = [job EXCEPT ![s].err = err]
          \/ job' = [job EXCEPT ![s].busy = FALSE, ![s].finished = job[s].shut]
      BY <2>6 DEF Fcall, End
    <3>5. ASSUME NEW j, job' = [job EXCEPT ![s] = j], j.flush = job[s].flush
          PROVE  \A t \in Slaves : job'[t].flush = job[t].flush
      BY <2>1, <3>5
    <3>6. job[s] \in Jobs BY <2>1
    <3>7. \A t \in Slaves : job'[t].flush = job[t].flush
      <4>1. ASSUME NEW err, job' = [job EXCEPT ![s].err = err]
            PROVE  \A t \in Slaves : job'[t].flush = job[t].flush
        <5>1. job' = [job EXCEPT ![s] = [job[s] EXCEPT !.err = err]] BY <4>1
        <5>2. [job[s] EXCEPT !.err = err].flush = job[s].flush BY <3>6 DEF Jobs
        <5> QED BY <3>5, <5>1, <5>2
      <4>2. ASSUME job' = [job EXCEPT ![s].busy = FALSE, ![s].finished = job[s].shut]
            PROVE  \A t \in Slaves : job'[t].flush = job[t].flush
        <5>1. job' = [job EXCEPT ![s] = [job[s] EXCEPT !.busy = FALSE, !.finished = job[s].shut]]
          BY <2>1, <4>2
        <5>2. [job[s] EXCEPT !.busy = FALSE, !.finished = job[s].shut].flush = job[s].flush BY <3>6 DEF Jobs
        <5> QED BY <3>5, <5>1, <5>2
      <4> QED BY <3>4, <4>1, <4>2
    <3> QED BY <2>3, <3>1, <3>3, <3>7
  <2>7. ASSUME NEW s \in Slaves, SleepReturn(s) \/ (Take(s) /\ head = <<>>)
        PROVE  RefInv'
    <3>1. reader' = reader /\ head' = head /\ ref' = ref /\ cur' = cur /\ job' = job
      BY <2>7 DEF SleepReturn, Take, rvars, qvars
    <3>2. pc[s] \in {"woken", "take"} /\ (Qunlock(s, "qlock") \/ Goto(s, "take"))
      BY <2>7 DEF SleepReturn, Take, At
    <3>3. CASE Qunlock(s, "qlock")
      <4>1. pc[s] \in Holding /\ "qlock" \in {"qlock", "start"} BY <3>2 DEF Holding
      <4>2. /\ pc'[s] = "qlock"
            /\ \A t \in Slaves \ {s} : pc'[t] = pc[t] \/ (pc[t] = "queued" /\ pc'[t] = "sleep")
        BY <2>1, <3>3, <4>1, QunlockFacts
      <4>3. \A t \in Slaves : HasJob(t)' <=> HasJob(t) BY <3>2, <4>2 DEF HasJob
      <4> QED BY <2>3, <3>1, <4>3
    <3>4. CASE Goto(s, "take")
      <4>1. \A t \in Slaves : HasJob(t)' <=> HasJob(t) BY <2>1, <3>2, <3>4 DEF HasJob, Goto
      <4> QED BY <2>3, <3>1, <4>1
    <3> QED BY <3>2, <3>3, <3>4
  <2> QED BY <2>4, <2>5, <2>6, <2>7

\* The steps of a slave by which a reference moves or is given up.
<1>RefMoves.
     ASSUME SInv, Shape', RefInv, NEW s \in Slaves,
            (Take(s) /\ head # <<>>) \/ Start(s) \/ Flushes(s) \/ Rflush(s) \/ Free(s)
     PROVE  RefInv'
  <2> USE <1>RefMoves
  <2>1. /\ pc \in [Slaves -> Labels] /\ job \in [Slaves -> Jobs] /\ cur \in [Slaves -> Message]
        /\ head \in Seq(Message) /\ Shape /\ WaitInv /\ SlaveOK(s) /\ JobOK(s)
    BY DEF SInv, SlavesInv, Shape
  <2>2. PICK j, c, f \in Nat : Tally(j, c, f) BY DEF RefInv
  <2>3. /\ Counts(j, WithJob) /\ Counts(c, WithCur) /\ Counts(f, Flushing)
        /\ ref = Base + j + c + f
    BY <2>2 DEF Tally
  <2>4. Len(head) \in Nat /\ Base \in Int BY SMTT(30), <2>1 DEF Base
  <2>5. reader' = reader BY DEF Take, Start, Flushes, Rflush, Free, rvars
  <2>6. ASSUME NEW x \in Nat, NEW y \in Nat, NEW z \in Nat, Counts(x, WithJob'), Counts(y, WithCur'),
               Counts(z, Flushing'), ref' = Base' + x + y + z
        PROVE  RefInv'
    <3>1. Tally(x, y, z)' BY <2>6 DEF Tally
    <3> QED BY <3>1 DEF RefInv
  <2>7. job[s] \in Jobs /\ job[s].flush \in Seq(Message) BY <2>1 DEF Jobs
  <2>8. ASSUME head' = head PROVE Base' = Base BY <2>5, <2>8 DEF Base
  <2>9. CASE Take(s) /\ head # <<>>
    <3>1. /\ pc[s] = "take" /\ Qunlock(s, "start") /\ cur' = [cur EXCEPT ![s] = Head(head)] /\ head' = Tail(head)
          /\ job' = job /\ ref' = ref
      BY <2>9 DEF Take, At
    <3>2. pc[s] \in Holding /\ "start" \in {"qlock", "start"} BY <3>1 DEF Holding
    <3>3. /\ pc'[s] = "start"
          /\ \A t \in Slaves \ {s} : pc'[t] = pc[t] \/ (pc[t] = "queued" /\ pc'[t] = "sleep")
      BY <2>1, <3>1, <3>2, QunlockFacts
    <3>4. WithJob' = WithJob BY <3>1, <3>3 DEF WithJob, HasJob
    <3>5. Flushing' = Flushing BY <3>1, <1>FlushingSame
    <3>6. Head(head) = head[1] /\ 1 \in DOMAIN head /\ Len(Tail(head)) = Len(head) - 1
      BY <2>1, <2>9, Tailed
    <3>7. cur[s] = NoMsg BY <2>1, <3>1 DEF SlaveOK
    <3>8. Head(head) # NoMsg
      <4>1. Request(head[1]) BY <3>6 DEF SInv, ReaderInv
      <4> QED BY <3>6, <4>1, NoneTypes DEF Request
    <3>9. WithCur' = WithCur \cup {s} /\ s \notin WithCur BY <2>1, <3>1, <3>7, <3>8 DEF WithCur
    <3>10. Counts(c + 1, WithCur') BY <2>3, <3>9, <1>CountIn
    <3>11. Base' = Base - 1
      <4>1. PICK b : b = (IF reader = "done" THEN 0 ELSE 1)
                         + (IF reader \in {"append", "flush", "flushwork", "reply"} THEN 1 ELSE 0)
        OBVIOUS
      <4>3. b \in Int BY SMTT(30), <4>1
      <4>4. Base = b + Len(head) /\ Base' = b + Len(head') BY <2>5, <4>1 DEF Base
      <4>2. Len(head') = Len(head) - 1 BY <3>1, <3>6
      <4> QED BY SMTT(30), <2>4, <4>2, <4>3, <4>4
    <3>12. c + 1 \in Nat /\ ref' = Base' + j + (c + 1) + f BY SMTT(30), <2>3, <2>4, <3>1, <3>11
    <3> QED BY <2>3, <2>6, <3>4, <3>5, <3>10, <3>12
  <2>10. CASE Start(s)
    <3>1. /\ pc[s] = "start" /\ pc' = [pc EXCEPT ![s] = "run"] /\ cur' = [cur EXCEPT ![s] = NoMsg]
          /\ job' = [job EXCEPT ![s] = [NoJob EXCEPT !.msg = cur[s], !.busy = TRUE]] /\ head' = head /\ ref' = ref
      BY <2>10 DEF Start, At, Goto, qvars
    <3>2. WithJob' = WithJob \cup {s} /\ s \notin WithJob BY <2>1, <3>1 DEF WithJob, HasJob
    <3>3. WithCur' = WithCur \ {s} /\ s \in WithCur
      <4>1. cur[s] # NoMsg BY <2>1, <3>1 DEF SlaveOK
      <4> QED BY <2>1, <3>1, <4>1 DEF WithCur
    <3>4. Flushing' = Flushing
      <4>1. job[s] = NoJob
        <5>1. ~HasJob(s) BY <3>1 DEF HasJob
        <5> QED BY <2>1, <5>1 DEF JobOK
      <4>2. job[s].flush = <<>> BY <4>1, NoneTypes
      <4>3. job'[s].flush = <<>> /\ \A t \in Slaves \ {s} : job'[t] = job[t]
        <5>1. [NoJob EXCEPT !.msg = cur[s], !.busy = TRUE].flush = <<>> BY DEF NoJob
        <5> QED BY <2>1, <3>1, <5>1
      <4>4. \A t \in Slaves : job'[t].flush = job[t].flush BY <4>2, <4>3
      <4> QED BY <4>4, <1>FlushingSame
    <3>5. Counts(j + 1, WithJob') BY <2>3, <3>2, <1>CountIn
    <3>6. c - 1 \in Nat /\ Counts(c - 1, WithCur') BY <2>3, <3>3, <1>CountOut
    <3>7. j + 1 \in Nat /\ ref' = Base' + (j + 1) + (c - 1) + f
      <4>1. Base' = Base BY <2>8, <3>1
      <4> QED BY SMTT(30), <2>3, <2>4, <3>1, <3>6, <4>1
    <3> QED BY <2>3, <2>6, <3>4, <3>5, <3>6, <3>7
  <2>11. CASE Rflush(s)
    <3>1. /\ pc[s] = "rflush" /\ pc' = [pc EXCEPT ![s] = "flushes"] /\ cur' = [cur EXCEPT ![s] = NoMsg]
          /\ job' = job /\ head' = head /\ ref' = ref - 1
      BY <2>11 DEF Rflush, At, Goto, qvars
    <3>2. WithJob' = WithJob BY <2>1, <3>1 DEF WithJob, HasJob
    <3>3. WithCur' = WithCur \ {s} /\ s \in WithCur
      <4>1. cur[s] # NoMsg BY <2>1, <3>1 DEF SlaveOK
      <4> QED BY <2>1, <3>1, <4>1 DEF WithCur
    <3>4. Flushing' = Flushing BY <3>1, <1>FlushingSame
    <3>6. c - 1 \in Nat /\ Counts(c - 1, WithCur') BY <2>3, <3>3, <1>CountOut
    <3>7. ref' = Base' + j + (c - 1) + f
      <4>1. Base' = Base BY <2>8, <3>1
      <4> QED BY SMTT(30), <2>3, <2>4, <3>1, <3>6, <4>1
    <3> QED BY <2>3, <2>6, <3>2, <3>4, <3>6, <3>7
  <2>12. ASSUME job[s].flush # <<>>, job' = [job EXCEPT ![s].flush = Tail(@)]
         PROVE  f - 1 \in Nat /\ Counts(f - 1, Flushing')
    <3>1. /\ job'[s].flush = Tail(job[s].flush)
          /\ \A t \in Slaves \ {s} : job'[t].flush = job[t].flush
      <4>1. job' = [job EXCEPT ![s] = [job[s] EXCEPT !.flush = Tail(job[s].flush)]] BY <2>1, <2>12
      <4>2. job'[s] = [job[s] EXCEPT !.flush = Tail(job[s].flush)] BY <2>1, <4>1
      <4> QED BY <2>1, <2>7, <4>1, <4>2 DEF Jobs
    <3>2. PICK k : k = Len(job[s].flush) OBVIOUS
    <3>3. k \in DOMAIN job[s].flush /\ DOMAIN Tail(job[s].flush) = DOMAIN job[s].flush \ {k}
      <4>1. k \in Nat \ {0} /\ Len(Tail(job[s].flush)) = k - 1 /\ Tail(job[s].flush) \in Seq(Message)
        BY <2>7, <2>12, <3>2, Tailed
      <4>2. DOMAIN job[s].flush = 1 .. k /\ DOMAIN Tail(job[s].flush) = 1 .. (k - 1) BY SMTT(30), <2>7, <3>2, <4>1
      <4>3. 1 .. (k - 1) = (1 .. k) \ {k} /\ k \in 1 .. k BY SMTT(30), <4>1
      <4> QED BY <4>2, <4>3
    <3>4. Flushing' = Flushing \ {<<s, k>>} /\ <<s, k>> \in Flushing BY <3>1, <3>3, <1>FlushingOut
    <3> QED BY <2>3, <3>4, <1>CountOut
  <2>13. CASE Flushes(s)
    <3>1. pc[s] = "flushes" /\ head' = head /\ ref' = ref /\ Base' = Base
      BY <2>8, <2>13 DEF Flushes, At, qvars
    <3>2. \/ /\ job[s].flush # <<>> /\ cur' = [cur EXCEPT ![s] = Head(job[s].flush)]
             /\ job' = [job EXCEPT ![s].flush = Tail(@)] /\ pc' = [pc EXCEPT ![s] = "rflush"]
          \/ /\ job' = [job EXCEPT ![s].finished = TRUE] /\ pc' = [pc EXCEPT ![s] = "unlink"] /\ cur' = cur
      BY <2>13 DEF Flushes, Goto
    <3>3. WithJob' = WithJob BY <2>1, <3>1, <3>2 DEF WithJob, HasJob
    <3>4. CASE job[s].flush # <<>> /\ cur' = [cur EXCEPT ![s] = Head(job[s].flush)] /\ job' = [job EXCEPT ![s].flush = Tail(@)]
      <4>1. Head(job[s].flush) = job[s].flush[1] /\ 1 \in DOMAIN job[s].flush BY <2>7, <3>4, Tailed
      <4>2. Head(job[s].flush) # NoMsg
        <5>1. Flush(job[s].flush[1]) BY <2>1, <4>1 DEF JobOK
        <5> QED BY <4>1, <5>1, NoneTypes DEF Flush
      <4>3. cur[s] = NoMsg BY <2>1, <3>1 DEF SlaveOK
      <4>4. WithCur' = WithCur \cup {s} /\ s \notin WithCur BY <2>1, <3>4, <4>2, <4>3 DEF WithCur
      <4>5. Counts(c + 1, WithCur') BY <2>3, <4>4, <1>CountIn
      <4>6. f - 1 \in Nat /\ Counts(f - 1, Flushing') BY <2>12, <3>4
      <4>7. c + 1 \in Nat /\ ref' = Base' + j + (c + 1) + (f - 1) BY SMTT(30), <2>3, <2>4, <3>1, <4>6
      <4> QED BY <2>3, <2>6, <3>3, <4>5, <4>6, <4>7
    <3>5. CASE job' = [job EXCEPT ![s].finished = TRUE] /\ cur' = cur
      <4>1. \A t \in Slaves : job'[t].flush = job[t].flush
        <5>1. job' = [job EXCEPT ![s] = [job[s] EXCEPT !.finished = TRUE]] BY <2>1, <3>5
        <5>2. [job[s] EXCEPT !.finished = TRUE].flush = job[s].flush BY <2>7 DEF Jobs
        <5> QED BY <2>1, <5>1, <5>2
      <4>2. Flushing' = Flushing BY <4>1, <1>FlushingSame
      <4>3. WithCur' = WithCur BY <3>5 DEF WithCur
      <4>4. ref' = Base' + j + c + f BY <2>3, <3>1
      <4> QED BY <2>3, <2>6, <3>3, <4>2, <4>3, <4>4
    <3> QED BY <3>2, <3>4, <3>5
  <2>14. CASE Free(s)
    <3>1. pc[s] = "free" /\ head' = head /\ cur' = cur /\ ref' = ref - 1 /\ Base' = Base
      BY <2>8, <2>14 DEF Free, At, qvars
    <3>2. WithCur' = WithCur BY <3>1 DEF WithCur
    <3>3. CASE job[s].flush # <<>>
      <4>1. job' = [job EXCEPT ![s].flush = Tail(@)] /\ pc' = pc BY <2>14, <3>3 DEF Free
      <4>2. f - 1 \in Nat /\ Counts(f - 1, Flushing') BY <2>12, <3>3, <4>1
      <4>3. WithJob' = WithJob BY <4>1 DEF WithJob, HasJob
      <4>4. ref' = Base' + j + c + (f - 1) BY SMTT(30), <2>3, <2>4, <3>1, <4>2
      <4> QED BY <2>3, <2>6, <3>2, <4>2, <4>3, <4>4
    <3>4. CASE job[s].flush = <<>>
      <4>1. job' = [job EXCEPT ![s] = NoJob] /\ pc' = [pc EXCEPT ![s] = "qlock"]
        BY <2>14, <3>4 DEF Free, Goto
      <4>2. \A t \in Slaves : job'[t].flush = job[t].flush BY <2>1, <3>4, <4>1, NoneTypes
      <4>3. Flushing' = Flushing BY <4>2, <1>FlushingSame
      <4>4. WithJob' = WithJob \ {s} /\ s \in WithJob BY <2>1, <3>1, <4>1 DEF WithJob, HasJob
      <4>5. j - 1 \in Nat /\ Counts(j - 1, WithJob') BY <2>3, <4>4, <1>CountOut
      <4>6. ref' = Base' + (j - 1) + c + f BY SMTT(30), <2>3, <2>4, <3>1, <4>5
      <4> QED BY <2>3, <2>6, <3>2, <4>3, <4>5, <4>6
    <3> QED BY <3>3, <3>4
  <2> QED BY <2>9, <2>10, <2>11, <2>13, <2>14

<1> SUFFICES ASSUME SInv, SInv', RefInv, [Next]_vars PROVE RefInv' OBVIOUS
<1>1. Shape /\ Shape' BY DEF SInv
<1>2. CASE Exreadmsg \/ Enqueue \/ FlushWaiting \/ ReaderReply \/ ShutWaiting \/ Spawn \/ Wakeup \/ ShutWork
  BY <1>1, <1>2, <1>RefReader
<1>3. CASE FlushWork BY <1>1, <1>3, <1>RefFlushWork
<1>4. ASSUME NEW s \in Slaves,
             \/ Qlock(s) \/ Sleep(s) \/ SleepReturn(s) \/ Fcall(s) \/ End(s) \/ Reply(s) \/ Unlink(s)
             \/ (Take(s) /\ head = <<>>)
      PROVE  RefInv'
  BY <1>1, <1>4, <1>RefStill
<1>5. CASE ClientTake \/ Hangup \/ UNCHANGED vars BY <1>1, <1>5, <1>RefStill
<1>6. ASSUME NEW s \in Slaves, (Take(s) /\ head # <<>>) \/ Start(s) \/ Flushes(s) \/ Rflush(s) \/ Free(s)
      PROVE  RefInv'
  BY <1>1, <1>6, <1>RefMoves
<1> QED BY <1>2, <1>3, <1>4, <1>5, <1>6 DEF Next, Reader, Slave

\* The invariant of the locks, the slaves and their jobs, and of the references.
THEOREM Invariance == Spec => [](SInv /\ RefInv)
<1>1. Init => SInv /\ RefInv BY InitS, InitRef
<1>2. SInv /\ RefInv /\ [Next]_vars => SInv' /\ RefInv' BY NextS, NextRef
<1> QED BY <1>1, <1>2, PTL DEF Spec

\* Every variable has its type, whatever the numbers of tags and slaves.
THEOREM TypeCorrect == Spec => []TypeOK
<1>1. SInv /\ RefInv => TypeOK
  <2> SUFFICES ASSUME SInv, RefInv PROVE TypeOK OBVIOUS
  <2>1. Shape /\ ref \in Nat BY RefInvIsExact DEF SInv
  <2> QED BY <2>1 DEF TypeOK, Shape, Readers, Labels, Jobs
<1> QED BY <1>1, Invariance, PTL

\* A flush interrupts only the slave that is busy with the request, and never
\* while it writes the reply (exflushed, exslave).
THEOREM InterruptsAreAimed == Spec => []InterruptsAimed
<1>1. SInv /\ RefInv => InterruptsAimed
  BY DEF SInv, SlavesInv, JobOK, InterruptsAimed
<1> QED BY <1>1, Invariance, PTL

\* The Export has exactly one reference for each message in its hands and one
\* for the reader: it is freed when, and only when, the last is given up.
THEOREM RefsAreExact == Spec => []RefsExact
<1>1. SInv /\ RefInv => RefsExact
  BY RefInvIsExact DEF SInv
<1> QED BY <1>1, Invariance, PTL

-----------------------------------------------------------------------------
=============================================================================
