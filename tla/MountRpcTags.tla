---------------------------- MODULE MountRpcTags ----------------------------
(***************************************************************************)
(* Proofs about MountRpc: the messages on their way and the tags they use, *)
(* and what becomes of a call.                                             *)
(***************************************************************************)
EXTENDS MountRpcProofs

\* A message that belongs to a call which may still succeed.
Live(m) == m.call \in Procs /\ ~failed[m.call]

Msgs == Elements(wire) \cup Elements(pending)

\* Such a message is that of a header of a call that waits.
MsgOK(m) ==
  /\ m = VersionMsg \/ m.call \in Procs \/ down
  /\ Live(m) => LET p == m.call
                IN  /\ pc[p] \in Waiting /\ m.tag \in Tags /\ rpc[m.tag].req = m
                    /\ IF m.old = NoTag THEN m.tag = Orig(p) ELSE m.old = Orig(p)
                    /\ rpc[r[p]].req.old = NoTag => m.tag = r[p]
                    /\ pc[p] = "write" => m.tag # r[p]
                    /\ ~down \/ pc[p] \in Sent => ~rpc[r[p]].done

MsgInv == \A m \in Msgs : MsgOK(m)

\* A header whose request is still to be written waits in the queue.
WriteInv ==
  \A p \in Procs : pc[p] = "write" /\ ~down => ~rpc[r[p]].done /\ r[p] \in Elements(queue)

\* Of two messages of a call the later one is a Tflush and the earlier one is
\* not the last.
Before(x, y) ==
  Live(x) /\ x.call = y.call => x.tag # r[x.call] /\ x.tag # y.tag /\ y.old # NoTag

OrderInv ==
  /\ \A i, j \in DOMAIN wire : i < j => Before(wire[i], wire[j])
  /\ \A i, j \in DOMAIN pending : i < j => Before(pending[i], pending[j])
  /\ \A i \in DOMAIN wire, j \in DOMAIN pending : Before(wire[i], pending[j])

\* A call whose headers were all allocated before the connection broke.
Sure(p) == pc[p] \in Sent \/ (pc[p] \in Waiting /\ ~down)

\* No stale message has a tag that such a call uses.
CleanInv ==
  /\ \A m, n \in Msgs : Live(n) /\ m.tag = n.tag => m = n
  /\ \A m \in Msgs : Live(m) => m.tag \in Elements(queue)
  /\ \A p \in Procs : Sure(p) => \A m \in Msgs : \A t \in {r[p], Orig(p)} :
                                   m.tag = t => m = rpc[t].req
  /\ \A p \in Procs : pc[p] \in Ending /\ ~failed[p] => \A m \in Msgs : m.tag # Orig(p)

\* What the state of a call says about what the server did.
Answered(t) == rpc[t].done /\ rpc[t].reply = rpc[t].req

SureOK(p) ==
  LET o == Orig(p)
  IN  /\ fate[p] = "open" => /\ ~rpc[o].done /\ ~rpc[r[p]].done
                             /\ \A m \in Elements(wire) : m.call # p
      /\ fate[p] = "answered" => rpc[o].req \in Elements(wire) \/ Answered(o)
      /\ fate[p] = "cancelled" => ~rpc[o].done /\ rpc[o].req \notin Msgs

EndOK(p) ==
  LET o == Orig(p)
  IN  \/ fate[p] = "answered" /\ Answered(o) /\ ~(pc[p] \in {"unanswered", "qrm"} /\ r[p] = o)
      \/ /\ fate[p] = "cancelled" /\ ~rpc[o].done
         /\ pc[p] = "qrm" /\ r[p] = o => rpc[o].reply = Rflush

FateOK(p) ==
  /\ pc[p] \in Quiet => fate[p] = "idle"
  /\ pc[p] = "return" => fate[p] \in {"ok", "interrupted", "failed"}
  /\ pc[p] \notin Quiet \cup {"return"} => fate[p] \in {"open", "answered", "cancelled"}
  /\ pc[p] = "write" /\ r[p] = Orig(p) => fate[p] = "open"
  /\ Sure(p) => SureOK(p)
  /\ pc[p] \in Ending \ {"return"} /\ ~failed[p] => EndOK(p)

FateInv == \A p \in Procs : FateOK(p)

-----------------------------------------------------------------------------
(* Messages in the two queues.                                             *)

USE MountAssumption DEF Tags, NoTag

TagInv == MsgInv /\ CleanInv /\ WriteInv

USE ZenonT(30)

\* What is taken away from the queues leaves the rest in order, if the
\* messages are related as they were.
LEMMA ShrinkMsgs ==
  ASSUME TypeOK, OrderInv, wire' = wire \/ (wire # <<>> /\ wire' = Tail(wire)),
         pending' = pending \/ pending' = <<>>,
         \A x, y \in Msgs : Before(x, y) => Before(x, y)'
  PROVE  OrderInv' /\ Msgs' \subseteq Msgs
<1> wire \in Seq(Message) /\ pending \in Seq(Message) BY DEF TypeOK
<1> \A i \in DOMAIN wire : wire[i] \in Msgs BY DEF Msgs, Elements
<1> \A i \in DOMAIN pending : pending[i] \in Msgs BY DEF Msgs, Elements
<1>1. PICK d \in {0, 1} : \A i \in DOMAIN wire' : i \in Nat /\ i + d \in DOMAIN wire /\ wire'[i] = wire[i + d]
  <2>1. CASE wire' = wire
    <3> \A i \in DOMAIN wire' : i \in Nat /\ i + 0 \in DOMAIN wire /\ wire'[i] = wire[i + 0] BY SMT, <2>1
    <3> QED BY SMT
  <2>2. CASE wire # <<>> /\ wire' = Tail(wire)
    <3> \A i \in DOMAIN wire' : i \in Nat /\ i + 1 \in DOMAIN wire /\ wire'[i] = wire[i + 1] BY SMT, <2>2
    <3> QED BY SMT
  <2> QED BY <2>1, <2>2
<1>2. \A i \in DOMAIN pending' : i \in DOMAIN pending /\ pending'[i] = pending[i] BY SMT
<1>3. ASSUME NEW i \in DOMAIN wire', NEW j \in DOMAIN wire', i < j
      PROVE  Before(wire[i], wire[j])'
  <2> i + d < j + d /\ i + d \in DOMAIN wire /\ j + d \in DOMAIN wire BY SMT, <1>1, <1>3
  <2>1. Before(wire[i + d], wire[j + d]) BY DEF OrderInv
  <2>2. PICK x \in Msgs, y \in Msgs : x = wire[i + d] /\ y = wire[j + d] BY SMT
  <2>3. Before(x, y)' BY <2>1, <2>2
  <2> QED BY <1>1, <2>2, <2>3 DEF Before, Live
<1>4. ASSUME NEW i \in DOMAIN pending', NEW j \in DOMAIN pending', i < j
      PROVE  Before(pending[i], pending[j])'
  <2>1. Before(pending[i], pending[j]) BY <1>2, <1>4 DEF OrderInv
  <2>2. PICK x \in Msgs, y \in Msgs : x = pending[i] /\ y = pending[j] BY <1>2
  <2>3. Before(x, y)' BY <2>1, <2>2
  <2> QED BY <1>2, <2>2, <2>3 DEF Before, Live
<1>5. ASSUME NEW i \in DOMAIN wire', NEW j \in DOMAIN pending'
      PROVE  Before(wire[i], pending[j])'
  <2> i + d \in DOMAIN wire BY <1>1
  <2>1. Before(wire[i + d], pending[j]) BY <1>2 DEF OrderInv
  <2>2. PICK x \in Msgs, y \in Msgs : x = wire[i + d] /\ y = pending[j] BY <1>2
  <2>3. Before(x, y)' BY <2>1, <2>2
  <2> QED BY <1>1, <1>2, <2>2, <2>3 DEF Before, Live
<1>6. OrderInv' BY <1>3, <1>4, <1>5 DEF OrderInv
<1>7. \A i \in DOMAIN wire' : wire'[i] \in Msgs BY <1>1
<1>8. \A i \in DOMAIN pending' : pending'[i] \in Msgs BY <1>2
<1> QED BY <1>6, <1>7, <1>8 DEF Msgs, Elements

\* A message arrives after all others.
LEMMA ReceiveMsgs ==
  ASSUME TypeOK, OrderInv, NEW m, wire' = wire, pending' = Append(pending, m),
         \A x, y \in Msgs : Before(x, y) => Before(x, y)',
         \A x \in Msgs : Before(x, m)'
  PROVE  OrderInv' /\ Msgs' = Msgs \cup {m}
<1> wire \in Seq(Message) /\ pending \in Seq(Message) BY DEF TypeOK
<1> \A i \in DOMAIN wire : wire[i] \in Msgs BY DEF Msgs, Elements
<1> \A i \in DOMAIN pending : pending[i] \in Msgs BY DEF Msgs, Elements
<1> DEFINE n == Len(pending) + 1
<1>1. /\ n \in Nat /\ DOMAIN pending' = 1 .. n /\ DOMAIN pending = 1 .. n - 1
      /\ pending'[n] = m /\ \A i \in 1 .. n - 1 : pending'[i] = pending[i]
  BY SMT
<1> HIDE DEF n
<1>2. ASSUME NEW i \in DOMAIN wire', NEW j \in DOMAIN wire', i < j
      PROVE  Before(wire[i], wire[j])'
  <2>1. Before(wire[i], wire[j]) BY <1>2 DEF OrderInv
  <2>2. PICK x \in Msgs, y \in Msgs : x = wire[i] /\ y = wire[j] BY SMT
  <2>3. Before(x, y)' BY <2>1, <2>2
  <2> QED BY <2>2, <2>3 DEF Before, Live
<1>3. ASSUME NEW i \in DOMAIN pending', NEW j \in DOMAIN pending', i < j
      PROVE  Before(pending[i], pending[j])'
  <2>1. PICK x \in Msgs : x = pending'[i] /\ i \in DOMAIN pending /\ x = pending[i] BY SMT, <1>1, <1>3
  <2>2. CASE j = n BY <1>1, <2>1, <2>2 DEF Before, Live
  <2>3. CASE j # n
    <3>1. PICK y \in Msgs : y = pending'[j] /\ j \in DOMAIN pending /\ y = pending[j] BY SMT, <1>1, <2>3
    <3>2. Before(x, y) BY <1>3, <2>1, <3>1 DEF OrderInv
    <3>3. Before(x, y)' BY <3>2
    <3> QED BY <2>1, <3>1, <3>3 DEF Before, Live
  <2> QED BY <2>2, <2>3
<1>4. ASSUME NEW i \in DOMAIN wire', NEW j \in DOMAIN pending'
      PROVE  Before(wire[i], pending[j])'
  <2>1. PICK x \in Msgs : x = wire[i] BY SMT
  <2>2. CASE j = n BY <1>1, <2>1, <2>2 DEF Before, Live
  <2>3. CASE j # n
    <3>1. PICK y \in Msgs : y = pending'[j] /\ j \in DOMAIN pending /\ y = pending[j] BY SMT, <1>1, <2>3
    <3>2. Before(x, y) BY <2>1, <3>1 DEF OrderInv
    <3>3. Before(x, y)' BY <3>2
    <3> QED BY <2>1, <3>1, <3>3 DEF Before, Live
  <2> QED BY <2>2, <2>3
<1>5. OrderInv' BY <1>2, <1>3, <1>4 DEF OrderInv
<1>6. Msgs' = Msgs \cup {m}
  <2>1. \A i \in DOMAIN pending' : pending'[i] \in Elements(pending) \cup {m} BY SMT, <1>1 DEF Elements
  <2>2. \A i \in DOMAIN pending : pending[i] \in Elements(pending)' BY SMT, <1>1 DEF Elements
  <2>3. m \in Elements(pending)' BY SMTT(30), <1>1 DEF Elements
  <2>4. Elements(pending)' = Elements(pending) \cup {m} BY SMT, <2>1, <2>2, <2>3 DEF Elements
  <2>5. Elements(wire)' = Elements(wire) BY DEF Elements
  <2> QED BY <2>4, <2>5 DEF Msgs
<1> QED BY <1>5, <1>6

-----------------------------------------------------------------------------
(* Steps that leave the headers as they are.                               *)

\* The last header of a call, and its first.
LEMMA CallHeaders ==
  ASSUME BaseInv
  PROVE  /\ \A q \in Procs : pc[q] \notin Quiet =>
              /\ r[q] \in Tags /\ rpc[r[q]].req \in Message
              /\ rpc[r[q]].req.tag = r[q] /\ rpc[r[q]].req.call = q
              /\ Orig(q) \in Tags /\ rpc[Orig(q)].req \in Message
              /\ rpc[Orig(q)].req.tag = Orig(q) /\ rpc[Orig(q)].req.call = q
              /\ rpc[Orig(q)].req.old = NoTag
         /\ \A q \in Procs : pc[q] \in Labels /\ failed[q] \in BOOLEAN
         /\ \A q \in Procs : failed[q] => down /\ pc[q] \in Ending
<1> TypeOK /\ HeaderInv /\ OrigInv /\ ReadInv BY DEF BaseInv, HInv
<1>1. ASSUME NEW q \in Procs, pc[q] \notin Quiet
      PROVE  /\ r[q] \in Tags /\ rpc[r[q]].req \in Message
             /\ rpc[r[q]].req.tag = r[q] /\ rpc[r[q]].req.call = q
             /\ Orig(q) \in Tags /\ rpc[Orig(q)].req \in Message
             /\ rpc[Orig(q)].req.tag = Orig(q) /\ rpc[Orig(q)].req.call = q
             /\ rpc[Orig(q)].req.old = NoTag
  <2>0. r[q] \in 0 .. NTags /\ r[q] # NoTag BY <1>1 DEF TypeOK, HeaderInv
  <2>1. r[q] \in Tags /\ r[q] # NoTag BY SMT, <2>0
  <2>2. InUse(r[q]) /\ rpc[r[q]].req.call = q BY <2>1 DEF HeaderInv
  <2>3. /\ Orig(q) \in Tags /\ InUse(Orig(q))
        /\ rpc[Orig(q)].req.call = q /\ rpc[Orig(q)].req.old = NoTag
    BY <2>1 DEF OrigInv
  <2>4. \A t \in Tags : InUse(t) => rpc[t].req \in Message /\ rpc[t].req.tag = t
    <3>1. \A t \in Tags : rpc[t].req \in Message \cup {None} BY DEF TypeOK
    <3> QED BY <3>1 DEF InUse, HeaderInv
  <2> QED BY <2>1, <2>2, <2>3, <2>4
<1>2. \A q \in Procs : pc[q] \in Labels /\ failed[q] \in BOOLEAN BY DEF TypeOK
<1>3. \A q \in Procs : failed[q] => down /\ pc[q] \in Ending BY DEF ReadInv
<1> QED BY <1>1, <1>2, <1>3

\* What a step may do to the calls without disturbing the messages.
SameCalls ==
  \A q \in Procs :
    /\ failed[q] => failed'[q]
    /\ Sure(q)' => Sure(q)
    /\ pc'[q] = "write" => pc[q] = "write"
    /\ pc[q] \in Waiting /\ ~failed'[q] => pc'[q] \in Waiting \/ (rpc[r[q]].done /\ pc[q] \in Sent)
    /\ pc'[q] \in Ending /\ ~failed'[q] =>
         (pc[q] \in Ending /\ ~failed[q]) \/ (rpc[r[q]].done /\ pc[q] \in Sent)

\* A message that such a step may send.
Sends(n) ==
  \E p \in Procs : /\ pc[p] = "write" /\ ~down /\ n = rpc[r[p]].req
                   /\ pc'[p] \in Waiting \ {"write"} \/ failed'[p]

\* Steps that change no call and no header, and bring no message but a Tversion.
LEMMA SameTags ==
  ASSUME BaseInv, TagInv, UNCHANGED <<r, rpc, queue>>, down => down', SameCalls,
         NEW n, n = VersionMsg \/ (Sends(n) /\ ~down'), Msgs' \subseteq Msgs \cup {n}
  PROVE  TagInv' /\ \A x, y \in Msgs : Before(x, y) => Before(x, y)'
<1> MsgInv /\ CleanInv /\ WriteInv BY DEF TagInv
<1>0. Waiting \cap Quiet = {} /\ Ending \cap Quiet = {} /\ Sent \subseteq Waiting /\ "write" \in Waiting
      /\ Waiting \cap Ending = {} /\ "write" \notin Sent
  BY DEF Waiting, Quiet, Ending, Sent
<1>1. /\ \A q \in Procs : pc[q] \notin Quiet =>
              /\ r[q] \in Tags /\ rpc[r[q]].req \in Message
              /\ rpc[r[q]].req.tag = r[q] /\ rpc[r[q]].req.call = q
              /\ Orig(q) \in Tags /\ rpc[Orig(q)].req \in Message
              /\ rpc[Orig(q)].req.tag = Orig(q) /\ rpc[Orig(q)].req.call = q
              /\ rpc[Orig(q)].req.old = NoTag
      /\ \A q \in Procs : pc[q] \in Labels /\ failed[q] \in BOOLEAN
      /\ \A q \in Procs : failed[q] => down /\ pc[q] \in Ending
  BY CallHeaders
<1>2. \A q \in Procs : Orig(q)' = Orig(q) BY DEF Orig
<1>3. \A m : Live(m)' => Live(m) BY DEF Live, SameCalls
<1>4. \A x, y \in Msgs : Before(x, y) => Before(x, y)' BY <1>3 DEF Before
<1>5. ASSUME NEW m \in Msgs, Live(m)'
      PROVE  MsgOK(m)'
  <2> DEFINE q == m.call
  <2>1. q \in Procs /\ ~failed'[q] /\ Live(m) BY <1>3, <1>5 DEF Live
  <2>2. /\ pc[q] \in Waiting /\ m.tag \in Tags /\ rpc[m.tag].req = m
        /\ IF m.old = NoTag THEN m.tag = Orig(q) ELSE m.old = Orig(q)
        /\ rpc[r[q]].req.old = NoTag => m.tag = r[q]
        /\ pc[q] = "write" => m.tag # r[q]
        /\ ~down \/ pc[q] \in Sent => ~rpc[r[q]].done
    BY <2>1 DEF MsgInv, MsgOK
  <2>3. pc'[q] \in Waiting BY <2>1, <2>2 DEF SameCalls
  <2>4. pc'[q] = "write" => pc[q] = "write" BY <2>1 DEF SameCalls
  <2>5. ~down' \/ pc'[q] \in Sent => ~rpc[r[q]].done BY <2>1, <2>2, <2>3 DEF SameCalls, Sure
  <2>6. Orig(q)' = Orig(q) BY <1>2, <2>1
  <2> HIDE DEF q
  <2> QED BY <2>1, <2>2, <2>3, <2>4, <2>5, <2>6 DEF MsgOK, q
<1>6. CASE n = VersionMsg
  <2>1. n.tag = NoTag /\ n.call = None /\ ~Live(n)' BY <1>6 DEF VersionMsg, Live
  <2>2. MsgInv'
    <3>1. ASSUME NEW m \in Msgs', ~Live(m)' PROVE MsgOK(m)' BY <1>6, <3>1 DEF MsgOK, MsgInv
    <3> QED BY <1>5, <2>1, <3>1 DEF MsgInv
  <2>3. WriteInv' BY DEF WriteInv, SameCalls
  <2>4. \A m \in Msgs', k \in Msgs' : Live(k)' /\ m.tag = k.tag => m = k
    <3>1. \A k \in Msgs' : Live(k)' => k \in Msgs /\ Live(k) /\ k.tag \in Tags
      BY <1>3, <2>1 DEF MsgInv, MsgOK
    <3> QED BY SMT, <2>1, <3>1 DEF CleanInv
  <2>5. \A m \in Msgs' : Live(m)' => m.tag \in Elements(queue') BY <1>3, <2>1 DEF CleanInv
  <2>6. ASSUME NEW q \in Procs, Sure(q)', NEW m \in Msgs', NEW t \in {r'[q], Orig(q)'}, m.tag = t
        PROVE  m = rpc'[t].req
    <3>1. Sure(q) /\ t \in {r[q], Orig(q)} BY <1>2, <2>6 DEF SameCalls
    <3>2. t \in Tags BY SMT, <1>0, <1>1, <3>1 DEF Sure
    <3> QED BY SMT, <2>1, <2>6, <3>1, <3>2 DEF CleanInv
  <2>7. ASSUME NEW q \in Procs, pc'[q] \in Ending, ~failed'[q], NEW m \in Msgs', m.tag = Orig(q)'
        PROVE  FALSE
    <3>1. (pc[q] \in Ending /\ ~failed[q]) \/ (rpc[r[q]].done /\ pc[q] \in Sent) BY <2>7 DEF SameCalls
    <3>2. Orig(q)' = Orig(q) /\ Orig(q) \in Tags /\ m \in Msgs BY SMT, <1>0, <1>1, <1>2, <2>1, <2>7, <3>1
    <3>3. CASE pc[q] \in Ending /\ ~failed[q] BY <2>7, <3>2, <3>3 DEF CleanInv
    <3>4. CASE rpc[r[q]].done /\ pc[q] \in Sent
      <4>1. m = rpc[Orig(q)].req BY <2>7, <3>2, <3>4 DEF CleanInv, Sure
      <4>2. m.call = q /\ ~failed[q] BY <1>0, <1>1, <3>4, <4>1
      <4> QED BY <3>2, <3>4, <4>2 DEF MsgInv, MsgOK, Live
    <3> QED BY <3>1, <3>3, <3>4
  <2> QED BY <1>4, <2>2, <2>3, <2>4, <2>5, <2>6, <2>7 DEF TagInv, CleanInv
<1>7. CASE Sends(n) /\ ~down'
  <2>1. PICK p \in Procs : /\ pc[p] = "write" /\ ~down /\ n = rpc[r[p]].req
                           /\ pc'[p] \in Waiting \ {"write"} \/ failed'[p]
    BY <1>7 DEF Sends
  <2>2. /\ r[p] \in Tags /\ n \in Message /\ n.tag = r[p] /\ n.call = p
        /\ \A q \in Procs \ {p} : pc[q] \notin Quiet => r[q] # r[p] /\ Orig(q) # r[p]
    BY SMT, <1>0, <1>1, <2>1
  <2>3. Sure(p) /\ ~rpc[r[p]].done /\ r[p] \in Elements(queue) /\ ~failed[p]
    BY <1>0, <1>1, <1>7, <2>1 DEF Sure, WriteInv
  <2>4. \A m \in Msgs : m.tag = r[p] => m = n BY <2>1, <2>3 DEF CleanInv
  <2>5. Live(n)' => MsgOK(n)'
    <3>1. (n.old = NoTag => Orig(p) = r[p]) /\ (n.old # NoTag => Orig(p) = n.old) BY <2>1 DEF Orig
    <3>2. Orig(p)' = Orig(p) BY <1>2
    <3> QED BY <2>1, <2>2, <2>3, <3>1, <3>2 DEF MsgOK, Live
  <2>6. MsgInv'
    <3>1. ASSUME NEW m \in Msgs', ~Live(m)' PROVE MsgOK(m)'
      <4>1. CASE m \in Msgs BY <3>1, <4>1 DEF MsgOK, MsgInv
      <4>2. CASE m = n BY <2>2, <3>1, <4>2 DEF MsgOK
      <4> QED BY <4>1, <4>2
    <3> QED BY <1>5, <2>5, <3>1 DEF MsgInv
  <2>7. WriteInv' BY <1>7 DEF WriteInv, SameCalls
  <2>8. \A m \in Msgs', k \in Msgs' : Live(k)' /\ m.tag = k.tag => m = k
    BY <1>3, <2>2, <2>4 DEF CleanInv
  <2>9. \A m \in Msgs' : Live(m)' => m.tag \in Elements(queue')
    BY <1>3, <2>2, <2>3 DEF CleanInv
  <2>10. ASSUME NEW q \in Procs, Sure(q)', NEW m \in Msgs', NEW t \in {r'[q], Orig(q)'}, m.tag = t
        PROVE  m = rpc'[t].req
    <3>1. Sure(q) /\ t \in {r[q], Orig(q)} BY <1>2, <2>10 DEF SameCalls
    <3> QED BY SMT, <2>1, <2>2, <2>10, <3>1 DEF CleanInv
  <2>11. ASSUME NEW q \in Procs, pc'[q] \in Ending, ~failed'[q], NEW m \in Msgs', m.tag = Orig(q)'
        PROVE  FALSE
    <3>1. (pc[q] \in Ending /\ ~failed[q]) \/ (rpc[r[q]].done /\ pc[q] \in Sent) BY <2>11 DEF SameCalls
    <3>2. q # p /\ pc[q] \notin Quiet BY <1>0, <2>1, <3>1
    <3>3. Orig(q)' = Orig(q) /\ m \in Msgs BY <1>2, <2>2, <2>11, <3>2
    <3>4. CASE pc[q] \in Ending /\ ~failed[q] BY <2>11, <3>3, <3>4 DEF CleanInv
    <3>5. CASE rpc[r[q]].done /\ pc[q] \in Sent
      <4>1. m = rpc[Orig(q)].req BY <2>11, <3>3, <3>5 DEF CleanInv, Sure
      <4>2. m.call = q /\ ~failed[q] BY <1>0, <1>1, <3>2, <3>5, <4>1
      <4> QED BY <3>3, <3>5, <4>2 DEF MsgInv, MsgOK, Live
    <3> QED BY <3>1, <3>4, <3>5
  <2> QED BY <1>4, <2>6, <2>7, <2>8, <2>9, <2>10, <2>11 DEF TagInv, CleanInv
<1> QED BY <1>6, <1>7

MInv == TagInv /\ OrderInv

\* Nothing is sent, and messages may be taken away.
LEMMA ShrinkTags ==
  ASSUME BaseInv, MInv, UNCHANGED <<r, rpc, queue>>, down => down', SameCalls,
         wire' = wire \/ (wire # <<>> /\ wire' = Tail(wire)),
         pending' = pending \/ pending' = <<>>
  PROVE  MInv' /\ Msgs' \subseteq Msgs
<1> TypeOK /\ TagInv /\ OrderInv BY DEF BaseInv, MInv
<1>1. \A x, y \in Msgs : Before(x, y) => Before(x, y)' BY DEF Before, Live, SameCalls
<1>2. OrderInv' /\ Msgs' \subseteq Msgs BY <1>1, ShrinkMsgs
<1>3. Msgs' \subseteq Msgs \cup {VersionMsg} BY <1>2
<1>4. TagInv' BY <1>3, SameTags
<1> QED BY <1>2, <1>4 DEF MInv

\* A version exchange uses no tag.
LEMMA QuietTags ==
  ASSUME BaseInv, MInv, NEW p \in Procs, QuietStep(p)
  PROVE  MInv'
<1> TypeOK /\ TagInv /\ OrderInv BY DEF BaseInv, MInv
<1>1. /\ UNCHANGED <<r, rpc, queue, failed, down>>
      /\ pc[p] \in Quiet /\ pc'[p] \in Quiet /\ \A q \in Procs \ {p} : pc'[q] = pc[q]
  BY DEF QuietStep
<1>2. Quiet \cap (Waiting \cup Ending) = {} /\ Sent \subseteq Waiting /\ "write" \in Waiting
  BY DEF Quiet, Waiting, Ending, Sent
<1>3. SameCalls
  <2>1. ASSUME NEW q \in Procs
        PROVE  \/ pc'[q] = pc[q]
               \/ pc[q] \notin Waiting \cup Ending /\ pc'[q] \notin Waiting \cup Ending
    BY <1>1, <1>2
  <2> QED BY <1>1, <1>2, <2>1 DEF SameCalls, Sure
<1>4. CASE UNCHANGED <<pending, wire>> BY <1>1, <1>3, <1>4, ShrinkTags
<1>5. CASE Server!Take
  <2>1. pending' = pending /\ wire # <<>> /\ wire' = Tail(wire) BY <1>5 DEF Server!Take
  <2> QED BY <1>1, <1>3, <2>1, ShrinkTags
<1>6. CASE Server!Receive(VersionMsg)
  <2>1. wire' = wire /\ pending' = Append(pending, VersionMsg) BY <1>6 DEF Server!Receive
  <2>2. \A x, y \in Msgs : Before(x, y) => Before(x, y)' BY <1>1 DEF Before, Live
  <2>3. \A x \in Msgs : Before(x, VersionMsg)' BY DEF Before, Live, VersionMsg
  <2>4. OrderInv' /\ Msgs' = Msgs \cup {VersionMsg} BY <2>1, <2>2, <2>3, ReceiveMsgs
  <2>5. TagInv' BY <1>1, <1>3, <2>4, SameTags
  <2> QED BY <2>4, <2>5 DEF MInv
<1> QED BY <1>4, <1>5, <1>6 DEF QuietStep

\* A call that waits: it sends its request once, and does not end before it is
\* answered.
LEMMA WaitTags ==
  ASSUME BaseInv, BaseInv', MInv, NEW p \in Procs, WaitStep(p)
  PROVE  MInv'
<1> TypeOK /\ TagInv /\ OrderInv /\ MsgInv BY DEF BaseInv, MInv, TagInv
<1>1. /\ pc[p] \in Waiting /\ pc'[p] \in Waiting \cup {"flushfree"}
      /\ \A q \in Procs \ {p} : pc'[q] = pc[q] \/ (pc[q] = "blocked" /\ pc'[q] = "woken")
      /\ \A q \in Procs \ {p} : failed'[q] = failed[q]
      /\ UNCHANGED <<r, rpc, queue, fate, down>>
      /\ pc'[p] = "flushfree" =>
           failed'[p] \/ (rpc[r[p]].done /\ pc[p] \in Sent /\ UNCHANGED <<pending, wire>>)
      /\ pc'[p] = "write" => pc[p] = "write" /\ UNCHANGED <<pending, wire>>
      /\ pc'[p] \in Sent => pc[p] \in Sent \/ (pc[p] = "write" /\ ~down)
      /\ \/ UNCHANGED <<pending, wire>>
         \/ pc[p] = "write" /\ Server!Receive(rpc[r[p]].req)
  BY DEF WaitStep
<1>2. Waiting \cap Ending = {} /\ "flushfree" \in Ending /\ Sent \subseteq Waiting /\ "write" \in Waiting
      /\ {"blocked", "woken"} \subseteq Sent /\ "write" \notin Sent
  BY DEF Quiet, Waiting, Ending, Sent
<1>3. \A q \in Procs : failed[q] => down /\ pc[q] \in Ending BY CallHeaders
<1>4. SameCalls
  <2>1. ASSUME NEW q \in Procs \ {p}
        PROVE  pc'[q] = pc[q] \/ (pc[q] \in Sent /\ pc'[q] \in Sent)
    BY <1>1, <1>2
  <2>2. ~failed[p] BY <1>1, <1>2, <1>3
  <2>3. Sure(p)' => Sure(p) BY <1>1, <1>2 DEF Sure
  <2> QED BY <1>1, <1>2, <2>1, <2>2, <2>3 DEF SameCalls, Sure
<1>5. CASE UNCHANGED <<pending, wire>> BY <1>1, <1>4, <1>5, ShrinkTags
<1>6. CASE pc[p] = "write" /\ Server!Receive(rpc[r[p]].req)
  <2>1. PICK m : m = rpc[r[p]].req BY SMT
  <2>2. wire' = wire /\ pending' = Append(pending, m) /\ ~down BY <1>6, <2>1 DEF Server!Receive
  <2>3. pending \in Seq(Message) BY DEF TypeOK
  <2>4. pending' # pending
    <3>1. Len(pending') = Len(pending) + 1 /\ Len(pending) \in Nat BY SMT, <2>2, <2>3
    <3> QED BY SMT, <3>1
  <2>5. pc'[p] \in Waiting \ {"write"} \/ failed'[p] BY <1>1, <2>4
  <2>6. Sends(m) BY <1>6, <2>1, <2>2, <2>5 DEF Sends
  <2>7. \A x, y \in Msgs : Before(x, y) => Before(x, y)' BY <1>1, <1>4 DEF Before, Live, SameCalls
  <2>8. m.tag = r[p] /\ m.call = p BY <1>1, <2>1, CallHeaders DEF Waiting, Quiet
  <2>9. \A x \in Msgs : Before(x, m)'
    <3> SUFFICES ASSUME NEW x \in Msgs, Live(x)', x.call = p
                 PROVE  x.tag # r[p] /\ x.tag # m.tag /\ m.old # NoTag
      BY <1>1, <2>8 DEF Before
    <3>1. Live(x) BY <1>4 DEF Live, SameCalls
    <3> QED BY <1>6, <2>1, <2>8, <3>1 DEF MsgInv, MsgOK
  <2>10. OrderInv' /\ Msgs' = Msgs \cup {m} BY <2>2, <2>7, <2>9, ReceiveMsgs
  <2>11. TagInv' BY <1>1, <1>4, <2>2, <2>6, <2>10, SameTags
  <2> QED BY <2>10, <2>11 DEF MInv
<1> QED BY <1>1, <1>5, <1>6

\* The end of the connection takes away what is pending.
LEMMA HangupTags ==
  ASSUME BaseInv, MInv, HangupStep
  PROVE  MInv'
<1>1. UNCHANGED <<pc, r, rpc, queue, failed, wire>> /\ pending' = <<>> /\ down' /\ ~down
  BY DEF HangupStep
<1>2. SameCalls BY <1>1 DEF SameCalls, Sure
<1> QED BY <1>1, <1>2, ShrinkTags

\* An answer overtakes no earlier message of its call: flush(5) makes the server
\* settle those first.
LEMMA ServeTags ==
  ASSUME BaseInv, MInv, NEW i \in DOMAIN pending, ServeStep(i)
  PROVE  MInv' /\ Msgs' \subseteq Msgs
<1> TypeOK /\ TagInv /\ OrderInv /\ MsgInv BY DEF BaseInv, MInv, TagInv
<1> wire \in Seq(Message) /\ pending \in Seq(Message) BY DEF TypeOK
<1>1. UNCHANGED <<pc, r, rpc, queue, failed, down>> /\ wire' = Append(wire, pending[i])
  BY DEF ServeStep
<1>2. PICK K \in SUBSET (DOMAIN pending \ {i}) :
        /\ Selected(pending', pending, K)
        /\ pending[i].old # NoTag => \A j \in K : j < i => /\ pending[j].old # pending[i].old
                                                           /\ pending[j].tag # pending[i].old
  BY DEF ServeStep
<1>g. PICK g \in [DOMAIN pending' -> K] :
        Orders(g, K) /\ \A j \in DOMAIN pending' : pending'[j] = pending[g[j]]
  BY <1>2 DEF Selected
<1>3. /\ \A j \in DOMAIN pending' : g[j] \in K /\ pending'[j] = pending[g[j]]
      /\ \A j, k \in DOMAIN pending' : j < k => g[j] < g[k]
  <2>1. DOMAIN g = DOMAIN pending' BY <1>g
  <2> QED BY <1>g, <2>1 DEF Orders
<1>4. \A x, y \in Msgs : Before(x, y) => Before(x, y)' BY <1>1 DEF Before, Live
<1>5. /\ \A j \in DOMAIN wire : wire[j] \in Msgs
      /\ \A j \in DOMAIN pending : pending[j] \in Msgs /\ j \in Nat
  BY SMT DEF Msgs, Elements
<1>6. PICK n \in Nat : DOMAIN wire = 1 .. n /\ DOMAIN wire' = 1 .. n + 1 /\ wire'[n + 1] = pending[i]
                       /\ \A j \in 1 .. n : wire'[j] = wire[j]
  BY SMT, <1>1
<1>7. Msgs' \subseteq Msgs
  <2>1. \A j \in DOMAIN wire' : wire'[j] \in Msgs BY SMT, <1>5, <1>6
  <2>2. \A j \in DOMAIN pending' : pending'[j] \in Msgs BY <1>3, <1>5
  <2> QED BY <2>1, <2>2 DEF Msgs, Elements
<1>8. ASSUME NEW k \in K PROVE Before(pending[i], pending[k])
  <2> DEFINE x == pending[i]
             y == pending[k]
  <2>1. x \in Msgs /\ y \in Msgs /\ i \in Nat /\ k \in Nat /\ i # k /\ k \in DOMAIN pending
    BY <1>2, <1>5, <1>8
  <2>2. CASE i < k BY <2>1, <2>2 DEF OrderInv
  <2>3. CASE k < i
    <3>1. Before(y, x) BY <2>1, <2>3 DEF OrderInv
    <3>2. MsgOK(x) /\ MsgOK(y) BY <2>1 DEF MsgInv
    <3> HIDE DEF x, y
    <3> SUFFICES ASSUME Live(x), x.call = y.call PROVE FALSE BY DEF Before, x, y
    <3>3. Live(y) /\ x.old # NoTag BY <3>1 DEF Live, Before
    <3>4. y.old # x.old /\ y.tag # x.old BY <1>2, <2>3, <3>3 DEF x, y
    <3> QED BY <3>2, <3>3, <3>4 DEF MsgOK
  <2> QED BY SMT, <2>1, <2>2, <2>3
<1>9. ASSUME NEW j \in DOMAIN wire', NEW k \in DOMAIN wire', j < k
      PROVE  Before(wire[j], wire[k])'
  <2>1. j \in 1 .. n /\ wire'[j] = wire[j] BY SMT, <1>6, <1>9
  <2>2. PICK x \in Msgs, y \in Msgs : x = wire'[j] /\ y = wire'[k] BY SMT, <1>5, <1>6
  <2>3. Before(x, y)
    <3>1. CASE k = n + 1 BY <1>6, <2>1, <2>2, <3>1 DEF OrderInv
    <3>2. CASE k # n + 1
      <4>1. k \in 1 .. n /\ wire'[k] = wire[k] BY SMT, <1>6, <3>2
      <4> QED BY <1>6, <1>9, <2>1, <2>2, <4>1 DEF OrderInv
    <3> QED BY <3>1, <3>2
  <2>4. Before(x, y)' BY <1>4, <2>3
  <2> QED BY <2>2, <2>4 DEF Before, Live
<1>10. ASSUME NEW j \in DOMAIN pending', NEW k \in DOMAIN pending', j < k
      PROVE  Before(pending[j], pending[k])'
  <2>1. PICK a \in DOMAIN pending, b \in DOMAIN pending :
          a < b /\ pending'[j] = pending[a] /\ pending'[k] = pending[b]
    BY <1>2, <1>3, <1>10
  <2>2. PICK x \in Msgs, y \in Msgs : x = pending[a] /\ y = pending[b] BY <1>5
  <2>3. Before(x, y) BY <2>1, <2>2 DEF OrderInv
  <2>4. Before(x, y)' BY <1>4, <2>3
  <2> QED BY <2>1, <2>2, <2>4 DEF Before, Live
<1>11. ASSUME NEW j \in DOMAIN wire', NEW k \in DOMAIN pending'
      PROVE  Before(wire[j], pending[k])'
  <2>1. PICK b \in K : b \in DOMAIN pending /\ pending'[k] = pending[b] BY <1>2, <1>3
  <2>2. PICK x \in Msgs, y \in Msgs : x = wire'[j] /\ y = pending[b] BY SMT, <1>5, <1>6
  <2>3. Before(x, y)
    <3>1. CASE j = n + 1 BY <1>6, <1>8, <2>2, <3>1
    <3>2. CASE j # n + 1
      <4>1. j \in DOMAIN wire /\ wire'[j] = wire[j] BY SMT, <1>6, <3>2
      <4> QED BY <2>1, <2>2, <4>1 DEF OrderInv
    <3> QED BY <3>1, <3>2
  <2>4. Before(x, y)' BY <1>4, <2>3
  <2> QED BY <2>1, <2>2, <2>4 DEF Before, Live
<1>12. OrderInv' BY <1>9, <1>10, <1>11 DEF OrderInv
<1>13. SameCalls BY <1>1 DEF SameCalls, Sure
<1>14. Msgs' \subseteq Msgs \cup {VersionMsg} BY <1>7
<1>15. TagInv' BY <1>1, <1>13, <1>14, SameTags
<1> QED BY <1>7, <1>12, <1>15 DEF MInv

-----------------------------------------------------------------------------
(* Reading, and the end of a call.                                         *)

\* A reply reaches the header it is for, and is the only message with that tag.
LEMMA ReadTags ==
  ASSUME BaseInv, MInv, NEW p \in Procs, ReadStep(p)
  PROVE  MInv'

\* The message that is read comes before all others.
<1>HeadBefore.
     ASSUME TypeOK, OrderInv, wire # <<>>, wire' = Tail(wire), pending' = pending
     PROVE  /\ Head(wire) \in Msgs
            /\ \A m \in Msgs' : m \in Msgs /\ Before(Head(wire), m)
  <2> USE <1>HeadBefore
  <2> wire \in Seq(Message) /\ pending \in Seq(Message) BY DEF TypeOK
  <2>1. /\ 1 \in DOMAIN wire /\ Head(wire) = wire[1]
        /\ \A j \in DOMAIN wire' : j + 1 \in DOMAIN wire /\ 1 < j + 1 /\ wire'[j] = wire[j + 1]
    BY SMT
  <2>2. Head(wire) \in Msgs BY <2>1 DEF Msgs, Elements
  <2>3. \A j \in DOMAIN wire' : wire'[j] \in Msgs /\ Before(Head(wire), wire'[j])
    <3>1. \A j \in DOMAIN wire' : Before(wire[1], wire[j + 1]) BY <2>1 DEF OrderInv
    <3> QED BY <2>1, <3>1 DEF Msgs, Elements
  <2>4. \A j \in DOMAIN pending : pending[j] \in Msgs /\ Before(Head(wire), pending[j])
    BY <2>1 DEF Msgs, Elements, OrderInv
  <2> QED BY SMT, <2>2, <2>3, <2>4 DEF Msgs, Elements

<1> TypeOK /\ TagInv /\ OrderInv /\ MsgInv /\ CleanInv /\ WriteInv BY DEF BaseInv, MInv, TagInv
<1>1. /\ pc[p] = "read" /\ pc'[p] \in {"read", "wake"} /\ \A q \in Procs \ {p} : pc'[q] = pc[q]
      /\ wire # <<>> /\ wire' = Tail(wire) /\ pending' = pending
      /\ UNCHANGED <<r, failed, fate, down>>
  BY DEF ReadStep
<1>2. {"read", "wake"} \subseteq Sent /\ Sent \subseteq Waiting /\ Sent \cap Ending = {}
      /\ "write" \in Waiting \ Sent /\ Waiting \cap (Quiet \cup Ending) = {}
      /\ Ending \cap Quiet = {}
  BY DEF Waiting, Sent, Ending, Quiet
<1>3. \A q \in Procs : pc'[q] = pc[q] \/ (pc[q] \in Sent /\ pc'[q] \in Sent) BY <1>1, <1>2
<1>4. SameCalls BY <1>1, <1>2, <1>3 DEF SameCalls, Sure
<1>5. CASE UNCHANGED <<queue, rpc>> BY <1>1, <1>4, <1>5, ShrinkTags
<1>6. ASSUME NEW t \in Tags, t = Head(wire).tag, t \in Elements(queue),
             Elements(queue') = Elements(queue) \ {t},
             rpc'[t].req = rpc[t].req, rpc'[t].done = TRUE,
             \A u \in Tags \ {t} : rpc'[u] = rpc[u]
      PROVE  MInv'
  <2>1. PICK h : h = Head(wire) BY SMT
  <2>2. h \in Msgs /\ h.tag = t /\ \A m \in Msgs' : m \in Msgs /\ Before(h, m)
    BY <1>1, <1>6, <2>1, <1>HeadBefore
  <2>3. \A x, y \in Msgs : Before(x, y) => Before(x, y)' BY <1>1 DEF Before, Live
  <2>4. OrderInv' BY <1>1, <2>3, ShrinkMsgs
  <2>5. /\ \A q \in Procs : pc[q] \notin Quiet =>
              /\ r[q] \in Tags /\ rpc[r[q]].req.call = q
              /\ Orig(q) \in Tags /\ rpc[Orig(q)].req.call = q
        /\ \A q \in Procs : failed[q] => pc[q] \in Ending
    BY CallHeaders
  <2>6. \A u \in Tags : rpc'[u].req = rpc[u].req BY <1>6
  <2>7. \A q \in Procs : pc[q] \notin Quiet => Orig(q)' = Orig(q) BY <1>1, <2>5, <2>6 DEF Orig
  <2>8. \A m : Live(m)' <=> Live(m) BY <1>1 DEF Live
    \* A sure call that waits for h gets nothing else any more.
  <2>9. ASSUME NEW q \in Procs, Sure(q), r[q] = t
        PROVE  h.call = q /\ Live(h) /\ pc[q] # "write" /\ \A m \in Msgs' : m.call # q
    <3>1. h = rpc[r[q]].req /\ pc[q] \in Waiting BY <1>2, <2>2, <2>9 DEF CleanInv, Sure
    <3>2. h.call = q /\ ~failed[q] BY <1>2, <2>5, <3>1
    <3>3. Live(h) BY <3>2 DEF Live
    <3>4. pc[q] # "write" BY <2>2, <2>9, <3>2, <3>3 DEF MsgInv, MsgOK
    <3>5. \A m \in Msgs' : m.call # q BY <2>2, <2>9, <3>2, <3>3 DEF Before
    <3> QED BY <3>2, <3>3, <3>4, <3>5
  <2>10. ASSUME NEW m \in Msgs' PROVE MsgOK(m)'
    <3>1. m \in Msgs /\ MsgOK(m) BY <2>2 DEF MsgInv
    <3>2. CASE ~Live(m) BY <1>1, <2>8, <3>1, <3>2 DEF MsgOK
    <3>3. CASE Live(m)
      <4>1. PICK q \in Procs : q = m.call BY <3>3 DEF Live
      <4>2. /\ pc[q] \in Waiting /\ m.tag \in Tags /\ rpc[m.tag].req = m
            /\ IF m.old = NoTag THEN m.tag = Orig(q) ELSE m.old = Orig(q)
            /\ rpc[r[q]].req.old = NoTag => m.tag = r[q]
            /\ pc[q] = "write" => m.tag # r[q]
            /\ ~down \/ pc[q] \in Sent => ~rpc[r[q]].done
        BY <3>1, <3>3, <4>1 DEF MsgOK
      <4>3. pc'[q] \in Waiting /\ (pc'[q] = "write" => pc[q] = "write") BY <1>2, <1>3, <4>2
      <4>4. rpc'[m.tag].req = m /\ rpc'[r[q]].req = rpc[r[q]].req /\ Orig(q)' = Orig(q)
        BY <1>2, <2>5, <2>6, <2>7, <4>2
      <4>5. ~down' \/ pc'[q] \in Sent => ~rpc'[r[q]].done
        <5> SUFFICES ASSUME ~down' \/ pc'[q] \in Sent PROVE ~rpc'[r[q]].done BY SMT
        <5>1. (~down \/ pc[q] \in Sent) /\ Sure(q) BY <1>1, <1>3, <4>2 DEF Sure
        <5>2. r[q] # t BY <2>9, <4>1, <5>1
        <5>3. r[q] \in Tags BY <1>2, <2>5, <4>2
        <5> QED BY <1>6, <4>2, <5>1, <5>2, <5>3
      <4> QED BY <1>1, <4>1, <4>2, <4>3, <4>4, <4>5 DEF MsgOK
    <3> QED BY <3>2, <3>3
  <2>11. WriteInv'
    <3> SUFFICES ASSUME NEW q \in Procs, pc'[q] = "write", ~down'
                 PROVE  ~rpc'[r[q]].done /\ r[q] \in Elements(queue')
      BY <1>1 DEF WriteInv
    <3>1. pc[q] = "write" /\ ~down /\ Sure(q) BY <1>1, <1>2, <1>3 DEF Sure
    <3>2. r[q] \in Tags \ {t} BY SMT, <1>2, <2>5, <2>9, <3>1
    <3> QED BY <1>6, <3>1, <3>2 DEF WriteInv
  <2>12. CleanInv'
    <3>1. \A m \in Msgs', k \in Msgs' : Live(k)' /\ m.tag = k.tag => m = k BY <2>2, <2>8 DEF CleanInv
    <3>2. ASSUME NEW m \in Msgs', Live(m)' PROVE m.tag \in Elements(queue')
      <4>1. m \in Msgs /\ Live(m) /\ Before(h, m) BY <2>2, <2>8, <3>2
      <4>2. m.tag = t => h = m BY <2>2, <4>1 DEF CleanInv
      <4>3. m.tag # t BY <4>1, <4>2 DEF Before
      <4> QED BY <1>6, <4>1, <4>3 DEF CleanInv
    <3>3. ASSUME NEW q \in Procs, Sure(q)', NEW m \in Msgs', NEW u \in {r'[q], Orig(q)'}, m.tag = u
          PROVE  m = rpc'[u].req
      <4>1. Sure(q) /\ pc[q] \notin Quiet BY <1>2, <1>4, <3>3 DEF SameCalls, Sure
      <4>2. u \in {r[q], Orig(q)} /\ u \in Tags BY SMTT(30), <1>1, <2>5, <2>7, <3>3, <4>1
      <4> QED BY <2>2, <2>6, <3>3, <4>1, <4>2 DEF CleanInv
    <3>4. ASSUME NEW q \in Procs, pc'[q] \in Ending, ~failed'[q], NEW m \in Msgs' PROVE m.tag # Orig(q)'
      <4>1. pc[q] \in Ending /\ ~failed[q] BY <1>1, <1>2, <1>3, <3>4
      <4>2. Orig(q)' = Orig(q) BY <1>2, <2>7, <4>1
      <4> QED BY <2>2, <4>1, <4>2 DEF CleanInv
    <3> QED BY <3>1, <3>2, <3>3, <3>4 DEF CleanInv
  <2> QED BY <2>4, <2>10, <2>11, <2>12 DEF MInv, TagInv, MsgInv
<1> QED BY <1>5, <1>6 DEF ReadStep

\* A new header has a tag that no message uses, while the connection is up.
LEMMA EnqueueTags ==
  ASSUME BaseInv, MInv, NEW p \in Procs, NEW t \in Tags, NEW fl, NEW old, Enqueued(p, fl, old, t),
         \/ pc[p] \in Quiet /\ old = NoTag
         \/ pc[p] = "flushalloc" /\ old = Orig(p),
         UNCHANGED <<failed, down, pending, wire>>
  PROVE  MInv' /\ \A q \in Procs : pc[q] \notin Quiet => Orig(q)' = Orig(q)
<1> TypeOK /\ TagInv /\ OrderInv /\ MsgInv /\ CleanInv /\ WriteInv BY DEF BaseInv, MInv, TagInv
<1>1. /\ rpc[t].req = None
      /\ rpc'[t].req = [tag |-> t, old |-> old, call |-> p]
      /\ rpc'[t].done = FALSE
      /\ \A u \in Tags \ {t} : rpc'[u] = rpc[u]
      /\ r'[p] = t /\ \A q \in Procs \ {p} : r'[q] = r[q]
      /\ pc'[p] = "write" /\ \A q \in Procs \ {p} : pc'[q] = pc[q]
      /\ queue' = <<t>> \o queue
  BY DEF Enqueued, InUse
<1>2. Waiting \cap (Quiet \cup Ending) = {} /\ Ending \cap Quiet = {} /\ Sent \subseteq Waiting
      /\ "write" \in Waiting \ Sent /\ "flushalloc" \in Waiting
  BY DEF Waiting, Sent, Ending, Quiet
<1>3. /\ \A q \in Procs : pc[q] \notin Quiet =>
            /\ r[q] \in Tags /\ rpc[r[q]].req \in Message /\ rpc[r[q]].req.call = q
            /\ Orig(q) \in Tags /\ rpc[Orig(q)].req \in Message /\ rpc[Orig(q)].req.call = q
      /\ \A q \in Procs : failed[q] => down /\ pc[q] \in Ending
  BY CallHeaders
<1>4. \A u \in Tags : rpc[u].req \in Message => u # t BY <1>1, NoMessage
<1>5. Msgs' = Msgs /\ \A m : Live(m)' <=> Live(m) BY DEF Msgs, Elements, Live
<1>6. \A m \in Msgs : m \in Message
  <2>1. wire \in Seq(Message) /\ pending \in Seq(Message) BY DEF TypeOK
  <2> QED BY SMT, <2>1 DEF Msgs, Elements
<1>7. \A m \in Msgs : Live(m) => m.tag # t BY SMT, <1>4, <1>6 DEF MsgInv, MsgOK
<1>8. ~down => \A m \in Msgs : m.tag # t
  <2>1. ~down => \A m \in Msgs : m = VersionMsg \/ Live(m) BY <1>3 DEF MsgInv, MsgOK, Live
  <2> QED BY SMT, <1>7, <2>1 DEF VersionMsg
<1>9. Elements(queue') = Elements(queue) \cup {t}
  <2>1. queue \in Seq(Tags) BY DEF TypeOK
  <2>2. \A j \in DOMAIN queue' : queue'[j] = t \/ \E k \in DOMAIN queue : queue'[j] = queue[k]
    <3> SUFFICES ASSUME NEW j \in DOMAIN queue', j # 1
                 PROVE  j - 1 \in DOMAIN queue /\ queue'[j] = queue[j - 1]
      BY SMT, <1>1, <2>1
    <3> QED BY SMT, <1>1, <2>1
  <2>3. 1 \in DOMAIN queue' /\ queue'[1] = t BY SMT, <1>1, <2>1
  <2>4. \A k \in DOMAIN queue : k + 1 \in DOMAIN queue' /\ queue'[k + 1] = queue[k] BY SMTT(30), <1>1, <2>1
  <2> QED BY SMT, <2>2, <2>3, <2>4 DEF Elements
<1>10. \A q \in Procs : pc[q] \notin Quiet => Orig(q)' = Orig(q)
  <2> SUFFICES ASSUME NEW q \in Procs, pc[q] \notin Quiet PROVE Orig(q)' = Orig(q) BY SMT
  <2>1. CASE q # p
    <3>1. r'[q] = r[q] /\ rpc'[r[q]] = rpc[r[q]] BY <1>1, <1>3, <1>4, <2>1
    <3> QED BY <3>1 DEF Orig
  <2>2. CASE q = p
    <3>1. old = Orig(p) /\ old \in Tags /\ r'[q] = t /\ rpc'[t].req.old = old BY SMTT(30), <1>1, <1>3, <2>2
    <3>2. Orig(q)' = rpc'[t].req.old BY SMT, <3>1 DEF Orig
    <3> QED BY <2>2, <3>1, <3>2
  <2> QED BY <2>1, <2>2
<1>11. \A q \in Procs : pc[q] \notin Quiet => rpc'[Orig(q)] = rpc[Orig(q)] BY <1>1, <1>3, <1>4
<1>12. ASSUME NEW m \in Msgs, Live(m)
       PROVE  MsgOK(m)'
  <2>1. PICK q \in Procs : q = m.call BY <1>12 DEF Live
  <2>2. /\ pc[q] \in Waiting /\ m.tag \in Tags /\ rpc[m.tag].req = m
        /\ IF m.old = NoTag THEN m.tag = Orig(q) ELSE m.old = Orig(q)
        /\ rpc[r[q]].req.old = NoTag => m.tag = r[q]
        /\ pc[q] = "write" => m.tag # r[q]
        /\ ~down \/ pc[q] \in Sent => ~rpc[r[q]].done
    BY <1>12, <2>1 DEF MsgInv, MsgOK
  <2>3. rpc'[m.tag].req = m /\ m.tag # t /\ Orig(q)' = Orig(q)
    BY <1>1, <1>2, <1>7, <1>10, <1>12, <2>2
  <2>4. CASE q # p
    <3>1. r'[q] = r[q] /\ pc'[q] = pc[q] /\ rpc'[r[q]] = rpc[r[q]] BY <1>1, <1>2, <1>3, <1>4, <2>2, <2>4
    <3> QED BY <2>1, <2>2, <2>3, <3>1 DEF MsgOK
  <2>5. CASE q = p
    <3>1. rpc'[t].req.old # NoTag BY SMT, <1>1, <1>2, <1>3, <2>2, <2>5
    <3> QED BY SMTT(30), <1>1, <1>2, <2>1, <2>2, <2>3, <2>5, <3>1 DEF MsgOK
  <2> QED BY <2>4, <2>5
<1>13. MsgInv' BY <1>5, <1>12 DEF MsgInv, MsgOK
<1>14. OrderInv'
  <2>1. \A x, y \in Msgs : Before(x, y) => Before(x, y)' BY <1>1, <1>5, <1>7 DEF Before, Live
  <2> QED BY <2>1, ShrinkMsgs
<1>15. WriteInv'
  <2> SUFFICES ASSUME NEW q \in Procs, pc'[q] = "write", ~down'
               PROVE  ~rpc'[r'[q]].done /\ r'[q] \in Elements(queue')
    BY DEF WriteInv
  <2>1. CASE q = p BY <1>1, <1>9, <2>1
  <2>2. CASE q # p
    <3>1. pc[q] = "write" /\ r'[q] = r[q] /\ rpc'[r[q]] = rpc[r[q]] BY SMTT(30), <1>1, <1>2, <1>3, <1>4, <2>2
    <3> QED BY <1>9, <3>1 DEF WriteInv
  <2> QED BY <2>1, <2>2
<1>16. CleanInv'
  <2>1. \A m \in Msgs', k \in Msgs' : Live(k)' /\ m.tag = k.tag => m = k BY <1>5 DEF CleanInv
  <2>2. \A m \in Msgs' : Live(m)' => m.tag \in Elements(queue') BY <1>5, <1>9 DEF CleanInv
  <2>3. ASSUME NEW q \in Procs, Sure(q)', NEW m \in Msgs', NEW u \in {r'[q], Orig(q)'}, m.tag = u
        PROVE  m = rpc'[u].req
    <3>1. CASE q # p
      <4>1. Sure(q) /\ pc[q] \notin Quiet BY <1>1, <1>2, <2>3, <3>1 DEF Sure
      <4>2. u \in {r[q], Orig(q)} /\ rpc'[u] = rpc[u] BY SMTT(30), <1>1, <1>3, <1>4, <1>10, <2>3, <3>1, <4>1
      <4> QED BY SMT, <1>5, <2>3, <4>1, <4>2 DEF CleanInv
    <3>2. CASE q = p
      <4>1. ~down BY <1>1, <1>2, <2>3, <3>2 DEF Sure
      <4>2. u # t BY <1>5, <1>8, <2>3, <4>1
      <4>3. r'[q] = t /\ Orig(q)' = IF old = NoTag THEN t ELSE old BY SMT, <1>1, <3>2 DEF Orig
      <4>4. pc[p] = "flushalloc" /\ u = Orig(p) BY <1>3, <2>3, <4>2, <4>3
      <4>5. Sure(p) BY <1>2, <4>1, <4>4 DEF Sure
      <4> QED BY SMT, <1>2, <1>5, <1>11, <2>3, <4>4, <4>5 DEF CleanInv
    <3> QED BY <3>1, <3>2
  <2>4. ASSUME NEW q \in Procs, pc'[q] \in Ending, ~failed'[q], NEW m \in Msgs' PROVE m.tag # Orig(q)'
    <3>1. pc[q] \in Ending /\ ~failed[q] /\ Orig(q)' = Orig(q) BY <1>1, <1>2, <1>10, <2>4
    <3> QED BY <1>5, <3>1 DEF CleanInv
  <2> QED BY <2>1, <2>2, <2>3, <2>4 DEF CleanInv
<1> QED BY <1>10, <1>13, <1>14, <1>15, <1>16 DEF MInv, TagInv

\* mntflushfree: only headers of the call that ends change.
LEMMA EndTags ==
  ASSUME BaseInv, MInv, NEW p \in Procs, pc[p] \in Ending, pc'[p] \in Ending,
         \A q \in Procs \ {p} : pc'[q] = pc[q] /\ r'[q] = r[q],
         \A u \in Tags : rpc[u].req \in Message /\ rpc[u].req.call # p => rpc'[u] = rpc[u],
         Elements(queue) \ {r[p]} \subseteq Elements(queue'),
         Orig(p)' = Orig(p), UNCHANGED <<failed, down, pending, wire>>
  PROVE  MInv' /\ \A q \in Procs \ {p} : pc[q] \notin Quiet => Orig(q)' = Orig(q)
<1> TypeOK /\ TagInv /\ OrderInv /\ MsgInv /\ CleanInv /\ WriteInv BY DEF BaseInv, MInv, TagInv
<1>1. Waiting \cap (Quiet \cup Ending) = {} /\ Ending \cap Quiet = {} /\ Sent \subseteq Waiting
      /\ "write" \in Waiting \ Sent
  BY DEF Waiting, Sent, Ending, Quiet
<1>2. /\ \A q \in Procs : pc[q] \notin Quiet =>
            /\ r[q] \in Tags /\ rpc[r[q]].req \in Message /\ rpc[r[q]].req.call = q
            /\ Orig(q) \in Tags /\ rpc[Orig(q)].req \in Message /\ rpc[Orig(q)].req.call = q
  BY CallHeaders
<1>3. Msgs' = Msgs /\ \A m : Live(m)' <=> Live(m) BY DEF Msgs, Elements, Live
<1>4. \A q \in Procs \ {p} : pc[q] \notin Quiet =>
         /\ rpc'[r[q]] = rpc[r[q]] /\ rpc'[Orig(q)] = rpc[Orig(q)] /\ r[q] # r[p]
         /\ r'[q] = r[q] /\ pc'[q] = pc[q]
  BY SMTT(30), <1>1, <1>2
<1>5. \A q \in Procs \ {p} : pc[q] \notin Quiet => Orig(q)' = Orig(q) BY SMT, <1>4 DEF Orig
<1>6. ASSUME NEW m \in Msgs, Live(m)
      PROVE  MsgOK(m)' /\ m.call # p /\ m.tag # r[p]
  <2>1. PICK q \in Procs : q = m.call BY <1>6 DEF Live
  <2>2. /\ pc[q] \in Waiting /\ m.tag \in Tags /\ rpc[m.tag].req = m
        /\ IF m.old = NoTag THEN m.tag = Orig(q) ELSE m.old = Orig(q)
        /\ rpc[r[q]].req.old = NoTag => m.tag = r[q]
        /\ pc[q] = "write" => m.tag # r[q]
        /\ ~down \/ pc[q] \in Sent => ~rpc[r[q]].done
    BY <1>6, <2>1 DEF MsgInv, MsgOK
  <2>3. q # p /\ pc[q] \notin Quiet BY <1>1, <2>2
  <2>4. m \in Message
    <3>1. wire \in Seq(Message) /\ pending \in Seq(Message) BY DEF TypeOK
    <3> QED BY SMT, <3>1 DEF Msgs, Elements
  <2>5. rpc'[m.tag] = rpc[m.tag] /\ m.tag # r[p] BY SMT, <1>1, <1>2, <2>1, <2>2, <2>3, <2>4
  <2>6. r'[q] = r[q] /\ pc'[q] = pc[q] /\ rpc'[r[q]] = rpc[r[q]] /\ Orig(q)' = Orig(q)
    BY <1>4, <1>5, <2>3
  <2> QED BY <2>1, <2>2, <2>3, <2>5, <2>6 DEF MsgOK
<1>7. MsgInv' BY <1>3, <1>6 DEF MsgInv, MsgOK
<1>8. OrderInv'
  <2>1. \A x, y \in Msgs : Before(x, y) => Before(x, y)' BY <1>3, <1>6 DEF Before, Live
  <2> QED BY <2>1, ShrinkMsgs
<1>9. WriteInv'
  <2> SUFFICES ASSUME NEW q \in Procs, pc'[q] = "write", ~down'
               PROVE  ~rpc'[r'[q]].done /\ r'[q] \in Elements(queue')
    BY DEF WriteInv
  <2>1. q # p /\ pc[q] = "write" /\ pc[q] \notin Quiet BY <1>1
  <2>2. rpc'[r[q]] = rpc[r[q]] /\ r[q] # r[p] /\ r'[q] = r[q] BY <1>4, <2>1
  <2> QED BY <2>1, <2>2 DEF WriteInv
<1>10. CleanInv'
  <2>1. \A m \in Msgs', k \in Msgs' : Live(k)' /\ m.tag = k.tag => m = k BY <1>3 DEF CleanInv
  <2>2. \A m \in Msgs' : Live(m)' => m.tag \in Elements(queue') BY <1>3, <1>6 DEF CleanInv
  <2>3. ASSUME NEW q \in Procs, Sure(q)', NEW m \in Msgs', NEW u \in {r'[q], Orig(q)'}, m.tag = u
        PROVE  m = rpc'[u].req
    <3>1. q # p /\ Sure(q) /\ pc[q] \notin Quiet BY <1>1, <2>3 DEF Sure
    <3>2. u \in {r[q], Orig(q)} /\ rpc'[u] = rpc[u] BY SMT, <1>4, <1>5, <2>3, <3>1
    <3> QED BY SMT, <1>3, <2>3, <3>1, <3>2 DEF CleanInv
  <2>4. ASSUME NEW q \in Procs, pc'[q] \in Ending, ~failed'[q], NEW m \in Msgs' PROVE m.tag # Orig(q)'
    <3>1. pc[q] \in Ending /\ ~failed[q] BY <2>4
    <3>2. Orig(q)' = Orig(q) BY <1>1, <1>5, <3>1
    <3> QED BY <1>3, <3>1, <3>2 DEF CleanInv
  <2> QED BY <2>1, <2>2, <2>3, <2>4 DEF CleanInv
<1> QED BY <1>5, <1>7, <1>8, <1>9, <1>10 DEF MInv, TagInv

\* The three steps of mntflushfree.
LEMMA FlushfreeTags ==
  ASSUME BaseInv, MInv, NEW p \in Procs, pc[p] \in Ending, MarkStep(p) \/ UnchainStep(p) \/ LastStep(p)
  PROVE  MInv' /\ \A q \in Procs : pc[q] \notin Quiet => Orig(q)' = Orig(q)
<1> TypeOK /\ HInv BY DEF BaseInv
<1>1. /\ r[p] \in Tags /\ rpc[r[p]].req \in Message /\ rpc[r[p]].req.call = p
  BY CallHeaders DEF Ending, Quiet
<1>2. \A q \in Procs : r[q] \in 0 .. NTags BY DEF TypeOK
<1>3. {"flushfree", "unanswered", "qrm", "return"} \subseteq Ending /\ Ending \cap Quiet = {}
  BY DEF Ending, Quiet
<1>4. ASSUME UnchainStep(p) \/ MarkStep(p) \/ LastStep(p)
      PROVE  /\ pc'[p] \in Ending /\ UNCHANGED <<failed, down, pending, wire>>
             /\ \A q \in Procs \ {p} : pc'[q] = pc[q] /\ r'[q] = r[q]
             /\ \A u \in Tags \ {r[p]} : rpc'[u] = rpc[u]
             /\ Elements(queue) \ {r[p]} \subseteq Elements(queue')
  BY <1>3, <1>4 DEF UnchainStep, MarkStep, LastStep, EndSame, Leaves, Unchained
<1>5. Orig(p)' = Orig(p)
  <2>1. CASE UnchainStep(p)
    <3>1. PICK u \in 0 .. NTags : Unchained(p, u) BY <2>1 DEF UnchainStep
    <3>2. pc[p] \notin Quiet /\ pc'[p] \notin Quiet /\ \A q \in Procs \ {p} : pc'[q] = pc[q]
      BY <1>3, <2>1 DEF UnchainStep
    <3> QED BY <3>1, <3>2, UnchainHInv
  <2>2. CASE MarkStep(p) \/ LastStep(p)
    <3>1. r' = r /\ rpc'[r[p]].req = rpc[r[p]].req BY <2>2 DEF MarkStep, LastStep
    <3> QED BY <3>1 DEF Orig
  <2> QED BY <2>1, <2>2
<1>6. \A u \in Tags : rpc[u].req \in Message /\ rpc[u].req.call # p => rpc'[u] = rpc[u] BY <1>1, <1>4
<1> QED BY <1>4, <1>5, <1>6, EndTags

\* What becomes of a message when the call of p is over.
Orphan(p, m, n) ==
  /\ n.tag = m.tag /\ n.old = m.old
  /\ IF m.call = p THEN n.call = None ELSE n = m

\* The call is over: only with the connection broken is a message left of it.
LEMMA FinishTags ==
  ASSUME BaseInv, MInv, NEW p \in Procs, FinishStep(p)
  PROVE  /\ MInv' /\ \A q \in Procs \ {p} : pc[q] \notin Quiet => Orig(q)' = Orig(q)
         /\ \A n \in Msgs' : \E m \in Msgs : Orphan(p, m, n)
<1> TypeOK /\ TagInv /\ OrderInv /\ MsgInv /\ CleanInv /\ WriteInv BY DEF BaseInv, MInv, TagInv
<1> wire \in Seq(Message) /\ pending \in Seq(Message) BY DEF TypeOK
<1>1. /\ pc[p] = "return" /\ pc'[p] = "idle" /\ \A q \in Procs \ {p} : pc'[q] = pc[q] /\ r'[q] = r[q]
      /\ \A u \in Tags \ {r[p]} : rpc'[u] = rpc[u]
      /\ \A q \in Procs \ {p} : failed'[q] = failed[q]
      /\ UNCHANGED <<queue, down>> /\ pending' = Disown(pending, p) /\ wire' = Disown(wire, p)
  BY DEF FinishStep, Finished
<1>2. Waiting \cap (Quiet \cup Ending) = {} /\ Ending \cap Quiet = {} /\ Sent \subseteq Waiting
      /\ "write" \in Waiting \ Sent /\ "return" \in Ending /\ "idle" \in Quiet
  BY DEF Waiting, Sent, Ending, Quiet
<1>3. /\ \A q \in Procs : pc[q] \notin Quiet =>
            /\ r[q] \in Tags /\ rpc[r[q]].req \in Message /\ rpc[r[q]].req.call = q
            /\ Orig(q) \in Tags /\ rpc[Orig(q)].req \in Message /\ rpc[Orig(q)].req.call = q
      /\ \A q \in Procs : failed[q] => down /\ pc[q] \in Ending
  BY CallHeaders
<1>4. \A q \in Procs \ {p} : pc[q] \notin Quiet =>
         /\ rpc'[r[q]] = rpc[r[q]] /\ rpc'[Orig(q)] = rpc[Orig(q)]
         /\ r'[q] = r[q] /\ pc'[q] = pc[q]
  BY SMT, <1>1, <1>2, <1>3
<1>5. \A q \in Procs \ {p} : pc[q] \notin Quiet => Orig(q)' = Orig(q) BY <1>4 DEF Orig
<1>6. /\ DOMAIN wire' = DOMAIN wire /\ DOMAIN pending' = DOMAIN pending
      /\ \A i \in DOMAIN wire : wire[i] \in Msgs /\ Orphan(p, wire[i], wire'[i])
      /\ \A i \in DOMAIN pending : pending[i] \in Msgs /\ Orphan(p, pending[i], pending'[i])
  <2>1. /\ DOMAIN Disown(wire, p) = DOMAIN wire
        /\ \A i \in DOMAIN wire :
             /\ wire[i].call # p => Disown(wire, p)[i] = wire[i]
             /\ wire[i].call = p => /\ Disown(wire, p)[i].call = None
                                    /\ Disown(wire, p)[i].tag = wire[i].tag
                                    /\ Disown(wire, p)[i].old = wire[i].old
    BY SMT, DisownType
  <2>2. /\ DOMAIN Disown(pending, p) = DOMAIN pending
        /\ \A i \in DOMAIN pending :
             /\ pending[i].call # p => Disown(pending, p)[i] = pending[i]
             /\ pending[i].call = p => /\ Disown(pending, p)[i].call = None
                                       /\ Disown(pending, p)[i].tag = pending[i].tag
                                       /\ Disown(pending, p)[i].old = pending[i].old
    BY SMT, DisownType
  <2> QED BY <1>1, <2>1, <2>2 DEF Orphan, Msgs, Elements
<1>7. \A n \in Msgs' : \E m \in Msgs : Orphan(p, m, n) BY <1>6 DEF Msgs, Elements
<1>8. ASSUME NEW m \in Msgs, NEW n, Orphan(p, m, n), Live(n)'
      PROVE  n = m /\ m.call # p /\ Live(m)
  <2>1. n.call \in Procs BY <1>8 DEF Live
  <2>2. n = m /\ m.call # p BY <1>8, <2>1 DEF Orphan
  <2> QED BY <1>1, <1>8, <2>1, <2>2 DEF Live
<1>9. ASSUME NEW x \in Msgs, NEW y \in Msgs, NEW v, NEW w, Orphan(p, x, v), Orphan(p, y, w), Before(x, y)
      PROVE  Before(v, w)'
  <2> SUFFICES ASSUME Live(v)', v.call = w.call
               PROVE  v.tag # r'[v.call] /\ v.tag # w.tag /\ w.old # NoTag
    BY DEF Before
  <2>1. v = x /\ x.call # p /\ Live(x) /\ x.call \in Procs BY <1>8, <1>9 DEF Live
  <2>2. w = y BY <1>9, <2>1 DEF Orphan
  <2> QED BY <1>1, <1>9, <2>1, <2>2 DEF Before
<1>10. OrderInv'
  <2>1. ASSUME NEW i \in DOMAIN wire', NEW j \in DOMAIN wire', i < j
        PROVE  Before(wire[i], wire[j])'
    <3>1. PICK v, w : v = wire'[i] /\ w = wire'[j] BY SMT
    <3>2. Before(wire[i], wire[j]) BY <1>6, <2>1 DEF OrderInv
    <3>3. Before(v, w)' BY <1>6, <1>9, <3>1, <3>2
    <3> QED BY <3>1, <3>3 DEF Before, Live
  <2>2. ASSUME NEW i \in DOMAIN pending', NEW j \in DOMAIN pending', i < j
        PROVE  Before(pending[i], pending[j])'
    <3>1. PICK v, w : v = pending'[i] /\ w = pending'[j] BY SMT
    <3>2. Before(pending[i], pending[j]) BY <1>6, <2>2 DEF OrderInv
    <3>3. Before(v, w)' BY <1>6, <1>9, <3>1, <3>2
    <3> QED BY <3>1, <3>3 DEF Before, Live
  <2>3. ASSUME NEW i \in DOMAIN wire', NEW j \in DOMAIN pending'
        PROVE  Before(wire[i], pending[j])'
    <3>1. PICK v, w : v = wire'[i] /\ w = pending'[j] BY SMT
    <3>2. Before(wire[i], pending[j]) BY <1>6 DEF OrderInv
    <3>3. Before(v, w)' BY <1>6, <1>9, <3>1, <3>2
    <3> QED BY <3>1, <3>3 DEF Before, Live
  <2> QED BY <2>1, <2>2, <2>3 DEF OrderInv
<1>11. ASSUME NEW n \in Msgs' PROVE MsgOK(n)'
  <2>1. PICK m \in Msgs : Orphan(p, m, n) /\ MsgOK(m) BY <1>7 DEF MsgInv
  <2>2. CASE ~Live(n)'
    <3>1. m.call # p => n = VersionMsg \/ n.call \in Procs \/ down BY <2>1 DEF Orphan, MsgOK
    <3>2. m.call = p => down
      <4>1. m.call = p => ~Live(m) BY <1>1, <1>2, <2>1 DEF MsgOK
      <4> QED BY <1>3, <4>1 DEF Live
    <3> QED BY <1>1, <2>2, <3>1, <3>2 DEF MsgOK
  <2>3. CASE Live(n)'
    <3>1. n = m /\ m.call # p /\ Live(m) BY <1>8, <2>1, <2>3
    <3>2. PICK q \in Procs : q = m.call BY <3>1 DEF Live
    <3>3. /\ pc[q] \in Waiting /\ m.tag \in Tags /\ rpc[m.tag].req = m
          /\ IF m.old = NoTag THEN m.tag = Orig(q) ELSE m.old = Orig(q)
          /\ rpc[r[q]].req.old = NoTag => m.tag = r[q]
          /\ pc[q] = "write" => m.tag # r[q]
          /\ ~down \/ pc[q] \in Sent => ~rpc[r[q]].done
      BY <2>1, <3>1, <3>2 DEF MsgOK
    <3>4. m.tag # r[p] BY SMT, <1>1, <1>2, <1>3, <3>1, <3>3
    <3>5. r'[q] = r[q] /\ pc'[q] = pc[q] /\ rpc'[r[q]] = rpc[r[q]] /\ Orig(q)' = Orig(q)
          /\ rpc'[m.tag] = rpc[m.tag]
      BY <1>1, <1>2, <1>4, <1>5, <3>1, <3>2, <3>3, <3>4
    <3> QED BY <1>1, <3>1, <3>2, <3>3, <3>5 DEF MsgOK
  <2> QED BY <2>2, <2>3
<1>12. WriteInv'
  <2> SUFFICES ASSUME NEW q \in Procs, pc'[q] = "write", ~down'
               PROVE  ~rpc'[r'[q]].done /\ r'[q] \in Elements(queue')
    BY DEF WriteInv
  <2>1. q # p /\ pc[q] = "write" /\ pc[q] \notin Quiet BY <1>1, <1>2
  <2>2. rpc'[r[q]] = rpc[r[q]] /\ r'[q] = r[q] BY <1>4, <2>1
  <2> QED BY <1>1, <2>1, <2>2 DEF WriteInv
<1>13. CleanInv'
  <2>1. ASSUME NEW m \in Msgs', NEW k \in Msgs', Live(k)', m.tag = k.tag PROVE m = k
    <3>1. PICK x \in Msgs : Orphan(p, x, k) BY <1>7
    <3>2. k = x /\ x.call # p /\ Live(x) BY <1>8, <2>1, <3>1
    <3>3. PICK y \in Msgs : Orphan(p, y, m) BY <1>7
    <3>4. y = x BY <2>1, <3>2, <3>3 DEF CleanInv, Orphan
    <3> QED BY <3>2, <3>3, <3>4 DEF Orphan
  <2>2. ASSUME NEW m \in Msgs', Live(m)' PROVE m.tag \in Elements(queue')
    <3>1. PICK x \in Msgs : Orphan(p, x, m) BY <1>7
    <3>2. m = x /\ Live(x) BY <1>8, <2>2, <3>1
    <3> QED BY <1>1, <3>2 DEF CleanInv
  <2>3. ASSUME NEW q \in Procs, Sure(q)', NEW m \in Msgs', NEW u \in {r'[q], Orig(q)'}, m.tag = u
        PROVE  m = rpc'[u].req
    <3>1. q # p /\ Sure(q) /\ pc[q] \notin Quiet BY <1>1, <1>2, <2>3 DEF Sure
    <3>2. u \in {r[q], Orig(q)} /\ rpc'[u] = rpc[u] /\ rpc[u].req.call = q BY SMT, <1>3, <1>4, <1>5, <2>3, <3>1
    <3>3. PICK x \in Msgs : Orphan(p, x, m) BY <1>7
    <3>4. x = rpc[u].req BY <2>3, <3>1, <3>2, <3>3 DEF CleanInv, Orphan
    <3> QED BY <3>1, <3>2, <3>3, <3>4 DEF Orphan
  <2>4. ASSUME NEW q \in Procs, pc'[q] \in Ending, ~failed'[q], NEW m \in Msgs' PROVE m.tag # Orig(q)'
    <3>1. q # p /\ pc[q] \in Ending /\ ~failed[q] BY <1>1, <1>2, <2>4
    <3>2. Orig(q)' = Orig(q) BY <1>2, <1>5, <3>1
    <3>3. PICK x \in Msgs : Orphan(p, x, m) BY <1>7
    <3> QED BY <3>1, <3>2, <3>3 DEF CleanInv, Orphan
  <2> QED BY <2>1, <2>2, <2>3, <2>4 DEF CleanInv
<1> QED BY <1>5, <1>7, <1>10, <1>11, <1>12, <1>13 DEF MInv, TagInv, MsgInv

-----------------------------------------------------------------------------
(* Every step keeps the messages in order.                                 *)

\* There are no messages at the start.
LEMMA InitTags == Init => MInv
<1> SUFFICES ASSUME Init PROVE MInv BY SMT
<1>1. wire = <<>> /\ pending = <<>> BY DEF Init, Server!StyxInit
<1>2. Msgs = {} BY SMT, <1>1 DEF Msgs, Elements
<1>3. \A p \in Procs : pc[p] \in Quiet BY DEF Init, Quiet
<1>4. OrderInv BY SMT, <1>1 DEF OrderInv
<1>5. TagInv BY <1>2, <1>3 DEF TagInv, MsgInv, CleanInv, WriteInv, Quiet
<1> QED BY <1>4, <1>5 DEF MInv

\* Every step keeps messages and headers in agreement.
LEMMA NextTags ==
  ASSUME Inv, MInv, [Next]_vars
  PROVE  MInv'
<1> BaseInv /\ TypeOK /\ HInv BY DEF Inv, BaseInv
<1>1. /\ Inv'
      /\ \/ \E p \in Procs : ProcStep(p)
         \/ \E i \in DOMAIN pending : ServeStep(i)
         \/ HangupStep
         \/ UNCHANGED vars
  BY NextSteps
<1>2. BaseInv' BY <1>1 DEF Inv
<1>3. ASSUME NEW p \in Procs, ProcStep(p) PROVE MInv'
  <2>1. ASSUME NEW fl \in 0 .. NTags, NEW old \in 0 .. NTags, Enqueue(p, fl, old),
               \/ pc[p] \in Quiet /\ old = NoTag
               \/ pc[p] = "flushalloc" /\ old = Orig(p),
               UNCHANGED <<failed, down, pending, wire>>
        PROVE  MInv'
    <3>1. PICK t \in Tags : Enqueued(p, fl, old, t) BY <2>1, EnqueueFacts
    <3> QED BY <2>1, <3>1, EnqueueTags
  <2>2. CASE CallStep(p) BY SMT, <2>1, <2>2 DEF CallStep
  <2>3. CASE FlushStep(p) BY <2>1, <2>3 DEF FlushStep
  <2>4. CASE MarkStep(p) \/ UnchainStep(p) \/ LastStep(p)
    <3>1. pc[p] \in Ending BY <2>4 DEF MarkStep, UnchainStep, LastStep, Leaves, Ending
    <3> QED BY <2>4, <3>1, FlushfreeTags
  <2>5. CASE QuietStep(p) BY <2>5, QuietTags
  <2>6. CASE WaitStep(p) BY <1>2, <2>6, WaitTags
  <2>7. CASE ReadStep(p) BY <2>7, ReadTags
  <2>8. CASE FinishStep(p) BY <2>8, FinishTags
  <2> QED BY <1>3, <2>2, <2>3, <2>4, <2>5, <2>6, <2>7, <2>8 DEF ProcStep
<1>4. ASSUME NEW i \in DOMAIN pending, ServeStep(i) PROVE MInv' BY <1>4, ServeTags
<1>5. CASE HangupStep BY <1>5, HangupTags
<1>6. CASE UNCHANGED vars
  <2>1. UNCHANGED <<pc, r, rpc, queue, failed, down, pending, wire>> BY <1>6 DEF vars, mvars, srv
  <2>2. SameCalls BY <2>1 DEF SameCalls, Sure
  <2> QED BY <2>1, <2>2, ShrinkTags
<1> QED BY <1>1, <1>3, <1>4, <1>5, <1>6

\* The messages and the headers agree in every reachable state.
THEOREM MessagesAgree == Spec => [](Inv /\ MInv)
<1>1. Init => Inv /\ MInv BY InitBase, InitTags
<1>2. Inv /\ MInv /\ [Next]_vars => Inv' /\ MInv' BY NextSteps, NextTags
<1> QED BY <1>1, <1>2, PTL DEF Spec

\* flush(5) kept by devmnt.c: while the connection is up, no message carries
\* the tag of a free header, whatever is interrupted, answered late or flushed
\* twice.
THEOREM TagsAreSafe == Spec => []TagsSafe
<1>1. Inv /\ MInv => TagsSafe
  <2> SUFFICES ASSUME Inv, MInv, ~down, NEW m \in Elements(pending) \cup Elements(wire), m # VersionMsg
               PROVE  /\ InUse(m.tag) /\ rpc[m.tag].req = m
                      /\ Server!IsFlush(m) => InUse(m.old)
    BY DEF TagsSafe
  <2> BaseInv /\ MsgInv /\ TypeOK BY DEF Inv, MInv, TagInv, BaseInv
  <2>1. MsgOK(m) BY DEF MsgInv, Msgs
  <2>2. PICK q \in Procs : q = m.call BY <2>1 DEF MsgOK
  <2>3. Live(m) BY <2>2, CallHeaders DEF Live
  <2>5. rpc[m.tag].req = m /\ pc[q] \notin Quiet BY <2>1, <2>2, <2>3 DEF MsgOK, Waiting, Quiet
  <2>6. m \in Message
    <3>1. wire \in Seq(Message) /\ pending \in Seq(Message) BY DEF TypeOK
    <3> QED BY SMT, <3>1 DEF Elements
  <2>7. rpc[Orig(q)].req \in Message BY <2>5, CallHeaders
  <2>8. Server!IsFlush(m) <=> m.old # NoTag BY DEF Server!IsFlush, Server!NoTag
  <2> QED BY <2>1, <2>2, <2>3, <2>5, <2>6, <2>7, <2>8, NoMessage DEF InUse, MsgOK
<1> QED BY <1>1, MessagesAgree, PTL

-----------------------------------------------------------------------------
(* What becomes of the calls.                                              *)

\* A step that matters nothing to the call of q.
Undisturbed(q) ==
  LET o == Orig(q)
  IN  /\ fate'[q] = fate[q] /\ r'[q] = r[q] /\ Orig(q)' = o
      /\ rpc'[o].done = rpc[o].done /\ rpc'[o].reply = rpc[o].reply /\ rpc'[o].req = rpc[o].req
      /\ rpc'[r[q]].done = rpc[r[q]].done
      /\ \/ pc'[q] = pc[q] /\ failed'[q] = failed[q]
         \/ pc[q] \in Waiting /\ pc'[q] \in Waiting /\ (pc'[q] = "write" => pc[q] = "write")
      /\ Sure(q)' => Sure(q)
      /\ \A m \in Elements(wire') : m.call = q => m \in Elements(wire)
      /\ rpc[o].req \in Elements(wire) => rpc[o].req \in Elements(wire')
      /\ rpc[o].req \in Msgs' => rpc[o].req \in Msgs

\* Such a step leaves what is known of the call true.
LEMMA FateKeep ==
  ASSUME NEW q \in Procs, FateOK(q), Undisturbed(q)
  PROVE  FateOK(q)'
<1>1. PICK o : o = Orig(q) BY SMT
<1>2. /\ fate'[q] = fate[q] /\ r'[q] = r[q] /\ Orig(q)' = o
      /\ rpc'[o].done = rpc[o].done /\ rpc'[o].reply = rpc[o].reply /\ rpc'[o].req = rpc[o].req
      /\ rpc'[r[q]].done = rpc[r[q]].done
  BY <1>1 DEF Undisturbed
<1>3. SureOK(q) => SureOK(q)' BY <1>1, <1>2 DEF SureOK, Undisturbed, Answered
<1>4. Waiting \cap (Quiet \cup Ending) = {} /\ "return" \in Ending BY DEF Waiting, Quiet, Ending
<1>5. CASE pc'[q] = pc[q] /\ failed'[q] = failed[q]
  <2>1. EndOK(q) => EndOK(q)' BY <1>1, <1>2, <1>5 DEF EndOK, Answered
  <2> QED BY <1>1, <1>2, <1>3, <1>5, <2>1 DEF FateOK, Undisturbed
<1>6. CASE pc[q] \in Waiting /\ pc'[q] \in Waiting /\ (pc'[q] = "write" => pc[q] = "write")
  BY <1>1, <1>2, <1>3, <1>4, <1>6 DEF FateOK, Undisturbed
<1> QED BY <1>5, <1>6 DEF Undisturbed

\* A process that makes no call.
LEMMA FateQuiet ==
  ASSUME NEW q \in Procs, pc'[q] \in Quiet, fate'[q] = "idle"
  PROVE  FateOK(q)'
BY DEF FateOK, Sure, Quiet, Waiting, Sent, Ending

\* Steps of q, and of others, that leave the headers alone.
LEMMA FateSame ==
  ASSUME NEW q \in Procs, FateOK(q), UNCHANGED <<r, rpc>>, fate'[q] = fate[q],
         \/ pc'[q] = pc[q] /\ failed'[q] = failed[q]
         \/ pc[q] \in Waiting /\ pc'[q] \in Waiting /\ (pc'[q] = "write" => pc[q] = "write"),
         Sure(q)' => Sure(q),
         \A m \in Elements(wire') : m.call = q => m \in Elements(wire),
         rpc[Orig(q)].req \in Elements(wire) => rpc[Orig(q)].req \in Elements(wire'),
         rpc[Orig(q)].req \in Msgs' => rpc[Orig(q)].req \in Msgs
  PROVE  FateOK(q)'
<1>1. Orig(q)' = Orig(q) BY DEF Orig
<1>2. Undisturbed(q) BY <1>1 DEF Undisturbed
<1> QED BY <1>2, FateKeep

\* mntversion concerns no call.
LEMMA QuietFate ==
  ASSUME BaseInv, FateInv, NEW p \in Procs, QuietStep(p)
  PROVE  FateInv'
<1> ReadInv /\ TypeOK BY DEF BaseInv
<1>1. /\ UNCHANGED <<r, rpc, queue, failed, fate, down>>
      /\ pc[p] \in Quiet /\ pc'[p] \in Quiet /\ \A q \in Procs \ {p} : pc'[q] = pc[q]
  BY DEF QuietStep
<1>2. ASSUME NEW q \in Procs, pc'[q] \in Quiet PROVE FateOK(q)'
  <2>1. pc[q] \in Quiet BY <1>1, <1>2
  <2>2. fate'[q] = "idle" BY <1>1, <2>1 DEF FateInv, FateOK
  <2> QED BY <1>2, <2>2, FateQuiet
<1>3. ASSUME NEW q \in Procs, pc'[q] \notin Quiet PROVE FateOK(q)'
  <2>1. q # p /\ pc'[q] = pc[q] /\ pc[q] \notin Quiet BY <1>1, <1>3
  <2>2. mux /\ umq # p BY SMT, <2>1 DEF ReadInv
  <2>3. pc[p] # "vread" BY <2>2 DEF ReadInv
  <2>4. wire' = wire /\ (pending' = pending \/ pending' = Append(pending, VersionMsg))
    BY <2>3 DEF QuietStep, Server!Receive
  <2>5. rpc[Orig(q)].req # VersionMsg BY SMT, <2>1, CallHeaders DEF VersionMsg
  <2>6. \A m \in Msgs' : m \in Msgs \/ m = VersionMsg
    <3>1. pending \in Seq(Message) BY DEF TypeOK
    <3>2. \A i \in DOMAIN pending' : pending'[i] \in Elements(pending) \cup {VersionMsg}
      BY SMT, <2>4, <3>1 DEF Elements
    <3> QED BY <2>4, <3>2 DEF Msgs, Elements
  <2>7. Sure(q)' => Sure(q) BY <1>1, <2>1 DEF Sure
  <2>8. Elements(wire') = Elements(wire) BY <2>4
  <2>9. FateOK(q) BY DEF FateInv
  <2> QED BY <1>1, <2>1, <2>5, <2>6, <2>7, <2>8, <2>9, FateSame
<1> QED BY <1>2, <1>3 DEF FateInv

\* A call ends its wait, without an error, only when its fate is known.
LEMMA WaitFate ==
  ASSUME BaseInv, MInv, FateInv, NEW p \in Procs, WaitStep(p)
  PROVE  FateInv'
<1> TypeOK /\ MsgInv BY DEF BaseInv, MInv, TagInv
<1>1. /\ pc[p] \in Waiting /\ pc'[p] \in Waiting \cup {"flushfree"}
      /\ \A q \in Procs \ {p} : pc'[q] = pc[q] \/ (pc[q] = "blocked" /\ pc'[q] = "woken")
      /\ \A q \in Procs \ {p} : failed'[q] = failed[q]
      /\ UNCHANGED <<r, rpc, queue, fate, down>>
      /\ pc'[p] = "flushfree" =>
           failed'[p] \/ (rpc[r[p]].done /\ pc[p] \in Sent /\ UNCHANGED <<pending, wire>>)
      /\ pc'[p] = "write" => pc[p] = "write" /\ UNCHANGED <<pending, wire>>
      /\ pc'[p] \in Sent => pc[p] \in Sent \/ (pc[p] = "write" /\ ~down)
      /\ \/ UNCHANGED <<pending, wire>>
         \/ pc[p] = "write" /\ Server!Receive(rpc[r[p]].req)
  BY DEF WaitStep
<1>2. Waiting \cap (Ending \cup Quiet) = {} /\ "flushfree" \in Ending \ {"return"} /\ Sent \subseteq Waiting
      /\ {"blocked", "woken"} \subseteq Sent /\ "write" \in Waiting \ Sent /\ Ending \cap Quiet = {}
  BY DEF Quiet, Waiting, Ending, Sent
<1>3. /\ \A q \in Procs : pc[q] \notin Quiet =>
           /\ rpc[r[q]].req.tag = r[q] /\ rpc[r[q]].req.call = q
           /\ rpc[Orig(q)].req.tag = Orig(q) /\ rpc[Orig(q)].req.call = q
      /\ \A q \in Procs : failed[q] => pc[q] \in Ending
  BY CallHeaders
<1>4. wire' = wire /\ \A m \in Msgs' : m \in Msgs \/ (m = rpc[r[p]].req /\ pc[p] = "write")
  <2>1. pending \in Seq(Message) BY DEF TypeOK
  <2>2. wire' = wire /\ (pending' = pending \/ (pending' = Append(pending, rpc[r[p]].req) /\ pc[p] = "write"))
    BY <1>1 DEF Server!Receive
  <2>3. \A i \in DOMAIN pending' : pending'[i] \in Elements(pending)
                                   \/ (pending'[i] = rpc[r[p]].req /\ pc[p] = "write")
    BY SMT, <2>1, <2>2 DEF Elements
  <2> QED BY <2>2, <2>3 DEF Msgs, Elements
<1>5. \A q \in Procs : FateOK(q) BY DEF FateInv
<1>6. ASSUME NEW q \in Procs \ {p} PROVE FateOK(q)'
  <2>1. CASE pc'[q] \in Quiet
    <3>1. fate'[q] = "idle" BY <1>1, <1>2, <1>5, <2>1 DEF FateOK
    <3> QED BY <2>1, <3>1, FateQuiet
  <2>2. CASE pc'[q] \notin Quiet
    <3>1. pc[q] \notin Quiet BY <1>1, <1>2, <2>2
    <3>2. rpc[Orig(q)].req \in Msgs' => rpc[Orig(q)].req \in Msgs BY SMTT(30), <1>1, <1>2, <1>3, <1>4, <3>1
    <3>3. Sure(q)' => Sure(q) BY <1>1, <1>2 DEF Sure
    <3> QED BY <1>1, <1>2, <1>4, <1>5, <3>2, <3>3, FateSame
  <2> QED BY <2>1, <2>2
<1>7. ASSUME pc'[p] \in Waiting PROVE FateOK(p)'
  <2>1. Sure(p)' => Sure(p) BY <1>1, <1>2, <1>7 DEF Sure
  <2>2. ASSUME rpc[Orig(p)].req \in Msgs', rpc[Orig(p)].req \notin Msgs
        PROVE  fate[p] = "open"
    <3>1. rpc[Orig(p)].req = rpc[r[p]].req /\ pc[p] = "write" BY <1>4, <2>2
    <3>2. r[p] = Orig(p) BY SMT, <1>1, <1>2, <1>3, <3>1
    <3> QED BY <1>5, <3>1, <3>2 DEF FateOK
  <2>3. Orig(p)' = Orig(p) BY <1>1 DEF Orig
  <2>4. SureOK(p) => SureOK(p)'
    BY <1>1, <1>4, <2>2, <2>3 DEF SureOK, Answered
  <2>5. pc[p] \notin Quiet \cup Ending /\ "return" \in Ending /\ pc'[p] \notin Quiet \cup Ending
    BY <1>1, <1>2, <1>7 DEF Ending
  <2>6. fate'[p] \in {"open", "answered", "cancelled"} /\ (pc'[p] = "write" /\ r'[p] = Orig(p)' => fate'[p] = "open")
    BY <1>1, <1>5, <2>3, <2>5 DEF FateOK
  <2>7. Sure(p)' => SureOK(p)' BY <1>5, <2>1, <2>4 DEF FateOK
  <2> QED BY <2>5, <2>6, <2>7 DEF FateOK
<1>8. ASSUME pc'[p] = "flushfree" PROVE FateOK(p)'
  <2>1. pc[p] \notin Quiet /\ ~failed[p] /\ pc[p] # "return" BY <1>1, <1>2, <1>3 DEF Ending
  <2>2. fate'[p] \in {"open", "answered", "cancelled"} BY <1>1, <1>5, <2>1 DEF FateOK
  <2>3. ASSUME ~failed'[p] PROVE EndOK(p)'
    <3>1. rpc[r[p]].done /\ pc[p] \in Sent BY <1>1, <1>8, <2>3
    <3>2. SureOK(p) BY <1>5, <3>1 DEF FateOK, Sure
    <3>3. fate[p] # "open" BY <3>1, <3>2 DEF SureOK
    <3>4. rpc[Orig(p)].req \notin Elements(wire)
      <4> SUFFICES ASSUME rpc[Orig(p)].req \in Elements(wire) PROVE FALSE BY SMT
      <4>1. PICK m \in Msgs : m = rpc[Orig(p)].req BY DEF Msgs
      <4>2. m.call = p BY <1>3, <2>1, <4>1
      <4>3. MsgOK(m) /\ Live(m) BY <2>1, <4>2 DEF MsgInv, Live
      <4> QED BY <3>1, <4>2, <4>3 DEF MsgOK
    <3>5. Orig(p)' = Orig(p) /\ pc'[p] \notin {"unanswered", "qrm"} BY <1>1, <1>8 DEF Orig
    <3> QED BY <1>1, <2>2, <3>2, <3>3, <3>4, <3>5 DEF SureOK, EndOK, Answered
  <2>4. ~Sure(p)' /\ pc'[p] \notin Quiet /\ pc'[p] # "return" /\ pc'[p] # "write"
    BY <1>2, <1>8 DEF Sure
  <2>5. ~failed'[p] => EndOK(p)' BY <2>3
  <2> QED BY <2>2, <2>4, <2>5 DEF FateOK
<1> QED BY <1>1, <1>6, <1>7, <1>8 DEF FateInv

\* Messages that are lost settle nothing.
LEMMA HangupFate ==
  ASSUME BaseInv, FateInv, HangupStep
  PROVE  FateInv'
<1>1. UNCHANGED <<pc, r, rpc, queue, failed, fate, wire>> /\ pending' = <<>> /\ down' /\ ~down
  BY DEF HangupStep
<1>2. Msgs' \subseteq Msgs BY SMT, <1>1 DEF Msgs, Elements
<1>3. ASSUME NEW q \in Procs PROVE FateOK(q)'
  <2>1. FateOK(q) BY DEF FateInv
  <2>2. Sure(q)' => Sure(q) BY <1>1 DEF Sure
  <2> QED BY <1>1, <1>2, <2>1, <2>2, FateSame
<1> QED BY <1>3 DEF FateInv

\* A request, or a Tflush, is queued: the call is open, or as it was.
LEMMA EnqueueFate ==
  ASSUME BaseInv, MInv, FateInv, NEW p \in Procs, NEW t \in Tags, NEW fl, NEW old, Enqueued(p, fl, old, t),
         \/ pc[p] \in Quiet /\ old = NoTag /\ fate'[p] = "open"
         \/ pc[p] = "flushalloc" /\ old = Orig(p) /\ fate'[p] = fate[p],
         \A q \in Procs \ {p} : fate'[q] = fate[q],
         UNCHANGED <<failed, down, pending, wire>>
  PROVE  FateInv'
<1> TypeOK /\ MsgInv BY DEF BaseInv, MInv, TagInv
<1>1. /\ rpc[t].req = None
      /\ rpc'[t].req = [tag |-> t, old |-> old, call |-> p]
      /\ rpc'[t].done = FALSE
      /\ \A u \in Tags \ {t} : rpc'[u] = rpc[u]
      /\ r'[p] = t /\ \A q \in Procs \ {p} : r'[q] = r[q]
      /\ pc'[p] = "write" /\ \A q \in Procs \ {p} : pc'[q] = pc[q]
  BY DEF Enqueued, InUse
<1>2. Waiting \cap (Quiet \cup Ending) = {} /\ Ending \cap Quiet = {} /\ "return" \in Ending
      /\ "write" \in Waiting \ Sent /\ "flushalloc" \in Waiting
  BY DEF Waiting, Sent, Ending, Quiet
<1>3. /\ \A q \in Procs : pc[q] \notin Quiet =>
           /\ r[q] \in Tags /\ rpc[r[q]].req \in Message
           /\ Orig(q) \in Tags /\ rpc[Orig(q)].req \in Message
      /\ \A q \in Procs : failed[q] => pc[q] \in Ending
  BY CallHeaders
<1>4. \A q \in Procs : pc[q] \notin Quiet =>
        /\ r[q] # t /\ Orig(q) # t
        /\ rpc'[r[q]] = rpc[r[q]] /\ rpc'[Orig(q)] = rpc[Orig(q)]
  BY <1>1, <1>3, NoMessage
<1>5. \A q \in Procs : pc[q] \notin Quiet => Orig(q)' = Orig(q)
  BY EnqueueTags
<1>6. Msgs' = Msgs /\ Elements(wire') = Elements(wire) BY DEF Msgs
<1>7. \A q \in Procs : FateOK(q) BY DEF FateInv
<1>8. ASSUME NEW q \in Procs \ {p} PROVE FateOK(q)'
  <2>1. CASE pc[q] \in Quiet
    <3>1. pc'[q] \in Quiet /\ fate'[q] = "idle" BY <1>1, <1>7, <2>1 DEF FateOK
    <3> QED BY <3>1, FateQuiet
  <2>2. CASE pc[q] \notin Quiet
    <3>1. Sure(q)' => Sure(q) BY <1>1 DEF Sure
    <3>2. Undisturbed(q) BY <1>1, <1>4, <1>5, <1>6, <2>2, <3>1 DEF Undisturbed
    <3> QED BY <1>7, <3>2, FateKeep
  <2> QED BY <2>1, <2>2
<1>9. Sure(p)' => ~down BY <1>1, <1>2 DEF Sure
<1>10. CASE pc[p] \in Quiet /\ old = NoTag /\ fate'[p] = "open"
  <2>1. Orig(p)' = t
    <3>1. PICK m : m = [tag |-> t, old |-> old, call |-> p] OBVIOUS
    <3>2. m.old = NoTag BY SMT, <1>10, <3>1
    <3>3. rpc'[r'[p]].req = m /\ r'[p] = t BY <1>1, <3>1
    <3>4. rpc'[r'[p]].req.old = NoTag BY <3>2, <3>3
    <3> QED BY <3>3, <3>4 DEF Orig
  <2>2. \A m \in Elements(wire) : m.call # p
    <3> SUFFICES ASSUME NEW m \in Elements(wire), m.call = p PROVE FALSE BY SMT
    <3>1. MsgOK(m) /\ Live(m) BY <1>2, <1>3, <1>10 DEF MsgInv, Msgs, Live
    <3> QED BY <1>2, <1>10, <3>1 DEF MsgOK
  <2>3. SureOK(p)' BY <1>1, <1>10, <2>1, <2>2 DEF SureOK
  <2>4. FateOK(p)' BY <1>1, <1>2, <1>10, <2>3 DEF FateOK
  <2> QED BY <1>8, <2>4 DEF FateInv
<1>11. CASE pc[p] = "flushalloc" /\ old = Orig(p) /\ fate'[p] = fate[p]
  <2>1. pc[p] \notin Quiet \cup Ending BY <1>2, <1>11
  <2>2. Orig(p)' = Orig(p) /\ Orig(p) # t /\ rpc'[Orig(p)] = rpc[Orig(p)] BY <1>4, <1>5, <2>1
  <2>3. fate'[p] \in {"open", "answered", "cancelled"} BY <1>2, <1>7, <1>11, <2>1 DEF FateOK
  <2>4. ASSUME Sure(p)' PROVE SureOK(p)'
    <3>1. SureOK(p) BY <1>2, <1>7, <1>9, <1>11, <2>4 DEF FateOK, Sure
    <3> QED BY <1>1, <1>6, <1>11, <2>2, <3>1 DEF SureOK, Answered
  <2>5. Sure(p)' => SureOK(p)' BY <2>4
  <2>6. FateOK(p)' BY <1>1, <1>2, <2>2, <2>3, <2>5 DEF FateOK
  <2> QED BY <1>8, <2>6 DEF FateInv
<1> QED BY <1>10, <1>11

\* A reply read for a header is the one its call waits for; one that is
\* dropped is nobody's.
LEMMA ReadFate ==
  ASSUME BaseInv, MInv, FateInv, NEW p \in Procs, ReadStep(p)
  PROVE  FateInv'
<1> TypeOK /\ TagInv /\ OrderInv /\ MsgInv /\ CleanInv BY DEF BaseInv, MInv, TagInv
<1>1. /\ pc[p] = "read" /\ pc'[p] \in {"read", "wake"} /\ \A q \in Procs \ {p} : pc'[q] = pc[q]
      /\ wire # <<>> /\ wire' = Tail(wire) /\ pending' = pending
      /\ UNCHANGED <<r, failed, fate, down>>
  BY DEF ReadStep
<1>2. {"read", "wake"} \subseteq Sent /\ Sent \subseteq Waiting /\ Waiting \cap (Ending \cup Quiet) = {}
      /\ "write" \notin Sent /\ "return" \in Ending /\ Ending \cap Quiet = {}
  BY DEF Sent, Waiting, Ending, Quiet
<1>3. /\ \A q \in Procs : pc[q] \notin Quiet =>
           /\ r[q] \in Tags /\ Orig(q) \in Tags
           /\ rpc[r[q]].req.tag = r[q] /\ rpc[r[q]].req.call = q
           /\ rpc[Orig(q)].req.tag = Orig(q) /\ rpc[Orig(q)].req.call = q
      /\ \A q \in Procs : failed[q] => pc[q] \in Ending
  BY CallHeaders
<1>4. PICK h : h = Head(wire) BY SMT
<1>5. /\ h \in Elements(wire) /\ h \in Msgs
      /\ Elements(wire') \subseteq Elements(wire) /\ Elements(wire) \subseteq Elements(wire') \cup {h}
      /\ Msgs' \subseteq Msgs
  <2>1. wire \in Seq(Message) BY DEF TypeOK
  <2>2. 1 \in DOMAIN wire /\ h = wire[1] BY SMT, <1>1, <1>4, <2>1
  <2>3. \A i \in DOMAIN wire' : i + 1 \in DOMAIN wire /\ wire'[i] = wire[i + 1] BY SMT, <1>1, <2>1
  <2>4. \A i \in DOMAIN wire : i = 1 \/ (i - 1 \in DOMAIN wire' /\ wire'[i - 1] = wire[i]) BY SMT, <1>1, <2>1
  <2>5. Elements(wire') \subseteq Elements(wire) BY <2>3 DEF Elements
  <2>6. Elements(wire) \subseteq Elements(wire') \cup {h} BY SMT, <2>2, <2>4 DEF Elements
  <2> QED BY <1>1, <2>2, <2>5, <2>6 DEF Msgs, Elements
<1>6. \A q \in Procs : FateOK(q) BY DEF FateInv
<1>7. \A q \in Procs : /\ pc'[q] = pc[q] \/ (pc[q] \in Waiting /\ pc'[q] \in Waiting /\ pc'[q] # "write")
                       /\ Sure(q)' => Sure(q)
                       /\ pc'[q] \in Quiet <=> pc[q] \in Quiet
  BY <1>1, <1>2 DEF Sure
<1>8. CASE h.tag \notin Elements(queue) /\ UNCHANGED <<queue, rpc>>
  <2>1. ASSUME NEW q \in Procs, pc[q] \notin Quiet, ~failed[q] PROVE h.call # q
    <3> SUFFICES ASSUME h.call = q PROVE FALSE BY SMT
    <3>1. Live(h) BY <2>1 DEF Live
    <3> QED BY <1>5, <1>8, <3>1 DEF CleanInv
  <2>2. ASSUME NEW q \in Procs PROVE FateOK(q)'
    <3>1. CASE pc[q] \in Quiet
      <4>1. fate'[q] = "idle" /\ pc'[q] \in Quiet BY <1>1, <1>6, <1>7, <3>1 DEF FateOK
      <4> QED BY <4>1, FateQuiet
    <3>2. CASE pc[q] \notin Quiet /\ ~failed[q]
      <4>1. rpc[Orig(q)].req # h BY SMT, <1>3, <2>1, <3>2
      <4> QED BY <1>1, <1>5, <1>6, <1>7, <1>8, <4>1, FateSame
    <3>3. CASE pc[q] \notin Quiet /\ failed[q]
      <4>1. pc[q] \in Ending /\ q # p /\ pc'[q] = pc[q] /\ failed'[q]
        BY SMT, <1>1, <1>2, <1>3, <3>3
      <4>2. ~Sure(q)' /\ pc[q] # "write" BY <1>2, <4>1 DEF Sure, Ending
      <4> QED BY <1>1, <1>6, <3>3, <4>1, <4>2 DEF FateOK
    <3> QED BY <3>1, <3>2, <3>3
  <2> QED BY <2>2 DEF FateInv
<1>9. ASSUME NEW t \in Tags, t = h.tag, t \in Elements(queue),
             rpc'[t].req = rpc[t].req, rpc'[t].done = TRUE, rpc'[t].reply = h,
             \A u \in Tags \ {t} : rpc'[u] = rpc[u]
      PROVE  FateInv'
  <2>1. \A u \in Tags : rpc'[u].req = rpc[u].req BY <1>9
  <2>2. \A q \in Procs : pc[q] \notin Quiet => Orig(q)' = Orig(q)
    <3>1. \A q \in Procs : pc[q] \notin Quiet => rpc'[r[q]].req = rpc[r[q]].req BY <1>3, <2>1
    <3> QED BY <1>1, <3>1 DEF Orig
  <2>3. ASSUME NEW q \in Procs, Sure(q) PROVE SureOK(q)'
    <3>1. SureOK(q) /\ pc[q] \notin Quiet /\ ~failed[q] BY SMTT(30), <1>2, <1>3, <1>6, <2>3 DEF FateOK, Sure
    <3>2. PICK o \in Tags : o = Orig(q) BY <1>3, <3>1
    <3>3. Orig(q)' = o /\ r'[q] = r[q] /\ fate'[q] = fate[q] BY <1>1, <2>2, <3>1, <3>2
    <3>4. r[q] \in Tags /\ rpc[r[q]].req.call = q /\ rpc[o].req.call = q /\ rpc[o].req.tag = o
      BY <1>3, <3>1, <3>2
    <3>5. t \in {r[q], o} => h = rpc[t].req BY <1>5, <1>9, <2>3, <3>2 DEF CleanInv
    <3>6. rpc'[o].req = rpc[o].req BY <2>1
    <3>7. fate[q] = "open" => /\ ~rpc'[o].done /\ ~rpc'[r[q]].done
                              /\ \A m \in Elements(wire') : m.call # q
      <4> SUFFICES ASSUME fate[q] = "open" PROVE t \notin {r[q], o} /\ \A m \in Elements(wire') : m.call # q
        BY <1>9, <3>1, <3>2, <3>4 DEF SureOK
      <4>1. \A m \in Elements(wire) : m.call # q BY <3>1 DEF SureOK
      <4> QED BY <1>5, <3>4, <3>5, <4>1
    <3>8. fate[q] = "answered" => rpc[o].req \in Elements(wire') \/ (rpc'[o].done /\ rpc'[o].reply = rpc[o].req)
      <4> SUFFICES ASSUME fate[q] = "answered" PROVE rpc[o].req \in Elements(wire') \/ (rpc'[o].done /\ rpc'[o].reply = rpc[o].req)
        BY SMT
      <4>1. rpc[o].req \in Elements(wire) \/ (rpc[o].done /\ rpc[o].reply = rpc[o].req) BY <3>1, <3>2 DEF SureOK, Answered
      <4>2. CASE t = o BY <1>9, <3>5, <4>2
      <4>3. CASE t # o
        <5>1. rpc'[o] = rpc[o] BY <1>9, <4>3
        <5>2. rpc[o].req # h BY <1>9, <3>4, <4>3
        <5> QED BY <1>5, <4>1, <5>1, <5>2
      <4> QED BY <4>2, <4>3
    <3>9. fate[q] = "cancelled" => ~rpc'[o].done /\ rpc[o].req \notin Msgs'
      <4> SUFFICES ASSUME fate[q] = "cancelled" PROVE ~rpc'[o].done /\ rpc[o].req \notin Msgs' BY SMT
      <4>1. ~rpc[o].done /\ rpc[o].req \notin Msgs BY <3>1, <3>2 DEF SureOK
      <4>2. t # o BY <1>5, <3>5, <4>1
      <4> QED BY <1>5, <1>9, <4>1, <4>2
    <3> QED BY <3>3, <3>6, <3>7, <3>8, <3>9 DEF SureOK, Answered
  <2>4. ASSUME NEW q \in Procs, pc[q] \in Ending \ {"return"}, ~failed[q] PROVE EndOK(q)'
    <3>1. EndOK(q) BY <1>6, <2>4 DEF FateOK
    <3>2. pc[q] \notin Quiet /\ q # p /\ pc'[q] = pc[q] BY <1>1, <1>2, <2>4
    <3>3. PICK o \in Tags : o = Orig(q) BY <1>3, <3>2
    <3>4. Orig(q)' = o BY <2>2, <3>2, <3>3
    <3>5. t # o BY <1>5, <1>9, <2>4, <3>3 DEF CleanInv
    <3>6. rpc'[o] = rpc[o] BY <1>9, <3>5
    <3> QED BY <1>1, <3>1, <3>2, <3>3, <3>4, <3>6 DEF EndOK, Answered
  <2>5. ASSUME NEW q \in Procs PROVE FateOK(q)'
    <3>1. CASE pc[q] \in Quiet
      <4>1. fate'[q] = "idle" /\ pc'[q] \in Quiet BY <1>1, <1>6, <1>7, <3>1 DEF FateOK
      <4> QED BY <4>1, FateQuiet
    <3>2. CASE pc[q] \notin Quiet
      <4>1. Orig(q)' = Orig(q) /\ FateOK(q) BY <1>6, <2>2, <3>2
      <4>2. Sure(q)' => SureOK(q)' BY <1>7, <2>3
      <4>3. pc'[q] \in Ending \ {"return"} /\ ~failed'[q] => EndOK(q)' BY <1>1, <1>2, <1>7, <2>4
      <4>4. pc'[q] = "write" /\ r'[q] = Orig(q)' => fate'[q] = "open"
        BY <1>1, <1>7, <4>1 DEF FateOK
      <4>5. pc'[q] \notin Quiet /\ (pc'[q] = "return" <=> pc[q] = "return") /\ fate'[q] = fate[q]
        BY <1>1, <1>2, <1>7, <3>2
      <4> QED BY <3>2, <4>1, <4>2, <4>3, <4>4, <4>5 DEF FateOK
    <3> QED BY <3>1, <3>2
  <2> QED BY <2>5 DEF FateInv
<1> QED BY <1>4, <1>8, <1>9 DEF ReadStep

\* What mountrpc returns agrees with the fate of the call.
LEMMA LastOutcome ==
  ASSUME BaseInv, FateInv, NEW p \in Procs, LastStep(p)
  PROVE  \/ fate[p] = "answered" /\ Outcome(p, rpc'[r[p]]) = "ok"
         \/ fate[p] = "cancelled" /\ Outcome(p, rpc'[r[p]]) = "interrupted"
         \/ /\ down /\ fate[p] \in {"open", "answered", "cancelled"}
            /\ Outcome(p, rpc'[r[p]]) = "failed"
<1> HeaderInv BY DEF BaseInv, HInv
<1>1. /\ rpc[r[p]].flushed = NoTag
      /\ rpc'[r[p]].reply = rpc[r[p]].reply /\ rpc'[r[p]].req = rpc[r[p]].req
      /\ (pc[p] = "flushfree" /\ rpc[r[p]].done) \/ pc[p] = "qrm"
  BY DEF LastStep, Leaves
<1>2. pc[p] \in Ending \ {"return"} /\ pc[p] \notin Quiet BY <1>1 DEF Ending, Quiet
<1>3. /\ r[p] \in Tags /\ rpc[r[p]].req \in Message /\ rpc[r[p]].req.tag = r[p]
      /\ failed[p] \in BOOLEAN /\ (failed[p] => down)
  BY <1>2, CallHeaders
<1>4. rpc[r[p]].req.old = NoTag BY <1>1, <1>3, NoMessage DEF HeaderInv, InUse
<1>5. Orig(p) = r[p] BY <1>4 DEF Orig
<1>6. FateOK(p) BY DEF FateInv
<1>7. fate[p] \in {"open", "answered", "cancelled"} BY <1>2, <1>6 DEF FateOK
<1>8. CASE failed[p] BY <1>3, <1>7, <1>8 DEF Outcome
<1>9. CASE ~failed[p]
  <2>1. EndOK(p) BY <1>2, <1>6, <1>9 DEF FateOK
  <2>2. CASE fate[p] = "answered" /\ Answered(r[p])
    <3>1. rpc[r[p]].reply = rpc[r[p]].req BY <2>2 DEF Answered
    <3>2. rpc[r[p]].req # Rflush BY SMT, <1>3 DEF Rflush
    <3> QED BY <1>1, <1>9, <2>2, <3>1, <3>2 DEF Outcome
  <2>3. CASE fate[p] = "cancelled" /\ ~rpc[r[p]].done /\ (pc[p] = "qrm" => rpc[r[p]].reply = Rflush)
    BY <1>1, <1>9, <2>3 DEF Outcome
  <2> QED BY <1>5, <2>1, <2>2, <2>3 DEF EndOK
<1> QED BY <1>3, <1>8, <1>9

\* The steps of mntflushfree leave what is known of the request itself alone.
LEMMA FlushfreeFate ==
  ASSUME BaseInv, MInv, FateInv, fate \in [Procs -> Fates], NEW p \in Procs, pc[p] \in Ending,
         MarkStep(p) \/ UnchainStep(p) \/ LastStep(p)
  PROVE  FateInv'
<1> TypeOK /\ HInv BY DEF BaseInv
<1>1. Ending \cap (Quiet \cup Waiting) = {} /\ {"flushfree", "unanswered", "qrm", "return"} \subseteq Ending
      /\ Sent \subseteq Waiting /\ "write" \notin Ending
  BY DEF Ending, Quiet, Waiting, Sent
<1>2. /\ pc'[p] \in Ending /\ UNCHANGED <<failed, down, pending, wire>>
      /\ \A q \in Procs \ {p} : pc'[q] = pc[q] /\ r'[q] = r[q] /\ fate'[q] = fate[q]
      /\ \A u \in Tags \ {r[p]} : rpc'[u] = rpc[u]
  BY <1>1 DEF UnchainStep, MarkStep, LastStep, EndSame, Leaves, Unchained
<1>3. \A q \in Procs : pc[q] \notin Quiet => Orig(q)' = Orig(q) BY FlushfreeTags
<1>4. \A q \in Procs : pc[q] \notin Quiet =>
        /\ r[q] \in Tags /\ rpc[r[q]].req.call = q
        /\ Orig(q) \in Tags /\ rpc[Orig(q)].req.call = q
  BY CallHeaders
<1>5. Msgs' = Msgs /\ Elements(wire') = Elements(wire) BY <1>2 DEF Msgs
<1>6. \A q \in Procs : FateOK(q) BY DEF FateInv
<1>7. pc[p] \notin Quiet BY <1>1
<1>8. ASSUME NEW q \in Procs \ {p} PROVE FateOK(q)'
  <2>1. CASE pc[q] \in Quiet
    <3>1. pc'[q] \in Quiet /\ fate'[q] = "idle" BY <1>2, <1>6, <2>1 DEF FateOK
    <3> QED BY <3>1, FateQuiet
  <2>2. CASE pc[q] \notin Quiet
    <3>1. Sure(q)' => Sure(q) BY <1>2 DEF Sure
    <3>2. r[q] # r[p] /\ Orig(q) # r[p] BY SMT, <1>4, <1>7, <2>2
    <3>3. rpc'[r[q]] = rpc[r[q]] /\ rpc'[Orig(q)] = rpc[Orig(q)] BY <1>2, <1>4, <2>2, <3>2
    <3>4. Undisturbed(q) BY <1>2, <1>3, <1>5, <2>2, <3>1, <3>3 DEF Undisturbed
    <3> QED BY <1>6, <3>4, FateKeep
  <2> QED BY <2>1, <2>2
<1>9. ~Sure(p)' /\ pc'[p] \notin Quiet /\ pc'[p] # "write" /\ failed'[p] = failed[p]
  BY <1>1, <1>2 DEF Sure
<1>10. PICK o \in Tags : o = Orig(p) BY <1>4, <1>7
<1>11. Orig(p)' = o BY <1>3, <1>7, <1>10
<1>12. CASE LastStep(p)
  <2>1. pc'[p] = "return" /\ fate' = [fate EXCEPT ![p] = Outcome(p, rpc'[r[p]])] BY <1>12 DEF LastStep
  <2>2. fate'[p] \in {"ok", "interrupted", "failed"} BY <1>12, <2>1, LastOutcome
  <2>3. FateOK(p)' BY <1>9, <2>1, <2>2 DEF FateOK
  <2> QED BY <1>8, <2>3 DEF FateInv
<1>13. CASE MarkStep(p) \/ UnchainStep(p)
  <2>1. pc[p] \in Ending \ {"return"} /\ pc'[p] \in Ending \ {"return"} /\ fate' = fate
    BY <1>1, <1>13 DEF MarkStep, UnchainStep, Leaves
  <2>2. fate'[p] \in {"open", "answered", "cancelled"} BY <1>6, <1>7, <2>1 DEF FateOK
  <2>3. ASSUME ~failed[p] PROVE EndOK(p)'
    <3>1. EndOK(p) BY <1>6, <2>1, <2>3 DEF FateOK
    <3>2. CASE MarkStep(p) /\ pc[p] = "flushfree" /\ pc'[p] = "unanswered" /\ ~rpc[r[p]].done /\ rpc' = rpc
      <4>1. r' = r BY <3>2 DEF MarkStep
      <4> QED BY <1>10, <1>11, <2>1, <3>1, <3>2, <4>1 DEF EndOK, Answered
    <3>3. CASE MarkStep(p) /\ pc[p] = "unanswered" /\ pc'[p] = "qrm" /\ rpc'[r[p]].reply = Rflush
               /\ rpc'[r[p]].done = rpc[r[p]].done /\ rpc'[r[p]].req = rpc[r[p]].req
      <4>1. r' = r BY <3>3 DEF MarkStep
      <4>2. CASE r[p] = o BY <1>10, <1>11, <2>1, <3>1, <3>3, <4>1, <4>2 DEF EndOK, Answered
      <4>3. CASE r[p] # o
        <5>1. rpc'[o] = rpc[o] BY <1>2, <4>3
        <5> QED BY <1>10, <1>11, <2>1, <3>1, <4>1, <4>3, <5>1 DEF EndOK, Answered
      <4> QED BY <4>2, <4>3
    <3>4. CASE UnchainStep(p)
      <4>1. PICK u \in 0 .. NTags : Unchained(p, u) BY <3>4 DEF UnchainStep
      <4>2. pc'[p] = "flushfree" /\ pc'[p] \notin Quiet /\ \A q \in Procs \ {p} : pc'[q] = pc[q]
        BY <1>1, <3>4 DEF UnchainStep
      <4>3. Orig(p) # r[p] BY <1>7, <4>1, <4>2, UnchainHInv
      <4>4. rpc'[o] = rpc[o] BY <1>2, <1>10, <4>3
      <4> QED BY <1>10, <1>11, <2>1, <3>1, <4>2, <4>4 DEF EndOK, Answered
    <3> QED BY <1>13, <3>2, <3>3, <3>4 DEF MarkStep
  <2>4. ~failed'[p] => EndOK(p)' BY <1>9, <2>3
  <2>5. FateOK(p)' BY <1>9, <2>1, <2>2, <2>4 DEF FateOK
  <2> QED BY <1>8, <2>5 DEF FateInv
<1> QED BY <1>12, <1>13

\* The end of one call is nothing to the others.
LEMMA FinishFate ==
  ASSUME BaseInv, MInv, FateInv, fate \in [Procs -> Fates], NEW p \in Procs, FinishStep(p)
  PROVE  FateInv'
<1> TypeOK BY DEF BaseInv
<1>1. /\ pc[p] = "return" /\ pc'[p] = "idle"
      /\ \A q \in Procs \ {p} : pc'[q] = pc[q] /\ r'[q] = r[q] /\ failed'[q] = failed[q] /\ fate'[q] = fate[q]
      /\ \A u \in Tags \ {r[p]} : rpc'[u] = rpc[u]
      /\ fate'[p] = "idle" /\ down' = down
      /\ pending' = Disown(pending, p) /\ wire' = Disown(wire, p)
  BY DEF FinishStep, Finished
<1>2. FateOK(p)' BY <1>1, FateQuiet DEF Quiet
<1>3. pc[p] \notin Quiet BY <1>1 DEF Quiet
<1>4. \A q \in Procs : pc[q] \notin Quiet =>
        /\ r[q] \in Tags /\ rpc[r[q]].req.call = q
        /\ Orig(q) \in Tags /\ rpc[Orig(q)].req.call = q
  BY CallHeaders
<1>5. /\ \A q \in Procs \ {p} : pc[q] \notin Quiet => Orig(q)' = Orig(q)
      /\ \A n \in Msgs' : \E m \in Msgs : Orphan(p, m, n)
  BY FinishTags
<1>6. \A q \in Procs \ {p} : /\ \A n \in Elements(wire') : n.call = q => n \in Elements(wire)
                             /\ \A m \in Elements(wire) : m.call = q => m \in Elements(wire')
  <2>1. wire \in Seq(Message) BY DEF TypeOK
  <2>2. DOMAIN wire' = DOMAIN wire
        /\ \A i \in DOMAIN wire : /\ wire[i].call # p => wire'[i] = wire[i]
                                  /\ wire[i].call = p => wire'[i].call = None
    BY SMT, <1>1, <2>1, DisownType
  <2> QED BY <2>2 DEF Elements
<1>7. ASSUME NEW q \in Procs \ {p} PROVE FateOK(q)'
  <2>1. FateOK(q) BY DEF FateInv
  <2>2. CASE pc[q] \in Quiet
    <3>1. pc'[q] \in Quiet /\ fate'[q] = "idle" BY <1>1, <2>1, <2>2 DEF FateOK
    <3> QED BY <3>1, FateQuiet
  <2>3. CASE pc[q] \notin Quiet
    <3>1. Sure(q)' => Sure(q) BY <1>1 DEF Sure
    <3>2. r[q] # r[p] /\ Orig(q) # r[p] BY SMT, <1>3, <1>4, <2>3
    <3>3. rpc'[r[q]] = rpc[r[q]] /\ rpc'[Orig(q)] = rpc[Orig(q)] BY <1>1, <1>4, <2>3, <3>2
    <3>4. rpc[Orig(q)].req.call = q BY <1>4, <2>3
    <3>5. rpc[Orig(q)].req \in Msgs' => rpc[Orig(q)].req \in Msgs
      <4> SUFFICES ASSUME NEW n \in Msgs', n.call = q PROVE n \in Msgs BY <3>4
      <4>1. PICK m \in Msgs : Orphan(p, m, n) BY <1>5
      <4> QED BY <4>1 DEF Orphan
    <3>6. Undisturbed(q) BY <1>1, <1>5, <1>6, <2>3, <3>1, <3>3, <3>4, <3>5 DEF Undisturbed
    <3> QED BY <2>1, <3>6, FateKeep
  <2> QED BY <2>2, <2>3
<1> QED BY <1>2, <1>7 DEF FateInv

\* An answer settles the fate of its call: the answer to the request itself is
\* on its way, or after that to a Tflush there will be none.
LEMMA ServeFate ==
  ASSUME BaseInv, MInv, FateInv, NEW i \in DOMAIN pending, ServeStep(i)
  PROVE  FateInv'
<1> TypeOK /\ OrderInv /\ MsgInv BY DEF BaseInv, MInv, TagInv
<1> wire \in Seq(Message) /\ pending \in Seq(Message) BY DEF TypeOK
<1>1. UNCHANGED <<pc, r, rpc, queue, failed, down>> /\ wire' = Append(wire, pending[i]) BY DEF ServeStep
<1>2. PICK K \in SUBSET (DOMAIN pending \ {i}) :
        /\ Selected(pending', pending, K)
        /\ pending[i].old # NoTag => \A j \in K : j < i => /\ pending[j].old # pending[i].old
                                                           /\ pending[j].tag # pending[i].old
  BY DEF ServeStep
<1>g. PICK g \in [DOMAIN pending' -> K] :
        Orders(g, K) /\ \A j \in DOMAIN pending' : pending'[j] = pending[g[j]]
  BY <1>2 DEF Selected
<1>3. \A j \in DOMAIN pending' : g[j] \in K /\ pending'[j] = pending[g[j]] BY <1>g
<1>4. PICK m \in Message : m = pending[i] BY SMT
<1>5. /\ m \in Msgs /\ Msgs' \subseteq Msgs
      /\ Elements(wire') = Elements(wire) \cup {m}
  <2>1. \A j \in DOMAIN wire' : wire'[j] \in Elements(wire) \cup {m} BY SMT, <1>1, <1>4 DEF Elements
  <2>2. Len(wire) + 1 \in DOMAIN wire' /\ wire'[Len(wire) + 1] = m
        /\ \A j \in DOMAIN wire : j \in DOMAIN wire' /\ wire'[j] = wire[j]
    BY SMT, <1>1, <1>4
  <2>3. Elements(wire') \subseteq Elements(wire) \cup {m} BY <2>1 DEF Elements
  <2>4. m \in Elements(wire') /\ Elements(wire) \subseteq Elements(wire') BY <2>2 DEF Elements
  <2>5. Elements(wire') = Elements(wire) \cup {m} BY <2>3, <2>4
  <2> QED BY <1>4, <2>5, ServeTags DEF Msgs, Elements
<1>6. \A q \in Procs : fate'[q] = IF m.call = q /\ fate[q] = "open"
                                  THEN IF m.old # NoTag THEN "cancelled" ELSE "answered"
                                  ELSE fate[q]
  BY <1>4 DEF ServeStep, Decide, Server!IsFlush, Server!NoTag
<1>7. ASSUME NEW q \in Procs PROVE Orig(q)' = Orig(q) /\ (Sure(q)' <=> Sure(q)) BY <1>1 DEF Orig, Sure
<1>8. ASSUME NEW q \in Procs PROVE FateOK(q)'
  <2>1. FateOK(q) BY DEF FateInv
  <2>2. CASE m.call # q
    <3>1. fate'[q] = fate[q] BY <1>6, <2>2
    <3> QED BY <1>1, <1>5, <1>7, <2>1, <2>2, <3>1, FateSame
  <2>3. CASE m.call = q /\ fate[q] # "open"
    <3>1. fate'[q] = fate[q] BY <1>6, <2>3
    <3>2. SureOK(q) => SureOK(q)' BY <1>1, <1>5, <1>7, <2>3, <3>1 DEF SureOK, Answered
    <3>3. EndOK(q) => EndOK(q)' BY <1>1, <1>7, <3>1 DEF EndOK, Answered
    <3> QED BY <1>1, <1>7, <2>1, <3>1, <3>2, <3>3 DEF FateOK
  <2>4. CASE m.call = q /\ fate[q] = "open"
    <3>1. pc[q] \notin Quiet /\ pc[q] # "return" BY <2>1, <2>4 DEF FateOK
    <3>2. Ending \cap Waiting = {} /\ Sent \subseteq Waiting /\ "write" \in Waiting
      BY DEF Ending, Waiting, Sent
    <3>3. /\ rpc[Orig(q)].req.call = q /\ rpc[Orig(q)].req.tag = Orig(q) /\ rpc[Orig(q)].req.old = NoTag
          /\ failed[q] \in BOOLEAN /\ (failed[q] => pc[q] \in Ending)
      BY <3>1, CallHeaders
    <3>4. CASE failed[q]
      <4>1. ~Sure(q) /\ pc[q] # "write" BY <3>2, <3>3, <3>4 DEF Sure
      <4>2. fate'[q] \in {"open", "answered", "cancelled"} BY <1>6, <2>4
      <4> QED BY <1>1, <1>7, <3>1, <3>4, <4>1, <4>2 DEF FateOK
    <3>5. CASE ~failed[q]
      <4>1. Live(m) /\ MsgOK(m) BY <1>5, <2>4, <3>5 DEF Live, MsgInv
      <4>2. /\ pc[q] \in Waiting /\ rpc[m.tag].req = m
            /\ IF m.old = NoTag THEN m.tag = Orig(q) ELSE m.old = Orig(q)
            /\ rpc[r[q]].req.old = NoTag => m.tag = r[q]
            /\ pc[q] = "write" => m.tag # r[q]
        BY <2>4, <4>1 DEF MsgOK
      <4>3. ~(pc[q] = "write" /\ r[q] = Orig(q)) BY <3>3, <4>2
      <4>4. CASE m.old = NoTag
        <5>1. fate'[q] = "answered" BY <1>6, <2>4, <4>4
        <5>2. rpc[Orig(q)].req \in Elements(wire') BY <1>5, <4>2, <4>4
        <5>3. SureOK(q)' BY <1>1, <1>7, <5>1, <5>2 DEF SureOK
        <5> QED BY <1>1, <1>7, <3>1, <3>2, <4>2, <4>3, <5>1, <5>3 DEF FateOK
      <4>5. CASE m.old # NoTag
        <5>1. fate'[q] = "cancelled" BY <1>6, <2>4, <4>5
        <5>2. ASSUME Sure(q) PROVE ~rpc[Orig(q)].done /\ rpc[Orig(q)].req \notin Msgs'
          <6>1. ~rpc[Orig(q)].done /\ \A n \in Elements(wire) : n.call # q
            BY <2>1, <2>4, <5>2 DEF FateOK, SureOK
          <6>2. rpc[Orig(q)].req \notin Elements(wire') BY <1>5, <3>3, <4>5, <6>1
          <6>3. ASSUME NEW k \in K PROVE pending[k] # rpc[Orig(q)].req
            <7>1. k \in DOMAIN pending /\ k # i /\ k \in Nat /\ i \in Nat BY SMT, <1>2, <6>3
            <7>2. CASE k < i BY <1>2, <1>4, <3>3, <4>2, <4>5, <7>2
            <7>3. CASE i < k
              <8>1. Before(pending[i], pending[k]) BY <7>1, <7>3 DEF OrderInv
              <8> QED BY <1>4, <2>4, <3>3, <4>1, <8>1 DEF Before
            <7> QED BY SMTT(30), <7>1, <7>2, <7>3
          <6>4. \A j \in DOMAIN pending' : pending'[j] # rpc[Orig(q)].req BY <1>3, <6>3
          <6> QED BY <6>1, <6>2, <6>4 DEF Msgs, Elements
        <5>3. Sure(q) => SureOK(q)' BY <1>1, <1>7, <5>1, <5>2 DEF SureOK
        <5> QED BY <1>1, <1>7, <3>1, <3>2, <4>2, <4>3, <5>1, <5>3 DEF FateOK
      <4> QED BY <4>4, <4>5
    <3> QED BY <3>3, <3>4, <3>5
  <2> QED BY <2>2, <2>3, <2>4
<1> QED BY <1>8 DEF FateInv

-----------------------------------------------------------------------------
(* The driver implements Rpc.                                              *)

FInv == Inv /\ MInv /\ FateInv

RpcStep == [Abstract!RpcNext]_(Abstract!rvars)

\* The fate of one call changes.
LEMMA FateMoves ==
  ASSUME fate \in [Procs -> Fates], NEW p \in Procs, NEW f,
         \A q \in Procs : fate'[q] = IF q = p THEN f ELSE fate[q],
         fate' \in [Procs -> Fates]
  PROVE  fate' = [fate EXCEPT ![p] = f]
BY SMT

\* Every step of the driver, the server and the connection is a step of Rpc or
\* does not concern it, and keeps the invariant.
LEMMA NextFate ==
  ASSUME FInv, [Next]_vars
  PROVE  FInv' /\ RpcStep
<1> Inv /\ MInv /\ FateInv /\ BaseInv /\ TypeOK /\ HInv /\ fate \in [Procs -> Fates]
  BY DEF FInv, Inv, BaseInv
<1>1. /\ Inv'
      /\ \/ \E p \in Procs : ProcStep(p)
         \/ \E i \in DOMAIN pending : ServeStep(i)
         \/ HangupStep
         \/ UNCHANGED vars
  BY NextSteps
<1>2. MInv' BY NextTags
<1>3. fate' \in [Procs -> Fates] BY <1>1 DEF Inv
<1>4. \A q \in Procs : FateOK(q) BY DEF FateInv
<1>5. fate' = fate /\ down' = down => RpcStep BY DEF RpcStep, Abstract!rvars
<1>6. ASSUME NEW p \in Procs,
             down' = down,
             \E f \in Fates :
               /\ fate' = [fate EXCEPT ![p] = f]
               /\ \/ fate[p] = "idle" /\ f = "open"
                  \/ fate[p] = "open" /\ f \in {"answered", "cancelled"}
                  \/ fate[p] = "answered" /\ f = "ok"
                  \/ fate[p] = "cancelled" /\ f = "interrupted"
                  \/ down /\ fate[p] \in {"open", "answered", "cancelled"} /\ f = "failed"
                  \/ fate[p] \in {"ok", "interrupted", "failed"} /\ f = "idle"
      PROVE  RpcStep
  <2>1. Abstract!Call(p) \/ Abstract!Decide(p) \/ Abstract!Return(p) \/ Abstract!Finish(p)
    BY <1>6 DEF Abstract!Call, Abstract!Decide, Abstract!Return, Abstract!Finish, Abstract!Move
  <2> QED BY <2>1 DEF RpcStep, Abstract!RpcNext
<1>7. ASSUME NEW p \in Procs, ProcStep(p) PROVE FateInv' /\ RpcStep
  <2>1. ASSUME NEW fl \in 0 .. NTags, NEW old \in 0 .. NTags, Enqueue(p, fl, old),
               \/ pc[p] \in Quiet /\ old = NoTag /\ fate'[p] = "open"
               \/ pc[p] = "flushalloc" /\ old = Orig(p) /\ fate'[p] = fate[p],
               \A q \in Procs \ {p} : fate'[q] = fate[q],
               UNCHANGED <<failed, down, pending, wire>>
        PROVE  FateInv'
    <3>1. PICK t \in Tags : Enqueued(p, fl, old, t) BY <2>1, EnqueueFacts
    <3> QED BY <2>1, <3>1, EnqueueFate
  <2>2. CASE CallStep(p)
    <3>1. /\ pc[p] \in Quiet /\ Enqueue(p, NoTag, NoTag)
          /\ \A q \in Procs : fate'[q] = IF q = p THEN "open" ELSE fate[q]
          /\ UNCHANGED <<failed, down, pending, wire>>
      BY <2>2 DEF CallStep
    <3>2. FateInv' BY SMT, <2>1, <3>1
    <3>3. fate[p] = "idle" BY <1>4, <3>1 DEF FateOK
    <3>4. fate' = [fate EXCEPT ![p] = "open"] BY <1>3, <3>1, FateMoves
    <3>5. "open" \in Fates BY DEF Fates
    <3> QED BY <1>6, <3>1, <3>2, <3>3, <3>4, <3>5
  <2>3. CASE FlushStep(p)
    <3>1. FateInv' BY <2>1, <2>3 DEF FlushStep
    <3> QED BY <1>5, <2>3, <3>1 DEF FlushStep
  <2>4. CASE MarkStep(p) \/ UnchainStep(p) \/ LastStep(p)
    <3>1. pc[p] \in Ending BY <2>4 DEF MarkStep, UnchainStep, LastStep, Leaves, Ending
    <3>2. FateInv' BY <2>4, <3>1, FlushfreeFate
    <3>3. CASE MarkStep(p) \/ UnchainStep(p)
      <4>1. fate' = fate /\ down' = down BY <3>3 DEF MarkStep, UnchainStep, EndSame
      <4> QED BY <1>5, <3>2, <4>1
    <3>4. CASE LastStep(p)
      <4>1. PICK f : f = Outcome(p, rpc'[r[p]]) BY SMT
      <4>2. fate' = [fate EXCEPT ![p] = f] /\ down' = down BY <3>4, <4>1 DEF LastStep, EndSame
      <4>3. \/ fate[p] = "answered" /\ f = "ok"
            \/ fate[p] = "cancelled" /\ f = "interrupted"
            \/ down /\ fate[p] \in {"open", "answered", "cancelled"} /\ f = "failed"
        BY <3>4, <4>1, LastOutcome
      <4>4. f \in Fates BY <4>3 DEF Fates
      <4> QED BY <1>6, <3>2, <4>2, <4>3, <4>4
    <3> QED BY <2>4, <3>3, <3>4
  <2>5. CASE QuietStep(p)
    <3>1. fate' = fate /\ down' = down BY <2>5 DEF QuietStep
    <3> QED BY <1>5, <2>5, <3>1, QuietFate
  <2>6. CASE WaitStep(p)
    <3>1. fate' = fate /\ down' = down BY <2>6 DEF WaitStep
    <3> QED BY <1>5, <2>6, <3>1, WaitFate
  <2>7. CASE ReadStep(p)
    <3>1. fate' = fate /\ down' = down BY <2>7 DEF ReadStep
    <3> QED BY <1>5, <2>7, <3>1, ReadFate
  <2>8. CASE FinishStep(p)
    <3>1. pc[p] = "return" /\ fate' = [fate EXCEPT ![p] = "idle"] /\ down' = down BY <2>8 DEF FinishStep
    <3>2. fate[p] \in {"ok", "interrupted", "failed"} /\ "idle" \in Fates BY <1>4, <3>1 DEF FateOK, Fates
    <3>3. RpcStep BY <1>6, <3>1, <3>2
    <3> QED BY <2>8, <3>3, FinishFate
  <2> QED BY <1>7, <2>2, <2>3, <2>4, <2>5, <2>6, <2>7, <2>8 DEF ProcStep
<1>8. ASSUME NEW i \in DOMAIN pending, ServeStep(i) PROVE FateInv' /\ RpcStep
  <2>1. FateInv' BY <1>8, ServeFate
  <2>2. PICK m : m = pending[i] BY SMT
  <2>3. PICK f \in {"answered", "cancelled"} :
          fate' = [p \in Procs |-> IF m.call = p /\ fate[p] = "open" THEN f ELSE fate[p]]
    BY <1>8, <2>2 DEF ServeStep, Decide
  <2>4. down' = down BY <1>8 DEF ServeStep
  <2>5. CASE \E p \in Procs : m.call = p /\ fate[p] = "open"
    <3>1. PICK p \in Procs : m.call = p /\ fate[p] = "open" BY <2>5
    <3>2. \A q \in Procs : fate'[q] = IF q = p THEN f ELSE fate[q] BY <2>3, <3>1
    <3>3. fate' = [fate EXCEPT ![p] = f] BY <1>3, <3>2, FateMoves
    <3>4. f \in Fates BY DEF Fates
    <3> QED BY <1>6, <2>1, <2>4, <3>1, <3>3, <3>4
  <2>6. CASE ~\E p \in Procs : m.call = p /\ fate[p] = "open"
    <3>1. \A q \in Procs : fate'[q] = fate[q] BY <2>3, <2>6
    <3>2. fate' = fate BY SMT, <1>3, <3>1
    <3> QED BY <1>5, <2>1, <2>4, <3>2
  <2> QED BY <2>5, <2>6
<1>9. CASE HangupStep
  <2>1. ~down /\ down' = TRUE /\ fate' = fate BY <1>9 DEF HangupStep
  <2>2. RpcStep BY <2>1 DEF RpcStep, Abstract!RpcNext, Abstract!Break
  <2> QED BY <1>1, <1>2, <1>9, <2>2, HangupFate DEF FInv
<1>10. CASE UNCHANGED vars
  <2>1. UNCHANGED <<pc, r, rpc, queue, failed, fate, down, pending, wire>> BY <1>10 DEF vars, mvars, srv
  <2>2. \A q \in Procs : Sure(q)' <=> Sure(q) BY <2>1 DEF Sure
  <2>3. Msgs' = Msgs /\ Elements(wire') = Elements(wire) BY <2>1 DEF Msgs
  <2>4. \A q \in Procs : FateOK(q)' BY <1>4, <2>1, <2>2, <2>3, FateSame
  <2> QED BY <1>1, <1>2, <1>5, <2>1, <2>4 DEF FateInv, FInv
<1> QED BY <1>1, <1>2, <1>7, <1>8, <1>9, <1>10 DEF FInv

\* The mount driver implements Rpc: a call returns the server's answer to this
\* very call, is interrupted only if the server never answers it, and fails
\* only if the connection has broken; whatever is answered, interrupted and
\* flushed in whatever order, by any number of processes.
THEOREM DriverIsRpc == Spec => IsRpc
<1>1. Init => FInv
  <2> SUFFICES ASSUME Init PROVE FInv BY SMT
  <2>1. \A p \in Procs : pc[p] \in Quiet /\ fate[p] = "idle" BY DEF Init, Quiet
  <2>2. \A p \in Procs : FateOK(p) BY <2>1 DEF FateOK, Sure, Quiet, Waiting, Sent, Ending
  <2> QED BY <2>2, InitBase, InitTags DEF FInv, FateInv
<1>2. Init => Abstract!RpcInit BY DEF Init, Abstract!RpcInit, Server!StyxInit
<1>3. FInv /\ [Next]_vars => FInv' /\ [Abstract!RpcNext]_(Abstract!rvars)
  BY NextFate DEF RpcStep
<1> QED BY <1>1, <1>2, <1>3, PTL DEF Spec, IsRpc, Abstract!RpcSpec

=============================================================================
