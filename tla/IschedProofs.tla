---------------------------- MODULE IschedProofs ----------------------------
EXTENDS Isched, FiniteSetTheorems, TLAPS

USE ZenonT(30)

(* Taking the first element of a queue, adding one at either end.          *)
LEMMA PopFacts ==
  ASSUME NEW S, NEW q \in Seq(S), q # <<>>
  PROVE  /\ Len(q) \in Nat /\ Len(q) >= 1
         /\ Head(q) = q[1] /\ Head(q) \in S
         /\ Tail(q) \in Seq(S) /\ Len(Tail(q)) = Len(q) - 1
         /\ \A i \in 1..Len(Tail(q)) : Tail(q)[i] = q[i + 1]
BY SMT

(* A thread or Prog added at the end of a queue.                           *)
LEMMA AppendFacts ==
  ASSUME NEW S, NEW q \in Seq(S), NEW x \in S
  PROVE  /\ Append(q, x) \in Seq(S) /\ Len(q) \in Nat /\ Len(Append(q, x)) = Len(q) + 1
         /\ \A i \in 1..Len(q) : Append(q, x)[i] = q[i]
         /\ Append(q, x)[Len(q) + 1] = x
         /\ Append(q, x) # <<>>
         /\ q # <<>> => Head(Append(q, x)) = Head(q)
<1>1. /\ Append(q, x) \in Seq(S) /\ Len(q) \in Nat /\ Len(Append(q, x)) = Len(q) + 1
      /\ \A i \in 1..Len(q) : Append(q, x)[i] = q[i]
      /\ Append(q, x)[Len(q) + 1] = x
  BY SMT
<1>2. Append(q, x) # <<>> BY SMT, <1>1
<1>3. ASSUME q # <<>> PROVE Head(Append(q, x)) = Head(q)
  <2>1. Head(q) = q[1] /\ Len(q) >= 1 BY SMT, <1>3
  <2>2. Head(Append(q, x)) = Append(q, x)[1] BY SMT, <1>1, <1>2
  <2> QED BY SMT, <1>1, <2>1, <2>2
<1> QED BY <1>1, <1>2, <1>3

(* A thread or Prog added at the front of a queue.                         *)
LEMMA PushFacts ==
  ASSUME NEW S, NEW q \in Seq(S), NEW x \in S
  PROVE  /\ <<x>> \o q \in Seq(S) /\ Len(q) \in Nat /\ Len(<<x>> \o q) = Len(q) + 1
         /\ (<<x>> \o q)[1] = x
         /\ \A i \in 2..(Len(q) + 1) : (<<x>> \o q)[i] = q[i - 1]
         /\ <<x>> \o q # <<>> /\ Head(<<x>> \o q) = x
BY SMT

-----------------------------------------------------------------------------
(* The steps of the hand-off protocol, without the data they carry.        *)

-----------------------------------------------------------------------------
(* The run queue and the Progs.                                            *)

(* What the invariant says, opened up once.                                *)
LEMMA Parts ==
  ASSUME IInv
  PROVE  /\ ProtocolInv /\ DataType /\ CarryInv /\ ReleaseTakesOwn
         /\ ProtocolType /\ TokenInv /\ pc \in [Procs -> Labels]
         /\ runq \in Seq(Progs \cup Procs)
BY DEF IInv, ProtocolInv, ProtocolType, DataType

(* Nobody but the owner is inside the machine.                             *)
LEMMA OnlyOwner ==
  ASSUME TokenInv, NEW p \in Procs, HasToken(p)
  PROVE  \A q \in Procs : pc[q] \in InVM => q = p
BY DEF TokenInv, HasToken

-----------------------------------------------------------------------------
(* At disinit the root Prog is queued and the first interpreter starts.    *)
LEMMA InitIInv == Init => IInv
<1> SUFFICES ASSUME Init PROVE IInv BY SMT
<1> USE IschedAssumption DEF Init, Procs
<1>1. ProtocolType
  <2>1. pc \in [Procs -> {"none", "startup"}] BY SMT
  <2>2. pc \in [Procs -> Labels] BY <2>1 DEF Labels, Outside
  <2>3. handoff \in [Procs -> Procs \cup {None}] BY SMT
  <2>4. sem \in [Procs -> Nat] BY SMT
  <2>5. vmq \in Seq(Procs) /\ idlevmq \in Seq(Procs) BY SMT
  <2>6. idle \in BOOLEAN /\ creating \in BOOLEAN BY DEF Init
  <2> QED BY <2>2, <2>3, <2>4, <2>5, <2>6 DEF ProtocolType
<1>2. SemInv /\ VmqInv /\ IdlevmqInv /\ IrendInv BY SMT DEF SemInv, VmqInv, IdlevmqInv, IrendInv
<1>3. HandoffInv BY DEF HandoffInv, Handing
<1>4. TokenInv BY DEF TokenInv, HasToken, InVM, Handing, VMBlocked
<1>5. DataType BY SMT DEF DataType, Types, States, Collecting
<1>6. CarryInv BY DEF CarryInv, KprocLabels
<1>7. ReleaseTakesOwn BY DEF ReleaseTakesOwn
<1> QED BY <1>1, <1>2, <1>3, <1>4, <1>5, <1>6, <1>7 DEF IInv, ProtocolInv

-----------------------------------------------------------------------------
(* The invariant is inductive.                                             *)
LEMMA NextIInv == IInv /\ [Next]_vars => IInv'

(* Where the elements of a queue come from after an addition at its front. *)
<1>PushElements.
     ASSUME NEW S, NEW q \in Seq(S), NEW x \in S, NEW i \in 1..Len(<<x>> \o q)
     PROVE  \/ i = 1 /\ (<<x>> \o q)[i] = x
            \/ \E k \in 1..Len(q) : i = k + 1 /\ (<<x>> \o q)[i] = q[k]
  <2> USE <1>PushElements
  <2>1. Len(q) \in Nat /\ Len(<<x>> \o q) = Len(q) + 1 BY PushFacts
  <2>2. i \in 1..(Len(q) + 1) BY <2>1
  <2>3. CASE i = 1 BY <2>3, PushFacts
  <2>4. CASE i # 1
    <3>1. i - 1 \in 1..Len(q) /\ i = (i - 1) + 1 /\ i \in 2..(Len(q) + 1) BY SMT, <2>1, <2>2, <2>4
    <3>2. (<<x>> \o q)[i] = q[i - 1] BY SMT, <3>1, PushFacts
    <3> QED BY <3>1, <3>2
  <2> QED BY <2>3, <2>4

(* The threads in the two queues are threads.                              *)
<1>Members.
     ASSUME ProtocolType
     PROVE  /\ Len(vmq) \in Nat /\ \A i \in 1..Len(vmq) : vmq[i] \in Procs
            /\ Len(idlevmq) \in Nat /\ \A i \in 1..Len(idlevmq) : idlevmq[i] \in Procs
  <2> USE <1>Members
  <2> QED BY SMT DEF ProtocolType

(* One thread goes somewhere else.                                         *)
<1>Moves.
     ASSUME ProtocolType, NEW p \in Procs, NEW l \in Labels, pc' = [pc EXCEPT ![p] = l]
     PROVE  /\ pc' \in [Procs -> Labels] /\ pc'[p] = l
            /\ \A q \in Procs \ {p} : pc'[q] = pc[q]
  <2> USE <1>Moves
  <2> QED BY DEF ProtocolType

(* The owner goes on inside the machine.                                   *)
<1>Internal.
     ASSUME ProtocolInv, NEW p \in Procs,
            NEW l \in InVM \ {"idleblk"},
            pc[p] \in InVM \ {"idleblk"}, pc' = [pc EXCEPT ![p] = l],
            UNCHANGED <<vmlock, block>>
     PROVE  ProtocolInv'
  <2> USE <1>Internal
  <2>1. /\ ProtocolType /\ SemInv /\ VmqInv /\ IdlevmqInv /\ HandoffInv /\ IrendInv /\ TokenInv
        /\ \A i \in 1..Len(vmq) : vmq[i] \in Procs
        /\ \A i \in 1..Len(idlevmq) : idlevmq[i] \in Procs
    BY <1>Members DEF ProtocolInv
  <2>2. pc' \in [Procs -> Labels] /\ pc'[p] = l /\ \A q \in Procs \ {p} : pc'[q] = pc[q]
    <3>1. l \in Labels BY DEF Labels, InVM, Handing, VMBlocked, Outside
    <3> QED BY <2>1, <3>1, <1>Moves
  <2>3. pc[p] \in InVM /\ pc[p] \notin VMBlocked \cup Handing \cup {"idleblk"}
        /\ l \in InVM /\ l \notin VMBlocked \cup Handing \cup {"idleblk"}
    BY DEF InVM, Handing, VMBlocked
  <2>4. ProtocolType' BY <2>1, <2>2 DEF ProtocolType, vmlock, block
  <2>5. SemInv' BY <2>1, <2>2, <2>3 DEF SemInv, block
  <2>6. VmqInv' BY SMT, <2>1, <2>2, <2>3 DEF VmqInv, VMBlocked, vmlock, block
  <2>7. IdlevmqInv' BY SMT, <2>1, <2>2, <2>3 DEF IdlevmqInv, VMBlocked, Handing, vmlock, block
  <2>8. HandoffInv' BY SMT, <2>1, <2>2, <2>3 DEF HandoffInv, vmlock, block
  <2>9. IrendInv' BY SMT, <2>1, <2>2, <2>3 DEF IrendInv, ProtocolType, block
  <2>10. TokenInv' BY SMT, <2>1, <2>2, <2>3 DEF TokenInv, HasToken, vmlock, block
  <2> QED BY <2>4, <2>5, <2>6, <2>7, <2>8, <2>9, <2>10 DEF ProtocolInv

(* The owner leaves, and nobody wants the machine.                         *)
<1>LeaveIdle.
     ASSUME ProtocolInv, NEW p \in Procs,
            NEW l \in {"released", "relkproc"},
            pc[p] \in InVM \ {"idleblk"}, pc' = [pc EXCEPT ![p] = l],
            idle' = TRUE, creating' \in BOOLEAN, UNCHANGED <<vmq, idlevmq, block>>
     PROVE  ProtocolInv'
  <2> USE <1>LeaveIdle
  <2>1. /\ ProtocolType /\ SemInv /\ VmqInv /\ IdlevmqInv /\ HandoffInv /\ IrendInv /\ TokenInv
        /\ \A i \in 1..Len(vmq) : vmq[i] \in Procs
        /\ \A i \in 1..Len(idlevmq) : idlevmq[i] \in Procs
    BY <1>Members DEF ProtocolInv
  <2>2. pc' \in [Procs -> Labels] /\ pc'[p] = l /\ \A q \in Procs \ {p} : pc'[q] = pc[q]
    <3>1. l \in Labels BY DEF Labels, InVM, Handing, VMBlocked, Outside
    <3> QED BY <2>1, <3>1, <1>Moves
  <2>3. pc[p] \in InVM /\ pc[p] \notin VMBlocked \cup Handing \cup {"idleblk"}
        /\ l \notin InVM \cup VMBlocked \cup Handing
    BY DEF InVM, Handing, VMBlocked
  <2>own. \A q \in Procs : pc[q] \in InVM \cup Handing => q = p
    BY <2>1, <2>3 DEF TokenInv, HasToken
  <2>4. ProtocolType' BY <2>1, <2>2 DEF ProtocolType, vmlock, block
  <2>5. SemInv' BY <2>1, <2>2, <2>3 DEF SemInv, block
  <2>6. VmqInv' BY SMT, <2>1, <2>2, <2>3 DEF VmqInv, VMBlocked, vmlock, block
  <2>7. IdlevmqInv' BY SMT, <2>1, <2>2, <2>3 DEF IdlevmqInv, VMBlocked, Handing, vmlock, block
  <2>8. HandoffInv' BY SMT, <2>1, <2>2, <2>3 DEF HandoffInv, vmlock, block
  <2>9. IrendInv' BY <2>1, <2>2, <2>3 DEF IrendInv, ProtocolType, block
  <2>10. TokenInv' BY SMT, <2>1, <2>2, <2>3, <2>own DEF TokenInv, HasToken, block
  <2> QED BY <2>4, <2>5, <2>6, <2>7, <2>8, <2>9, <2>10 DEF ProtocolInv

(* The owner leaves, and pops the first acquirer.                          *)
<1>LeaveVmq.
     ASSUME ProtocolInv, NEW p \in Procs,
            pc[p] \in InVM \ {"idleblk"}, pc' = [pc EXCEPT ![p] = "relready"],
            vmq # <<>>, handoff' = [handoff EXCEPT ![p] = Head(vmq)], vmq' = Tail(vmq),
            UNCHANGED <<idle, creating, idlevmq, sem, irend>>
     PROVE  ProtocolInv'
  <2> USE <1>LeaveVmq
  <2>1. /\ ProtocolType /\ SemInv /\ VmqInv /\ IdlevmqInv /\ HandoffInv /\ IrendInv /\ TokenInv
        /\ \A i \in 1..Len(vmq) : vmq[i] \in Procs
        /\ \A i \in 1..Len(idlevmq) : idlevmq[i] \in Procs
    BY <1>Members DEF ProtocolInv
  <2>2. pc' \in [Procs -> Labels] /\ pc'[p] = "relready" /\ \A q \in Procs \ {p} : pc'[q] = pc[q]
    <3>1. "relready" \in Labels BY DEF Labels, InVM, Handing, VMBlocked, Outside
    <3> QED BY <2>1, <3>1, <1>Moves
  <2>3. pc[p] \in InVM /\ pc[p] \notin VMBlocked \cup Handing \cup {"idleblk"}
        /\ "relready" \in Handing /\ "relready" \notin InVM \cup VMBlocked
    BY DEF InVM, Handing, VMBlocked
  <2>own. \A q \in Procs : pc[q] \in InVM \cup Handing => q = p
    BY <2>1, <2>3 DEF TokenInv, HasToken
  <2>a. /\ Head(vmq) = vmq[1] /\ Head(vmq) \in Procs /\ 1 \in 1..Len(vmq)
        /\ Tail(vmq) \in Seq(Procs) /\ Len(Tail(vmq)) = Len(vmq) - 1
        /\ \A i \in 1..Len(Tail(vmq)) : Tail(vmq)[i] = vmq[i + 1] /\ i + 1 \in 1..Len(vmq)
    <3>1. vmq \in Seq(Procs) BY <2>1 DEF ProtocolType
    <3>2. /\ Len(vmq) \in Nat /\ Len(vmq) >= 1 /\ Head(vmq) = vmq[1] /\ Head(vmq) \in Procs
          /\ Tail(vmq) \in Seq(Procs) /\ Len(Tail(vmq)) = Len(vmq) - 1
          /\ \A i \in 1..Len(Tail(vmq)) : Tail(vmq)[i] = vmq[i + 1]
      BY <3>1, PopFacts
    <3> QED BY SMT, <3>2
  <2>b. pc[vmq[1]] \in {"acqwake", "acqblock"} /\ sem[vmq[1]] = 0 /\ vmq[1] # p
    BY <2>1, <2>3, <2>a DEF VmqInv, VMBlocked
  <2>4. ProtocolType' BY <2>1, <2>2, <2>a DEF ProtocolType
  <2>5. SemInv' BY <2>1, <2>2, <2>3 DEF SemInv
  <2>6. VmqInv' BY SMT, <2>1, <2>2, <2>3, <2>a DEF VmqInv, VMBlocked
  <2>7. IdlevmqInv' BY SMT, <2>1, <2>2, <2>3 DEF IdlevmqInv, VMBlocked, Handing
  <2>8. HandoffInv' 
    <3>1. \A q \in Procs : pc'[q] \in Handing => q = p BY <2>2, <2>own
    <3>2. \A i \in 1..Len(idlevmq) : idlevmq[i] # vmq[1] BY <2>1, <2>b DEF IdlevmqInv
    <3>3. \A i \in 1..Len(vmq') : vmq'[i] # vmq[1] BY SMT, <2>1, <2>a DEF VmqInv
    <3>4. pc'[vmq[1]] \in VMBlocked BY <2>1, <2>2, <2>a, <2>b DEF VMBlocked
    <3>5. handoff'[p] = vmq[1] BY <2>1, <2>a DEF ProtocolType
    <3> QED BY <2>a, <2>b, <3>1, <3>2, <3>3, <3>4, <3>5 DEF HandoffInv
  <2>9. IrendInv' BY <2>1, <2>2, <2>3 DEF IrendInv, ProtocolType
  <2>10. TokenInv' BY SMTT(30), <2>1, <2>2, <2>3 DEF TokenInv, HasToken
  <2> QED BY <2>4, <2>5, <2>6, <2>7, <2>8, <2>9, <2>10 DEF ProtocolInv

(* The owner leaves, and pops the latest idle interpreter.                 *)
<1>LeavePool.
     ASSUME ProtocolInv, NEW p \in Procs,
            pc[p] \in InVM \ {"idleblk"}, pc' = [pc EXCEPT ![p] = "relready"],
            idlevmq # <<>>, handoff' = [handoff EXCEPT ![p] = Head(idlevmq)], idlevmq' = Tail(idlevmq),
            UNCHANGED <<idle, creating, vmq, sem, irend>>
     PROVE  ProtocolInv'
  <2> USE <1>LeavePool
  <2>1. /\ ProtocolType /\ SemInv /\ VmqInv /\ IdlevmqInv /\ HandoffInv /\ IrendInv /\ TokenInv
        /\ \A i \in 1..Len(vmq) : vmq[i] \in Procs
        /\ \A i \in 1..Len(idlevmq) : idlevmq[i] \in Procs
    BY <1>Members DEF ProtocolInv
  <2>2. pc' \in [Procs -> Labels] /\ pc'[p] = "relready" /\ \A q \in Procs \ {p} : pc'[q] = pc[q]
    <3>1. "relready" \in Labels BY DEF Labels, InVM, Handing, VMBlocked, Outside
    <3> QED BY <2>1, <3>1, <1>Moves
  <2>3. pc[p] \in InVM /\ pc[p] \notin VMBlocked \cup Handing \cup {"idleblk"}
        /\ "relready" \in Handing /\ "relready" \notin InVM \cup VMBlocked
    BY DEF InVM, Handing, VMBlocked
  <2>own. \A q \in Procs : pc[q] \in InVM \cup Handing => q = p
    BY <2>1, <2>3 DEF TokenInv, HasToken
  <2>a. /\ Head(idlevmq) = idlevmq[1] /\ Head(idlevmq) \in Procs /\ 1 \in 1..Len(idlevmq)
        /\ Tail(idlevmq) \in Seq(Procs) /\ Len(Tail(idlevmq)) = Len(idlevmq) - 1
        /\ \A i \in 1..Len(Tail(idlevmq)) : Tail(idlevmq)[i] = idlevmq[i + 1] /\ i + 1 \in 1..Len(idlevmq)
    <3>1. idlevmq \in Seq(Procs) BY <2>1 DEF ProtocolType
    <3>2. /\ Len(idlevmq) \in Nat /\ Len(idlevmq) >= 1 /\ Head(idlevmq) = idlevmq[1] /\ Head(idlevmq) \in Procs
          /\ Tail(idlevmq) \in Seq(Procs) /\ Len(Tail(idlevmq)) = Len(idlevmq) - 1
          /\ \A i \in 1..Len(Tail(idlevmq)) : Tail(idlevmq)[i] = idlevmq[i + 1]
      BY <3>1, PopFacts
    <3> QED BY SMT, <3>2
  <2>b. pc[idlevmq[1]] \in VMBlocked /\ sem[idlevmq[1]] = 0 /\ idlevmq[1] # p
    <3>1. pc[idlevmq[1]] \in {"startblock", "yieldready", "yieldblock"} /\ sem[idlevmq[1]] = 0
      BY <2>1, <2>a DEF IdlevmqInv
    <3>2. pc[idlevmq[1]] \notin Handing BY <2>1, <2>3, <2>a, <2>own
    <3> QED BY <2>3, <3>1, <3>2 DEF VMBlocked, Handing
  <2>4. ProtocolType' BY <2>1, <2>2, <2>a DEF ProtocolType
  <2>5. SemInv' BY <2>1, <2>2, <2>3 DEF SemInv
  <2>6. VmqInv' BY SMT, <2>1, <2>2, <2>3 DEF VmqInv, VMBlocked
  <2>7. IdlevmqInv' BY SMT, <2>1, <2>2, <2>3, <2>a DEF IdlevmqInv, VMBlocked, Handing
  <2>8. HandoffInv' 
    <3>1. \A q \in Procs : pc'[q] \in Handing => q = p BY <2>2, <2>own
    <3>2. \A i \in 1..Len(vmq) : vmq[i] # idlevmq[1]
      <4>1. pc[idlevmq[1]] \notin {"acqwake", "acqblock"} BY <2>1, <2>a DEF IdlevmqInv
      <4> QED BY <2>1, <4>1 DEF VmqInv
    <3>3. \A i \in 1..Len(idlevmq') : idlevmq'[i] # idlevmq[1] BY SMTT(30), <2>1, <2>a DEF IdlevmqInv
    <3>4. pc'[idlevmq[1]] \in VMBlocked BY <2>1, <2>2, <2>a, <2>b
    <3>5. handoff'[p] = idlevmq[1] BY <2>1, <2>a DEF ProtocolType
    <3> QED BY <2>a, <2>b, <3>1, <3>2, <3>3, <3>4, <3>5 DEF HandoffInv
  <2>9. IrendInv' BY <2>1, <2>2, <2>3 DEF IrendInv, ProtocolType
  <2>10. TokenInv' BY SMT, <2>1, <2>2, <2>3 DEF TokenInv, HasToken
  <2> QED BY <2>4, <2>5, <2>6, <2>7, <2>8, <2>9, <2>10 DEF ProtocolInv

(* The popped thread is readied.                                           *)
<1>HandOver.
     ASSUME ProtocolInv, NEW p \in Procs,
            NEW l \in {"released", "yieldblock"},
            pc[p] \in Handing, pc[p] = "yieldready" => l = "yieldblock", pc[p] = "relready" => l = "released",
            pc' = [pc EXCEPT ![p] = l],
            sem' = [sem EXCEPT ![handoff[p]] = @ + 1], handoff' = [handoff EXCEPT ![p] = None],
            UNCHANGED <<vmlock, irend>>
     PROVE  ProtocolInv'
  <2> USE <1>HandOver
  <2>1. /\ ProtocolType /\ SemInv /\ VmqInv /\ IdlevmqInv /\ HandoffInv /\ IrendInv /\ TokenInv
        /\ \A i \in 1..Len(vmq) : vmq[i] \in Procs
        /\ \A i \in 1..Len(idlevmq) : idlevmq[i] \in Procs
    BY <1>Members DEF ProtocolInv
  <2>2. pc' \in [Procs -> Labels] /\ pc'[p] = l /\ \A q \in Procs \ {p} : pc'[q] = pc[q]
    <3>1. l \in Labels BY DEF Labels, InVM, Handing, VMBlocked, Outside
    <3> QED BY <2>1, <3>1, <1>Moves
  <2>3. pc[p] \notin InVM \cup VMBlocked /\ l \notin InVM \cup Handing
    BY DEF InVM, Handing, VMBlocked
  <2>own. \A q \in Procs : pc[q] \in InVM \cup Handing => q = p
    BY <2>1 DEF TokenInv, HasToken
  <2>a. PICK h \in Procs : /\ h = handoff[p] /\ h # p /\ pc[h] \in VMBlocked /\ sem[h] = 0
                           /\ \A i \in 1..Len(vmq) : vmq[i] # h
                           /\ \A i \in 1..Len(idlevmq) : idlevmq[i] # h
    BY <2>1, <2>3 DEF HandoffInv
  <2>b. /\ sem' \in [Procs -> Nat] /\ sem'[h] = 1 /\ \A q \in Procs \ {h} : sem'[q] = sem[q]
        /\ sem[p] = 0
    BY SMT, <2>1, <2>3, <2>a DEF ProtocolType, SemInv, Handing
  <2>4. ProtocolType' BY <2>1, <2>2, <2>b DEF ProtocolType, vmlock
  <2>5. SemInv' BY SMTT(30), <2>1, <2>2, <2>a, <2>b DEF SemInv
  <2>6. VmqInv' BY SMTT(30), <2>1, <2>2, <2>3, <2>a, <2>b DEF VmqInv, VMBlocked, vmlock
  <2>7. IdlevmqInv' BY SMTT(30), <2>1, <2>2, <2>3, <2>a, <2>b DEF IdlevmqInv, Handing, vmlock
  <2>8. HandoffInv' BY <2>2, <2>3, <2>own DEF HandoffInv
  <2>9. IrendInv' BY <2>1, <2>2, <2>3, <2>a, <2>b, <2>own DEF IrendInv, ProtocolType, InVM
  <2>10. TokenInv' 
    <3>1. HasToken(h)' BY SMT, <2>a, <2>b, <2>2 DEF HasToken
    <3>2. \A q \in Procs : HasToken(q)' => q = h
      <4>1. ASSUME NEW q \in Procs, HasToken(q)', q # h PROVE FALSE
        <5>1. q # p BY SMT, <2>2, <2>3, <2>a, <2>b, <4>1 DEF HasToken
        <5>2. HasToken(q) BY <2>2, <2>b, <4>1, <5>1 DEF HasToken
        <5> QED BY <2>1, <5>1, <5>2 DEF TokenInv, HasToken
      <4> QED BY <4>1
    <3>3. ~idle BY <2>1 DEF TokenInv, HasToken
    <3> QED BY <3>1, <3>2, <3>3 DEF TokenInv, vmlock
  <2> QED BY <2>4, <2>5, <2>6, <2>7, <2>8, <2>9, <2>10 DEF ProtocolInv

(* A thread without the machine goes on without it.                        *)
<1>Aside.
     ASSUME ProtocolInv, NEW p \in Procs,
            NEW l \in {"none", "startup", "relkproc", "released"},
            pc[p] \in {"none", "startup", "relkproc", "released"}, pc' = [pc EXCEPT ![p] = l],
            UNCHANGED <<vmlock, block>>
     PROVE  ProtocolInv'
  <2> USE <1>Aside
  <2>1. /\ ProtocolType /\ SemInv /\ VmqInv /\ IdlevmqInv /\ HandoffInv /\ IrendInv /\ TokenInv
        /\ \A i \in 1..Len(vmq) : vmq[i] \in Procs
        /\ \A i \in 1..Len(idlevmq) : idlevmq[i] \in Procs
    BY <1>Members DEF ProtocolInv
  <2>2. pc' \in [Procs -> Labels] /\ pc'[p] = l /\ \A q \in Procs \ {p} : pc'[q] = pc[q]
    <3>1. l \in Labels BY DEF Labels, InVM, Handing, VMBlocked, Outside
    <3> QED BY <2>1, <3>1, <1>Moves
  <2>3. pc[p] \notin InVM \cup VMBlocked \cup Handing /\ l \notin InVM \cup VMBlocked \cup Handing
    BY DEF InVM, Handing, VMBlocked
  <2>4. ProtocolType' BY <2>1, <2>2 DEF ProtocolType, vmlock, block
  <2>5. SemInv' BY <2>1, <2>2, <2>3 DEF SemInv, block
  <2>6. VmqInv' BY SMT, <2>1, <2>2, <2>3 DEF VmqInv, VMBlocked, vmlock, block
  <2>7. IdlevmqInv' BY SMT, <2>1, <2>2, <2>3 DEF IdlevmqInv, VMBlocked, Handing, vmlock, block
  <2>8. HandoffInv' BY SMT, <2>1, <2>2, <2>3 DEF HandoffInv, vmlock, block
  <2>9. IrendInv' BY <2>1, <2>2, <2>3 DEF IrendInv, ProtocolType, block, InVM
  <2>10. TokenInv' BY SMT, <2>1, <2>2, <2>3 DEF TokenInv, HasToken, vmlock, block
  <2> QED BY <2>4, <2>5, <2>6, <2>7, <2>8, <2>9, <2>10 DEF ProtocolInv

(* A thread takes the idle machine.                                        *)
<1>TakeIdle.
     ASSUME ProtocolInv, NEW p \in Procs,
            NEW l \in InVM \ {"idleblk"},
            pc[p] \in {"startup", "released"}, pc' = [pc EXCEPT ![p] = l],
            idle, idle' = FALSE, creating' \in BOOLEAN, UNCHANGED <<vmq, idlevmq, block>>
     PROVE  ProtocolInv'
  <2> USE <1>TakeIdle
  <2>1. /\ ProtocolType /\ SemInv /\ VmqInv /\ IdlevmqInv /\ HandoffInv /\ IrendInv /\ TokenInv
        /\ \A i \in 1..Len(vmq) : vmq[i] \in Procs
        /\ \A i \in 1..Len(idlevmq) : idlevmq[i] \in Procs
    BY <1>Members DEF ProtocolInv
  <2>2. pc' \in [Procs -> Labels] /\ pc'[p] = l /\ \A q \in Procs \ {p} : pc'[q] = pc[q]
    <3>1. l \in Labels BY DEF Labels, InVM, Handing, VMBlocked, Outside
    <3> QED BY <2>1, <3>1, <1>Moves
  <2>3. pc[p] \notin InVM \cup VMBlocked \cup Handing /\ l \in InVM /\ l \notin VMBlocked \cup Handing
    BY DEF InVM, Handing, VMBlocked
  <2>4. ProtocolType' BY <2>1, <2>2 DEF ProtocolType, block
  <2>5. SemInv' BY <2>1, <2>2, <2>3 DEF SemInv, block
  <2>6. VmqInv' BY SMTT(30), <2>1, <2>2, <2>3 DEF VmqInv, VMBlocked, vmlock, block
  <2>7. IdlevmqInv' BY SMTT(30), <2>1, <2>2, <2>3 DEF IdlevmqInv, VMBlocked, Handing, vmlock, block
  <2>8. HandoffInv' BY SMT, <2>1, <2>2, <2>3 DEF HandoffInv, vmlock, block
  <2>9. IrendInv' BY <2>1, <2>2, <2>3 DEF IrendInv, ProtocolType, block, InVM
  <2>10. TokenInv' BY SMT, <2>1, <2>2, <2>3 DEF TokenInv, HasToken, vmlock, block
  <2> QED BY <2>4, <2>5, <2>6, <2>7, <2>8, <2>9, <2>10 DEF ProtocolInv

(* A thread queues for the machine.                                        *)
<1>Queue.
     ASSUME ProtocolInv, NEW p \in Procs,
            NEW l \in {"acqwake", "acqblock"},
            pc[p] = "released", pc' = [pc EXCEPT ![p] = l],
            vmq' = Append(vmq, p), UNCHANGED <<idle, creating, idlevmq, block>>
     PROVE  ProtocolInv'
  <2> USE <1>Queue
  <2>1. /\ ProtocolType /\ SemInv /\ VmqInv /\ IdlevmqInv /\ HandoffInv /\ IrendInv /\ TokenInv
        /\ \A i \in 1..Len(vmq) : vmq[i] \in Procs
        /\ \A i \in 1..Len(idlevmq) : idlevmq[i] \in Procs
    BY <1>Members DEF ProtocolInv
  <2>2. pc' \in [Procs -> Labels] /\ pc'[p] = l /\ \A q \in Procs \ {p} : pc'[q] = pc[q]
    <3>1. l \in Labels BY DEF Labels, InVM, Handing, VMBlocked, Outside
    <3> QED BY <2>1, <3>1, <1>Moves
  <2>3. pc[p] \notin InVM \cup VMBlocked \cup Handing \cup {"idleblk"} /\ l \in VMBlocked /\ l \notin InVM \cup Handing
    BY DEF InVM, Handing, VMBlocked
  <2>a. /\ vmq' \in Seq(Procs) /\ Len(vmq) \in Nat /\ Len(vmq') = Len(vmq) + 1
        /\ \A i \in 1..Len(vmq) : vmq'[i] = vmq[i]
        /\ vmq'[Len(vmq) + 1] = p
    <3>1. vmq \in Seq(Procs) BY <2>1 DEF ProtocolType
    <3> QED BY SMT, <3>1, AppendFacts
  <2>b. sem[p] = 0 BY <2>1, <2>3 DEF SemInv
  <2>c. \A i \in 1..Len(vmq) : vmq[i] # p BY <2>1, <2>3 DEF VmqInv, VMBlocked
  <2>d. ASSUME NEW i \in 1..Len(vmq')
        PROVE  \/ i \in 1..Len(vmq) /\ vmq'[i] = vmq[i]
               \/ i = Len(vmq) + 1 /\ vmq'[i] = p
    <3>1. i \in 1..Len(vmq) \/ i = Len(vmq) + 1 BY SMT, <2>a
    <3> QED BY <2>a, <3>1
  <2>4. ProtocolType' BY <2>1, <2>2, <2>a DEF ProtocolType, block
  <2>5. SemInv' BY <2>1, <2>2, <2>3 DEF SemInv, block
  <2>6. VmqInv' 
    <3>1. ASSUME NEW i \in 1..Len(vmq')
          PROVE  pc'[vmq'[i]] \in {"acqwake", "acqblock"} /\ sem'[vmq'[i]] = 0
      <4>1. CASE vmq'[i] = p BY <2>2, <2>b, <4>1 DEF block
      <4>2. CASE i \in 1..Len(vmq) /\ vmq'[i] = vmq[i] BY <2>1, <2>2, <2>c, <4>2 DEF VmqInv, block
      <4> QED BY <2>d, <4>1, <4>2
    <3>2. ASSUME NEW i \in 1..Len(vmq'), NEW j \in 1..Len(vmq'), vmq'[i] = vmq'[j]
          PROVE  i = j
      BY SMT, <2>1, <2>c, <2>d, <3>2 DEF VmqInv
    <3> QED BY <3>1, <3>2 DEF VmqInv
  <2>7. IdlevmqInv' BY SMTT(30), <2>1, <2>2, <2>3 DEF IdlevmqInv, VMBlocked, Handing, block
  <2>8. HandoffInv' BY SMT, <2>1, <2>2, <2>3, <2>d DEF HandoffInv, block
  <2>9. IrendInv' BY <2>1, <2>2, <2>3 DEF IrendInv, ProtocolType, block, InVM
  <2>10. TokenInv' BY SMT, <2>1, <2>2, <2>3, <2>b DEF TokenInv, HasToken, block
  <2> QED BY <2>4, <2>5, <2>6, <2>7, <2>8, <2>9, <2>10 DEF ProtocolInv

(* A new interpreter joins the pool.                                       *)
<1>Pool.
     ASSUME ProtocolInv, NEW p \in Procs,
            pc[p] = "startup", pc' = [pc EXCEPT ![p] = "startblock"], creating' \in BOOLEAN,
            idlevmq' = <<p>> \o idlevmq, UNCHANGED <<idle, vmq, block>>
     PROVE  ProtocolInv'
  <2> USE <1>Pool
  <2>1. /\ ProtocolType /\ SemInv /\ VmqInv /\ IdlevmqInv /\ HandoffInv /\ IrendInv /\ TokenInv
        /\ \A i \in 1..Len(vmq) : vmq[i] \in Procs
        /\ \A i \in 1..Len(idlevmq) : idlevmq[i] \in Procs
    BY <1>Members DEF ProtocolInv
  <2>2. pc' \in [Procs -> Labels] /\ pc'[p] = "startblock" /\ \A q \in Procs \ {p} : pc'[q] = pc[q]
    <3>1. "startblock" \in Labels BY DEF Labels, InVM, Handing, VMBlocked, Outside
    <3> QED BY <2>1, <3>1, <1>Moves
  <2>3. pc[p] \notin InVM \cup VMBlocked \cup Handing \cup {"idleblk"}
        /\ "startblock" \in VMBlocked /\ "startblock" \notin InVM \cup Handing
    BY DEF InVM, Handing, VMBlocked
  <2>a. idlevmq' \in Seq(Procs) /\ 1 \in 1..Len(idlevmq')
    <3>1. idlevmq \in Seq(Procs) BY <2>1 DEF ProtocolType
    <3>2. /\ <<p>> \o idlevmq \in Seq(Procs) /\ Len(idlevmq) \in Nat
          /\ Len(<<p>> \o idlevmq) = Len(idlevmq) + 1
      BY <3>1, PushFacts
    <3> QED BY SMT, <3>2
  <2>d. ASSUME NEW i \in 1..Len(idlevmq')
        PROVE  \/ i = 1 /\ idlevmq'[i] = p
               \/ \E k \in 1..Len(idlevmq) : i = k + 1 /\ idlevmq'[i] = idlevmq[k]
    <3>1. idlevmq \in Seq(Procs) BY <2>1 DEF ProtocolType
    <3> QED BY SMT, <3>1, <1>PushElements
  <2>e. sem[p] = 0 /\ \A i \in 1..Len(idlevmq) : idlevmq[i] # p
    <3>1. sem[p] = 0 BY <2>1, <2>3 DEF SemInv
    <3>2. ASSUME NEW i \in 1..Len(idlevmq) PROVE idlevmq[i] # p
      <4>1. pc[idlevmq[i]] \in VMBlocked \cup Handing BY <2>1 DEF IdlevmqInv, VMBlocked, Handing
      <4> QED BY <2>3, <4>1
    <3> QED BY <3>1, <3>2
  <2>4. ProtocolType' BY <2>1, <2>2, <2>a DEF ProtocolType, block
  <2>5. SemInv' BY <2>1, <2>2, <2>3 DEF SemInv, block
  <2>6. VmqInv' BY SMT, <2>1, <2>2, <2>3 DEF VmqInv, VMBlocked, block
  <2>7. IdlevmqInv' 
    <3>1. ASSUME NEW i \in 1..Len(idlevmq')
          PROVE  /\ pc'[idlevmq'[i]] \in {"startblock", "yieldready", "yieldblock"}
                 /\ sem'[idlevmq'[i]] = 0
      <4>1. CASE idlevmq'[i] = p BY <2>2, <2>e, <4>1 DEF block
      <4>2. ASSUME NEW k \in 1..Len(idlevmq), idlevmq'[i] = idlevmq[k]
            PROVE  /\ pc'[idlevmq'[i]] \in {"startblock", "yieldready", "yieldblock"}
                   /\ sem'[idlevmq'[i]] = 0
        BY SMTT(30), <2>1, <2>2, <2>e, <4>2 DEF IdlevmqInv, block
      <4> QED BY <2>d, <4>1, <4>2
    <3>2. ASSUME NEW i \in 1..Len(idlevmq'), NEW j \in 1..Len(idlevmq'), idlevmq'[i] = idlevmq'[j]
          PROVE  i = j
      <4>1. \/ i = 1 /\ idlevmq'[i] = p
            \/ \E k \in 1..Len(idlevmq) : i = k + 1 /\ idlevmq'[i] = idlevmq[k]
        BY <2>d
      <4>2. \/ j = 1 /\ idlevmq'[j] = p
            \/ \E k \in 1..Len(idlevmq) : j = k + 1 /\ idlevmq'[j] = idlevmq[k]
        BY <2>d
      <4>3. \A k, m \in 1..Len(idlevmq) : idlevmq[k] = idlevmq[m] => k = m BY <2>1 DEF IdlevmqInv
      <4> QED BY <2>e, <3>2, <4>1, <4>2, <4>3
    <3> QED BY <3>1, <3>2 DEF IdlevmqInv
  <2>8. HandoffInv' 
    <3> SUFFICES ASSUME NEW q \in Procs, pc'[q] \in Handing
                 PROVE  /\ handoff'[q] \in Procs /\ pc'[handoff'[q]] \in VMBlocked /\ sem'[handoff'[q]] = 0
                        /\ \A i \in 1..Len(vmq') : vmq'[i] # handoff'[q]
                        /\ \A i \in 1..Len(idlevmq') : idlevmq'[i] # handoff'[q]
      BY DEF HandoffInv
    <3>1. q # p /\ pc[q] \in Handing BY <2>2, <2>3
    <3>2. /\ handoff[q] \in Procs /\ pc[handoff[q]] \in VMBlocked /\ sem[handoff[q]] = 0
          /\ \A i \in 1..Len(vmq) : vmq[i] # handoff[q]
          /\ \A i \in 1..Len(idlevmq) : idlevmq[i] # handoff[q]
      BY <2>1, <3>1 DEF HandoffInv
    <3>3. handoff[q] # p BY <2>3, <3>2
    <3>4. \A i \in 1..Len(idlevmq') : idlevmq'[i] # handoff[q] BY SMT, <2>d, <3>2, <3>3
    <3> QED BY <2>2, <3>2, <3>3, <3>4 DEF block
  <2>9. IrendInv' BY <2>1, <2>2, <2>3 DEF IrendInv, ProtocolType, block, InVM
  <2>10. TokenInv' BY SMT, <2>1, <2>2, <2>3, <2>e DEF TokenInv, HasToken, block
  <2> QED BY <2>4, <2>5, <2>6, <2>7, <2>8, <2>9, <2>10 DEF ProtocolInv

(* The owner pops the first acquirer and joins the pool.                   *)
<1>YieldPool.
     ASSUME ProtocolInv, NEW p \in Procs,
            pc[p] \in InVM \ {"idleblk"}, pc' = [pc EXCEPT ![p] = "yieldready"],
            vmq # <<>>, handoff' = [handoff EXCEPT ![p] = Head(vmq)], vmq' = Tail(vmq),
            idlevmq' = <<p>> \o idlevmq, UNCHANGED <<idle, creating, sem, irend>>
     PROVE  ProtocolInv'
  <2> USE <1>YieldPool
  <2>1. /\ ProtocolType /\ SemInv /\ VmqInv /\ IdlevmqInv /\ HandoffInv /\ IrendInv /\ TokenInv
        /\ \A i \in 1..Len(vmq) : vmq[i] \in Procs
        /\ \A i \in 1..Len(idlevmq) : idlevmq[i] \in Procs
    BY <1>Members DEF ProtocolInv
  <2>2. pc' \in [Procs -> Labels] /\ pc'[p] = "yieldready" /\ \A q \in Procs \ {p} : pc'[q] = pc[q]
    <3>1. "yieldready" \in Labels BY DEF Labels, InVM, Handing, VMBlocked, Outside
    <3> QED BY <2>1, <3>1, <1>Moves
  <2>3. pc[p] \in InVM /\ pc[p] \notin VMBlocked \cup Handing \cup {"idleblk"}
        /\ "yieldready" \in Handing /\ "yieldready" \notin InVM \cup VMBlocked
    BY DEF InVM, Handing, VMBlocked
  <2>own. \A q \in Procs : pc[q] \in InVM \cup Handing => q = p
    BY <2>1, <2>3 DEF TokenInv, HasToken
  <2>a. /\ Head(vmq) = vmq[1] /\ Head(vmq) \in Procs /\ 1 \in 1..Len(vmq)
        /\ Tail(vmq) \in Seq(Procs) /\ Len(Tail(vmq)) = Len(vmq) - 1
        /\ \A i \in 1..Len(Tail(vmq)) : Tail(vmq)[i] = vmq[i + 1] /\ i + 1 \in 1..Len(vmq)
    <3>1. vmq \in Seq(Procs) BY <2>1 DEF ProtocolType
    <3>2. /\ Len(vmq) \in Nat /\ Len(vmq) >= 1 /\ Head(vmq) = vmq[1] /\ Head(vmq) \in Procs
          /\ Tail(vmq) \in Seq(Procs) /\ Len(Tail(vmq)) = Len(vmq) - 1
          /\ \A i \in 1..Len(Tail(vmq)) : Tail(vmq)[i] = vmq[i + 1]
      BY <3>1, PopFacts
    <3> QED BY SMT, <3>2
  <2>b. pc[vmq[1]] \in {"acqwake", "acqblock"} /\ sem[vmq[1]] = 0 /\ vmq[1] # p
    BY <2>1, <2>3, <2>a DEF VmqInv, VMBlocked
  <2>c. idlevmq' \in Seq(Procs) /\ 1 \in 1..Len(idlevmq')
    <3>1. idlevmq \in Seq(Procs) BY <2>1 DEF ProtocolType
    <3>2. /\ <<p>> \o idlevmq \in Seq(Procs) /\ Len(idlevmq) \in Nat
          /\ Len(<<p>> \o idlevmq) = Len(idlevmq) + 1
      BY <3>1, PushFacts
    <3> QED BY SMT, <3>2
  <2>d. ASSUME NEW i \in 1..Len(idlevmq')
        PROVE  \/ i = 1 /\ idlevmq'[i] = p
               \/ \E k \in 1..Len(idlevmq) : i = k + 1 /\ idlevmq'[i] = idlevmq[k]
    <3>1. idlevmq \in Seq(Procs) BY <2>1 DEF ProtocolType
    <3> QED BY SMT, <3>1, <1>PushElements
  <2>e. sem[p] = 0 /\ \A i \in 1..Len(idlevmq) : idlevmq[i] # p
    <3>1. sem[p] = 0 BY <2>1, <2>3 DEF SemInv
    <3>2. ASSUME NEW i \in 1..Len(idlevmq) PROVE idlevmq[i] # p
      <4>1. pc[idlevmq[i]] \in VMBlocked \cup Handing BY <2>1 DEF IdlevmqInv, VMBlocked, Handing
      <4> QED BY <2>3, <4>1
    <3> QED BY <3>1, <3>2
  <2>4. ProtocolType' BY <2>1, <2>2, <2>a, <2>c DEF ProtocolType
  <2>5. SemInv' BY <2>1, <2>2, <2>3 DEF SemInv
  <2>6. VmqInv' BY SMT, <2>1, <2>2, <2>3, <2>a DEF VmqInv, VMBlocked
  <2>7. IdlevmqInv' 
    <3>1. ASSUME NEW i \in 1..Len(idlevmq')
          PROVE  /\ pc'[idlevmq'[i]] \in {"startblock", "yieldready", "yieldblock"}
                 /\ sem'[idlevmq'[i]] = 0
      <4>1. CASE idlevmq'[i] = p BY <2>2, <2>e, <4>1
      <4>2. ASSUME NEW k \in 1..Len(idlevmq), idlevmq'[i] = idlevmq[k]
            PROVE  /\ pc'[idlevmq'[i]] \in {"startblock", "yieldready", "yieldblock"}
                   /\ sem'[idlevmq'[i]] = 0
        BY SMTT(30), <2>1, <2>2, <2>e, <4>2 DEF IdlevmqInv
      <4> QED BY <2>d, <4>1, <4>2
    <3>2. ASSUME NEW i \in 1..Len(idlevmq'), NEW j \in 1..Len(idlevmq'), idlevmq'[i] = idlevmq'[j]
          PROVE  i = j
      <4>1. \/ i = 1 /\ idlevmq'[i] = p
            \/ \E k \in 1..Len(idlevmq) : i = k + 1 /\ idlevmq'[i] = idlevmq[k]
        BY <2>d
      <4>2. \/ j = 1 /\ idlevmq'[j] = p
            \/ \E k \in 1..Len(idlevmq) : j = k + 1 /\ idlevmq'[j] = idlevmq[k]
        BY <2>d
      <4>3. \A k, m \in 1..Len(idlevmq) : idlevmq[k] = idlevmq[m] => k = m BY <2>1 DEF IdlevmqInv
      <4> QED BY SMT, <2>e, <3>2, <4>1, <4>2, <4>3
    <3> QED BY <3>1, <3>2 DEF IdlevmqInv
  <2>8. HandoffInv' 
    <3>1. \A q \in Procs : pc'[q] \in Handing => q = p BY <2>2, <2>own
    <3>2. \A i \in 1..Len(idlevmq) : idlevmq[i] # vmq[1] BY <2>1, <2>b DEF IdlevmqInv
    <3>3. \A i \in 1..Len(idlevmq') : idlevmq'[i] # vmq[1] BY <2>b, <2>d, <3>2
    <3>4. \A i \in 1..Len(vmq') : vmq'[i] # vmq[1] BY SMT, <2>1, <2>a DEF VmqInv
    <3>5. pc'[vmq[1]] \in VMBlocked BY <2>1, <2>2, <2>a, <2>b DEF VMBlocked
    <3>6. handoff'[p] = vmq[1] BY <2>1, <2>a DEF ProtocolType
    <3> QED BY <2>a, <2>b, <3>1, <3>3, <3>4, <3>5, <3>6 DEF HandoffInv
  <2>9. IrendInv' BY <2>1, <2>2, <2>3 DEF IrendInv, ProtocolType
  <2>10. TokenInv' BY SMT, <2>1, <2>2, <2>3 DEF TokenInv, HasToken
  <2> QED BY <2>4, <2>5, <2>6, <2>7, <2>8, <2>9, <2>10 DEF ProtocolInv

(* The idle interpreter is woken.                                          *)
<1>Awaken.
     ASSUME ProtocolInv, NEW p \in Procs,
            pc[p] = "acqwake", pc' = [pc EXCEPT ![p] = "acqblock"], irend' = None,
            sem' = IF irend = None THEN sem ELSE [sem EXCEPT ![irend] = @ + 1],
            UNCHANGED <<vmlock, handoff>>
     PROVE  ProtocolInv'
  <2> USE <1>Awaken
  <2>1. /\ ProtocolType /\ SemInv /\ VmqInv /\ IdlevmqInv /\ HandoffInv /\ IrendInv /\ TokenInv
        /\ \A i \in 1..Len(vmq) : vmq[i] \in Procs
        /\ \A i \in 1..Len(idlevmq) : idlevmq[i] \in Procs
    BY <1>Members DEF ProtocolInv
  <2>2. pc' \in [Procs -> Labels] /\ pc'[p] = "acqblock" /\ \A q \in Procs \ {p} : pc'[q] = pc[q]
    <3>1. "acqblock" \in Labels BY DEF Labels, InVM, Handing, VMBlocked, Outside
    <3> QED BY <2>1, <3>1, <1>Moves
  <2>3. pc[p] \in VMBlocked /\ pc[p] \notin InVM \cup Handing
        /\ "acqblock" \in VMBlocked /\ "acqblock" \notin InVM \cup Handing /\ "idleblk" \in InVM /\ "idleblk" \notin VMBlocked
    BY DEF InVM, Handing, VMBlocked
  <2>a. /\ sem' \in [Procs -> Nat]
        /\ \A q \in Procs : \/ sem'[q] = sem[q]
                            \/ sem'[q] = 1 /\ pc[q] = "idleblk"
    BY SMT, <2>1 DEF IrendInv, ProtocolType
  <2>4. ProtocolType' BY <2>1, <2>2, <2>a DEF ProtocolType, vmlock
  <2>5. SemInv' BY SMTT(30), <2>1, <2>2, <2>3, <2>a DEF SemInv
  <2>6. VmqInv' BY SMTT(30), <2>1, <2>2, <2>3, <2>a DEF VmqInv, vmlock
  <2>7. IdlevmqInv' BY SMT, <2>1, <2>2, <2>3, <2>a DEF IdlevmqInv, vmlock
  <2>8. HandoffInv' BY SMTT(30), <2>1, <2>2, <2>3, <2>a DEF HandoffInv, vmlock
  <2>9. IrendInv' BY DEF IrendInv
  <2>10. TokenInv' BY SMT, <2>1, <2>2, <2>3, <2>a DEF TokenInv, HasToken, vmlock
  <2> QED BY <2>4, <2>5, <2>6, <2>7, <2>8, <2>9, <2>10 DEF ProtocolInv

(* A thread that was readied goes on, as the owner.                        *)
<1>Granted.
     ASSUME ProtocolInv, NEW p \in Procs,
            NEW l \in InVM \ {"idleblk"},
            pc[p] \in VMBlocked \cup {"idleblk"}, pc' = [pc EXCEPT ![p] = l],
            sem[p] > 0, sem' = [sem EXCEPT ![p] = @ - 1],
            UNCHANGED <<vmlock, irend, handoff>>
     PROVE  ProtocolInv'
  <2> USE <1>Granted
  <2>1. /\ ProtocolType /\ SemInv /\ VmqInv /\ IdlevmqInv /\ HandoffInv /\ IrendInv /\ TokenInv
        /\ \A i \in 1..Len(vmq) : vmq[i] \in Procs
        /\ \A i \in 1..Len(idlevmq) : idlevmq[i] \in Procs
    BY <1>Members DEF ProtocolInv
  <2>2. pc' \in [Procs -> Labels] /\ pc'[p] = l /\ \A q \in Procs \ {p} : pc'[q] = pc[q]
    <3>1. l \in Labels BY DEF Labels, InVM, Handing, VMBlocked, Outside
    <3> QED BY <2>1, <3>1, <1>Moves
  <2>3. pc[p] \notin Handing /\ l \in InVM /\ l \notin VMBlocked \cup Handing \cup {"idleblk"} /\ "idleblk" \in InVM
    BY DEF InVM, Handing, VMBlocked
  <2>a. sem' \in [Procs -> Nat] /\ sem[p] # 0 /\ sem'[p] = 0 /\ \A q \in Procs \ {p} : sem'[q] = sem[q]
    BY SMT, <2>1 DEF ProtocolType, SemInv
  <2>own. HasToken(p) /\ ~idle /\ \A q \in Procs : HasToken(q) => q = p
    BY <2>1, <2>3 DEF TokenInv, HasToken
  <2>4. ProtocolType' BY <2>1, <2>2, <2>a DEF ProtocolType, vmlock
  <2>5. SemInv' BY <2>1, <2>2, <2>a DEF SemInv
  <2>6. VmqInv' BY SMT, <2>1, <2>2, <2>a DEF VmqInv, vmlock
  <2>7. IdlevmqInv' BY SMT, <2>1, <2>2, <2>a DEF IdlevmqInv, vmlock
  <2>8. HandoffInv' BY <2>2, <2>3, <2>own DEF HandoffInv, HasToken
  <2>9. IrendInv' BY SMT, <2>1, <2>2, <2>a DEF IrendInv, ProtocolType
  <2>10. TokenInv' BY <2>2, <2>3, <2>a, <2>own DEF TokenInv, HasToken, vmlock
  <2> QED BY <2>4, <2>5, <2>6, <2>7, <2>8, <2>9, <2>10 DEF ProtocolInv

(* The owner goes to sleep on irend.                                       *)
<1>Doze.
     ASSUME ProtocolInv, NEW p \in Procs,
            pc[p] \in InVM \ {"idleblk"}, pc' = [pc EXCEPT ![p] = "idleblk"], irend' = p,
            UNCHANGED <<vmlock, sem, handoff>>
     PROVE  ProtocolInv'
  <2> USE <1>Doze
  <2>1. /\ ProtocolType /\ SemInv /\ VmqInv /\ IdlevmqInv /\ HandoffInv /\ IrendInv /\ TokenInv
        /\ \A i \in 1..Len(vmq) : vmq[i] \in Procs
        /\ \A i \in 1..Len(idlevmq) : idlevmq[i] \in Procs
    BY <1>Members DEF ProtocolInv
  <2>2. pc' \in [Procs -> Labels] /\ pc'[p] = "idleblk" /\ \A q \in Procs \ {p} : pc'[q] = pc[q]
    <3>1. "idleblk" \in Labels BY DEF Labels, InVM, Handing, VMBlocked, Outside
    <3> QED BY <2>1, <3>1, <1>Moves
  <2>3. pc[p] \in InVM /\ pc[p] \notin VMBlocked \cup Handing \cup {"idleblk"}
        /\ "idleblk" \in InVM /\ "idleblk" \notin VMBlocked \cup Handing
    BY DEF InVM, Handing, VMBlocked
  <2>4. ProtocolType' BY <2>1, <2>2 DEF ProtocolType, vmlock
  <2>5. SemInv' BY <2>1, <2>2, <2>3 DEF SemInv
  <2>6. VmqInv' BY SMTT(30), <2>1, <2>2, <2>3 DEF VmqInv, VMBlocked, vmlock
  <2>7. IdlevmqInv' BY SMTT(30), <2>1, <2>2, <2>3 DEF IdlevmqInv, VMBlocked, Handing, vmlock
  <2>8. HandoffInv' BY SMT, <2>1, <2>2, <2>3 DEF HandoffInv, vmlock
  <2>9. IrendInv' BY <2>1, <2>2, <2>3 DEF IrendInv, SemInv
  <2>10. TokenInv' BY SMT, <2>1, <2>2, <2>3 DEF TokenInv, HasToken, vmlock
  <2> QED BY <2>4, <2>5, <2>6, <2>7, <2>8, <2>9, <2>10 DEF ProtocolInv

(* A thread without the machine starts another one.                        *)
<1>Born.
     ASSUME ProtocolInv, NEW p \in Procs, NEW n \in Procs, n # p,
            pc[p] = "relkproc", pc[n] = "none",
            pc' = [pc EXCEPT ![p] = "released", ![n] = "startup"],
            UNCHANGED <<vmlock, block>>
     PROVE  ProtocolInv'
  <2> USE <1>Born
  <2>1. /\ ProtocolType /\ SemInv /\ VmqInv /\ IdlevmqInv /\ HandoffInv /\ IrendInv /\ TokenInv
        /\ \A i \in 1..Len(vmq) : vmq[i] \in Procs
        /\ \A i \in 1..Len(idlevmq) : idlevmq[i] \in Procs
    BY <1>Members DEF ProtocolInv
  <2>2. "released" \in Labels /\ "startup" \in Labels BY DEF Labels, Outside
  <2>3. /\ pc' \in [Procs -> Labels] /\ pc'[p] = "released" /\ pc'[n] = "startup"
        /\ \A q \in Procs \ {p, n} : pc'[q] = pc[q]
    BY <2>1, <2>2 DEF ProtocolType
  <2>4. /\ \A x \in {p, n} : pc[x] \notin InVM \cup VMBlocked \cup Handing
        /\ \A x \in {p, n} : pc'[x] \notin InVM \cup VMBlocked \cup Handing
        /\ "idleblk" \in InVM
    BY <2>3 DEF InVM, VMBlocked, Handing
  <2>5. ProtocolType' BY <2>1, <2>3 DEF ProtocolType, vmlock, block
  <2>6. SemInv' BY <2>1, <2>3, <2>4 DEF SemInv, block
  <2>7. VmqInv' BY SMTT(30), <2>1, <2>3, <2>4 DEF VmqInv, VMBlocked, vmlock, block
  <2>8. IdlevmqInv' BY SMTT(30), <2>1, <2>3, <2>4 DEF IdlevmqInv, VMBlocked, Handing, vmlock, block
  <2>9. HandoffInv' BY SMTT(30), <2>1, <2>3, <2>4 DEF HandoffInv, vmlock, block
  <2>10. IrendInv' BY SMT, <2>1, <2>3, <2>4 DEF IrendInv, ProtocolType, block
  <2>11. TokenInv' BY <2>1, <2>3, <2>4 DEF TokenInv, HasToken, vmlock, block
  <2> QED BY <2>5, <2>6, <2>7, <2>8, <2>9, <2>10, <2>11 DEF ProtocolInv

(* A thread that does not change the run queue from outside the machine.   *)
<1>DataAside.
     ASSUME IInv, ProtocolInv', NEW p \in Procs,
            NEW l \in {"startup", "relkproc", "released", "startblock", "acqwake", "acqblock", "yieldblock"},
            pc' = [pc EXCEPT ![p] = l], UNCHANGED <<local, progs>>,
            p \in Kprocs => l \in KprocLabels,
            l \in {"relkproc", "released", "acqwake", "acqblock"} /\ utype[p] = "Interp"
              => iprog[p] = cur[p] /\ iprog[p] # None
     PROVE  IInv'
  <2> USE <1>DataAside
  <2>1. DataType /\ CarryInv /\ ReleaseTakesOwn /\ ProtocolType BY Parts
  <2>2. UNCHANGED <<runq, iprog, pstate, exiting, utype, cur, cycles, gchalt>> BY DEF local, progs
  <2>3. l \in Labels BY DEF Labels, VMBlocked, Outside
  <2>4. pc'[p] = l /\ \A q \in Procs \ {p} : pc'[q] = pc[q] BY <2>1, <2>3, <1>Moves
  <2>5. DataType' BY <2>1, <2>2 DEF DataType
  <2>6. CarryInv'
    <3>1. ASSUME NEW q \in Procs \ {p} PROVE pc'[q] = pc[q] BY <2>4
    <3> QED BY <2>1, <2>2, <2>4 DEF CarryInv
  <2>7. ReleaseTakesOwn' BY <2>1, <2>2, <2>4 DEF ReleaseTakesOwn
  <2> QED BY <2>5, <2>6, <2>7 DEF IInv

(* acquire with the machine in hand: the Prog carried goes in front.       *)
<1>EnterStep.
     ASSUME IInv, ProtocolInv', NEW p \in Procs, pc[p] \in {"released", "acqblock"}, Enter(p)
     PROVE  IInv'
  <2> USE <1>EnterStep
  <2>1. DataType /\ CarryInv /\ ReleaseTakesOwn /\ ProtocolType /\ runq \in Seq(Progs \cup Procs) BY Parts
  <2>2. /\ runq' = <<Carried(p)>> \o runq /\ iprog' = [iprog EXCEPT ![p] = None]
        /\ pc' = [pc EXCEPT ![p] = Back(p)] /\ Mark(Carried(p), "Pready")
        /\ UNCHANGED <<exiting, utype, cur, cycles, gchalt>>
    BY DEF Enter, Goto, Set, PushCarried, local
  <2>3. Back(p) \in InVM /\ Back(p) \in {"kwork", "finalized", "exit", "xec"} /\ Back(p) \in Labels
    BY DEF Back, InVM, Labels
  <2>4. pc'[p] = Back(p) /\ \A q \in Procs \ {p} : pc'[q] = pc[q] BY <2>1, <2>2, <2>3, <1>Moves
  <2>5. utype[p] = "Interp" => iprog[p] = cur[p] /\ iprog[p] # None BY <2>1 DEF CarryInv
  <2>6. Carried(p) \in Progs \cup Procs
    BY <2>1, <2>5 DEF Carried, DataType
  <2>7. runq' \in Seq(Progs \cup Procs) /\ runq' # <<>> /\ Head(runq') = Carried(p)
    BY SMTT(30), <2>1, <2>2, <2>6, PushFacts
  <2>8. DataType'
    <3>1. pstate' \in [Progs -> States] BY <2>1, <2>2 DEF Mark, Set, DataType, States
    <3>2. iprog' \in [Procs -> Progs \cup Procs \cup {None}] BY <2>1, <2>2 DEF DataType
    <3> QED BY <2>1, <2>2, <2>7, <3>1, <3>2 DEF DataType
  <2>9. /\ Back(p) = "kwork" => utype[p] = "Kproc" /\ Carried(p) = p
        /\ Back(p) = "finalized" => utype[p] \in Collecting /\ Carried(p) = p
        /\ Back(p) \in {"exit", "xec"} => utype[p] = "Interp" /\ Carried(p) = cur[p]
    BY <2>1, <2>5 DEF Back, Carried, Collecting, DataType, Types
  <2>10. CarryInv'
    <3>1. p \in Kprocs => utype[p] = "Kproc" /\ Back(p) \in KprocLabels
      BY <2>1 DEF CarryInv, Back, KprocLabels
    <3>2. \A q \in Procs \ {p} : iprog'[q] = iprog[q] BY <2>1, <2>2 DEF DataType
    <3> SUFFICES ASSUME NEW q \in Procs
                 PROVE  /\ pc'[q] \in {"idlegc", "busygc", "finalized"} => utype'[q] \in Collecting
                        /\ pc'[q] = "kwork" => utype'[q] = "Kproc"
                        /\ pc'[q] \in {"relready", "relkproc", "released", "acqwake", "acqblock"}
                             /\ utype'[q] = "Interp" => iprog'[q] = cur'[q] /\ iprog'[q] # None
                        /\ q \in Kprocs => utype'[q] = "Kproc" /\ pc'[q] \in KprocLabels
      BY DEF CarryInv
    <3>3. CASE q = p BY <2>2, <2>3, <2>4, <2>9, <3>1, <3>3
    <3>4. CASE q # p BY <2>1, <2>2, <2>4, <3>2, <3>4 DEF CarryInv
    <3> QED BY <3>3, <3>4
  <2>11. \A q \in Procs : pc'[q] \in InVM => q = p
    BY <2>3, <2>4 DEF ProtocolInv, TokenInv, HasToken
  <2>12. ReleaseTakesOwn'
    BY <2>2, <2>3, <2>4, <2>7, <2>9, <2>11 DEF ReleaseTakesOwn, InVM
  <2> QED BY <2>8, <2>10, <2>12 DEF IInv

(* release, by the owner, from wherever it is called.                      *)
<1>ReleaseStep.
     ASSUME IInv, NEW p \in Procs, pc[p] \in {"xec", "idlegc", "busygc", "kwork"}, Release(p),
            gchalt' \in Int, exiting' \subseteq Procs
     PROVE  IInv'
  <2> USE <1>ReleaseStep
  <2>1. /\ ProtocolInv /\ DataType /\ CarryInv /\ ReleaseTakesOwn /\ ProtocolType /\ TokenInv
        /\ runq \in Seq(Progs \cup Procs)
    BY Parts
  <2>2. runq # <<>> /\ Head(runq) \in Progs \cup Procs /\ Tail(runq) \in Seq(Progs \cup Procs)
    <3>1. runq # <<>> BY <2>1 DEF ReleaseTakesOwn
    <3> QED BY <2>1, <3>1, PopFacts
  <2>3. pc[p] \in InVM \ {"idleblk"} /\ HasToken(p) BY DEF InVM, HasToken
  <2>4. /\ runq' = Tail(runq) /\ Mark(Head(runq), "Prelease")
        /\ iprog' = IF utype[p] = "Interp" THEN [iprog EXCEPT ![p] = Head(runq)] ELSE iprog
        /\ UNCHANGED <<irend, sem, utype, cur, cycles>>
    BY DEF Release, Set
  <2>5. PICK l \in {"relkproc", "released", "relready"} : pc' = [pc EXCEPT ![p] = l]
    BY DEF Release, Goto, AfterIdling
  <2>6. pc'[p] = l /\ \A q \in Procs \ {p} : pc'[q] = pc[q]
    <3>1. l \in Labels BY DEF Labels, Outside, Handing
    <3> QED BY <2>1, <2>5, <3>1, <1>Moves
  <2>7. ProtocolInv'
    <3>1. CASE vmq = <<>> /\ idlevmq = <<>>
      <4>1. /\ idle' = TRUE /\ creating' \in BOOLEAN /\ UNCHANGED <<vmq, idlevmq, block>>
            /\ l \in {"released", "relkproc"}
        BY <2>1, <2>5, <2>6, <3>1 DEF Release, Goto, block, AfterIdling, ProtocolType
      <4> QED BY <2>1, <2>3, <2>5, <4>1, <1>LeaveIdle
    <3>2. CASE vmq # <<>>
      <4>1. /\ handoff' = [handoff EXCEPT ![p] = Head(vmq)] /\ vmq' = Tail(vmq)
            /\ UNCHANGED <<idle, creating, idlevmq, sem, irend>>
            /\ pc' = [pc EXCEPT ![p] = "relready"]
        BY <3>2 DEF Release, Goto, Set
      <4> QED BY <2>1, <2>3, <3>2, <4>1, <1>LeaveVmq
    <3>3. CASE vmq = <<>> /\ idlevmq # <<>>
      <4>1. /\ handoff' = [handoff EXCEPT ![p] = Head(idlevmq)] /\ idlevmq' = Tail(idlevmq)
            /\ UNCHANGED <<idle, creating, vmq, sem, irend>>
            /\ pc' = [pc EXCEPT ![p] = "relready"]
        BY <3>3 DEF Release, Goto, Set
      <4> QED BY <2>1, <2>3, <3>3, <4>1, <1>LeavePool
    <3> QED BY <3>1, <3>2, <3>3
  <2>8. DataType'
    <3>1. pstate' \in [Progs -> States] BY <2>1, <2>4 DEF Mark, Set, DataType, States
    <3>2. iprog' \in [Procs -> Progs \cup Procs \cup {None}] BY <2>1, <2>2, <2>4 DEF DataType
    <3> QED BY <2>1, <2>2, <2>4, <3>1, <3>2 DEF DataType
  <2>9. CarryInv'
    <3>1. \A q \in Procs \ {p} : iprog'[q] = iprog[q] BY <2>1, <2>4 DEF DataType
    <3>2. utype[p] = "Interp" => iprog'[p] = cur[p] /\ iprog'[p] # None
      <4>1. ASSUME utype[p] = "Interp" PROVE iprog'[p] = Head(runq) BY <2>1, <2>4, <4>1 DEF DataType
      <4>2. ASSUME utype[p] = "Interp" PROVE pc[p] = "xec" BY <2>1, <4>2 DEF CarryInv, Collecting
      <4>3. pc[p] = "xec" => Head(runq) = cur[p] BY <2>1 DEF ReleaseTakesOwn
      <4>4. Head(runq) # None BY <2>2, IschedAssumption
      <4> QED BY <4>1, <4>2, <4>3, <4>4
    <3>3. p \in Kprocs => utype[p] = "Kproc" /\ l \in KprocLabels BY <2>1 DEF CarryInv, KprocLabels
    <3> QED BY <2>1, <2>4, <2>6, <3>1, <3>2, <3>3 DEF CarryInv
  <2>10. ReleaseTakesOwn'
    <3>1. \A q \in Procs : pc[q] \in InVM => q = p BY <2>1, <2>3, OnlyOwner
    <3> QED BY <2>6, <3>1 DEF ReleaseTakesOwn, InVM
  <2> QED BY <2>7, <2>8, <2>9, <2>10 DEF IInv

(* A step of the owner inside the machine.                                 *)
<1>InsideStep.
     ASSUME IInv, NEW p \in Procs, NEW l \in InVM \ {"idleblk"},
            pc[p] \in InVM \ {"idleblk"}, pc' = [pc EXCEPT ![p] = l],
            UNCHANGED <<vmlock, block, iprog>>, DataType',
            \A q \in Procs \ {p} : utype'[q] = utype[q] /\ cur'[q] = cur[q],
            p \in Kprocs => utype'[p] = utype[p] /\ l \in KprocLabels,
            l \in {"idlegc", "busygc", "finalized"} => utype'[p] \in Collecting,
            l = "kwork" => utype'[p] = "Kproc",
            l \in {"xec", "exit"} => runq' # <<>> /\ Head(runq') = cur'[p],
            l \in {"idlegc", "busygc", "finalized", "kwork"} => runq' # <<>> /\ Head(runq') = p
     PROVE  IInv'
  <2> USE <1>InsideStep
  <2>1. ProtocolInv /\ CarryInv /\ ReleaseTakesOwn /\ ProtocolType /\ TokenInv BY Parts
  <2>2. ProtocolInv' BY <2>1, <1>Internal
  <2>3. pc'[p] = l /\ \A q \in Procs \ {p} : pc'[q] = pc[q]
    <3>1. l \in Labels BY DEF Labels
    <3> QED BY <2>1, <3>1, <1>Moves
  <2>4. CarryInv'
    <3> SUFFICES ASSUME NEW q \in Procs
                 PROVE  /\ pc'[q] \in {"idlegc", "busygc", "finalized"} => utype'[q] \in Collecting
                        /\ pc'[q] = "kwork" => utype'[q] = "Kproc"
                        /\ pc'[q] \in {"relready", "relkproc", "released", "acqwake", "acqblock"}
                             /\ utype'[q] = "Interp" => iprog'[q] = cur'[q] /\ iprog'[q] # None
                        /\ q \in Kprocs => utype'[q] = "Kproc" /\ pc'[q] \in KprocLabels
      BY DEF CarryInv
    <3>1. CASE q = p BY <2>1, <2>3, <3>1 DEF CarryInv, InVM
    <3>2. CASE q # p BY <2>1, <2>3, <3>2 DEF CarryInv
    <3> QED BY <3>1, <3>2
  <2>5. HasToken(p) BY DEF HasToken
  <2>6. \A q \in Procs : pc[q] \in InVM => q = p BY <2>1, <2>5, OnlyOwner
  <2>7. ReleaseTakesOwn'
    <3>1. ASSUME NEW q \in Procs, pc'[q] \in {"xec", "exit", "idlegc", "busygc", "finalized", "kwork"}
          PROVE  q = p
      <4>1. pc'[q] \in InVM BY <3>1 DEF InVM
      <4> QED BY <2>3, <2>6, <4>1
    <3> QED BY <2>3, <3>1 DEF ReleaseTakesOwn
  <2> QED BY <2>2, <2>4, <2>7 DEF IInv

(* The same, to a place where nothing is expected of the run queue.        *)
<1>InsideOnly.
     ASSUME IInv, NEW p \in Procs, NEW l \in {"loop", "gc", "sleep", "cleanexit"},
            pc[p] \in InVM \ {"idleblk", "kwork"}, pc' = [pc EXCEPT ![p] = l],
            UNCHANGED <<vmlock, block, iprog>>, DataType',
            \A q \in Procs \ {p} : utype'[q] = utype[q] /\ cur'[q] = cur[q]
     PROVE  IInv'
  <2> USE <1>InsideOnly
  <2>1. p \notin Kprocs BY Parts DEF CarryInv, KprocLabels, InVM
  <2>2. l \in InVM \ {"idleblk"} BY DEF InVM
  <2>3. pc[p] \in InVM \ {"idleblk"} BY SMT
  <2>4. /\ l \notin {"idlegc", "busygc", "finalized", "kwork"} /\ l \notin {"xec", "exit"} BY SMT
  <2> QED BY <2>1, <2>2, <2>3, <2>4, <1>InsideStep

(* What delrunq leaves when the collector's Prog is at the front.          *)
<1>DelrunqFront.
     ASSUME NEW p \in Procs, runq \in Seq(Progs \cup Procs), runq # <<>>, Head(runq) = p
     PROVE  delrunq(p) \in Seq(Progs \cup Procs)
  <2> USE <1>DelrunqFront
  <2>1. Len(runq) \in Nat /\ Len(runq) >= 1 /\ runq[1] = p BY PopFacts
  <2> DEFINE f == CHOOSE i \in DOMAIN runq : runq[i] = p /\ \A j \in 1..(i-1) : runq[j] # p
  <2>2. f \in DOMAIN runq BY SMT, <2>1
  <2>3. delrunq(p) = [j \in 1..(Len(runq) - 1) |-> IF j < f THEN runq[j] ELSE runq[j + 1]]
    BY SMT, <2>1 DEF delrunq
  <2> HIDE DEF f
  <2>4. \A j \in 1..(Len(runq) - 1) : (IF j < f THEN runq[j] ELSE runq[j + 1]) \in Progs \cup Procs
    BY SMT, <2>1
  <2> QED BY SMT, <2>1, <2>3, <2>4

(* vmachine's cycles never pass their bound.                               *)
<1>CyclesUp.
     ASSUME cycles \in [Procs -> 0..YieldAfter], NEW p \in Procs,
            cycles' = cycles \/ (cycles[p] < YieldAfter /\ cycles' = [cycles EXCEPT ![p] = @ + 1])
     PROVE  cycles' \in [Procs -> 0..YieldAfter]
  <2> USE <1>CyclesUp
  <2>1. YieldAfter \in Nat BY IschedAssumption
  <2>2. CASE cycles[p] < YieldAfter /\ cycles' = [cycles EXCEPT ![p] = @ + 1]
    <3>1. cycles[p] + 1 \in 0..YieldAfter BY SMT, <2>1, <2>2
    <3> QED BY <2>2, <3>1
  <2> QED BY <2>2

(* The threads that are inside the machine.                                *)
<1>InsideIInv.
     ASSUME IInv, NEW p \in Procs,
            \/ ExecAtIdle(p) \/ EndFinalize(p) \/ EndGC(p) \/ Run(p) \/ EndSlice(p)
            \/ Delprog(p) \/ BusyGC(p) \/ Block(p) \/ Exception(p) \/ Broken(p)
            \/ \E x \in Progs : Addrun(p, x)
     PROVE  IInv'
  <2> USE <1>InsideIInv
  <2>1. DataType /\ CarryInv /\ ReleaseTakesOwn /\ pc \in [Procs -> Labels] /\ runq \in Seq(Progs \cup Procs)
    BY Parts
  <2>2. pc[p] \in {"xec", "idlegc", "busygc", "finalized", "exit", "kwork"}
          => /\ runq # <<>> /\ Head(runq) \in Progs \cup Procs
             /\ Tail(runq) \in Seq(Progs \cup Procs)
    <3>1. ASSUME pc[p] \in {"xec", "idlegc", "busygc", "finalized", "exit", "kwork"} PROVE runq # <<>>
      BY <2>1, <3>1 DEF ReleaseTakesOwn
    <3> QED BY <2>1, <3>1, PopFacts
  <2>3. pc[p] \in InVM \ {"kwork"} => p \notin Kprocs BY <2>1 DEF CarryInv, KprocLabels, InVM
  <2>4. 0 \in 0..YieldAfter BY SMT, IschedAssumption
  <2>5. CASE ExecAtIdle(p)
    <3>1. /\ pc[p] = "loop" /\ runq = <<>> /\ runq' = Append(runq, p)
          /\ utype' = [utype EXCEPT ![p] = "IdleGC"] /\ pc' = [pc EXCEPT ![p] = "idlegc"]
          /\ UNCHANGED <<vmlock, block, exiting, cur, cycles, gchalt, iprog, pstate>>
      BY <2>5 DEF ExecAtIdle, tready, Goto, Set
    <3>2. runq' \in Seq(Progs \cup Procs) /\ runq' # <<>> /\ Head(runq') = p BY SMT, <3>1
    <3>3. DataType' BY <2>1, <3>1, <3>2 DEF DataType, Types, Collecting
    <3>4. utype'[p] = "IdleGC" /\ \A q \in Procs \ {p} : utype'[q] = utype[q] /\ cur'[q] = cur[q]
      BY <2>1, <3>1 DEF DataType
    <3>5. pc[p] \in InVM \ {"idleblk", "kwork"} /\ "idlegc" \in InVM \ {"idleblk"} /\ "IdleGC" \in Collecting
      BY <3>1 DEF InVM, Collecting
    <3>6. p \notin Kprocs BY <2>3, <3>5
    <3> QED BY <3>1, <3>2, <3>3, <3>4, <3>5, <3>6, <1>InsideStep
  <2>6. CASE EndFinalize(p)
    <3>1. PICK l \in {"idlegc", "busygc"} : pc' = [pc EXCEPT ![p] = l] BY <2>6 DEF EndFinalize, Goto
    <3>2. /\ pc[p] = "finalized" /\ gchalt' = gchalt - 1
          /\ UNCHANGED <<vmlock, block, exiting, utype, cur, cycles, runq, iprog, pstate>>
      BY <2>6 DEF EndFinalize, progs
    <3>3. DataType' BY SMTT(30), <2>1, <3>2 DEF DataType
    <3>4. utype[p] \in Collecting /\ runq # <<>> /\ Head(runq) = p
      BY <2>1, <3>2 DEF CarryInv, ReleaseTakesOwn
    <3>5. pc[p] \in InVM \ {"idleblk", "kwork"} /\ l \in InVM \ {"idleblk"} BY <3>2 DEF InVM
    <3>6. p \notin Kprocs BY <2>3, <3>5
    <3> QED BY <3>1, <3>2, <3>3, <3>4, <3>5, <3>6, <1>InsideStep
  <2>7. CASE EndGC(p)
    <3>1. PICK l \in {"sleep", "loop"} : pc' = [pc EXCEPT ![p] = l] BY <2>7 DEF EndGC, Goto
    <3>2. /\ pc[p] \in {"idlegc", "busygc"} /\ runq' = delrunq(p) /\ utype' = [utype EXCEPT ![p] = "Interp"]
          /\ UNCHANGED <<vmlock, block, exiting, cur, cycles, gchalt, iprog, pstate>>
      BY <2>7 DEF EndGC, Set
    <3>3. runq # <<>> /\ Head(runq) = p BY <2>1, <3>2 DEF ReleaseTakesOwn
    <3>4. runq' \in Seq(Progs \cup Procs) BY <2>1, <3>2, <3>3, <1>DelrunqFront
    <3>5. DataType' BY <2>1, <3>2, <3>4 DEF DataType, Types
    <3>6. \A q \in Procs \ {p} : utype'[q] = utype[q] BY <2>1, <3>2 DEF DataType
    <3>7. pc[p] \in InVM \ {"idleblk", "kwork"} BY <3>2 DEF InVM
    <3> QED BY <3>1, <3>2, <3>5, <3>6, <3>7, <1>InsideOnly
  <2>8. CASE Run(p)
    <3>1. pc[p] = "loop" /\ RunHead(p) /\ UNCHANGED <<vmlock, block, exiting, utype, gchalt, runq, iprog, pstate>>
      BY <2>8 DEF Run, progs
    <3>2. cycles' \in [Procs -> 0..YieldAfter]
      <4>1. cycles' = cycles \/ (cycles[p] < YieldAfter /\ cycles' = [cycles EXCEPT ![p] = @ + 1])
        BY <2>8 DEF Run, MayRun
      <4>2. cycles \in [Procs -> 0..YieldAfter] BY <2>1 DEF DataType
      <4> QED BY <4>1, <4>2, <1>CyclesUp
    <3>3. pc[p] \in InVM \ {"idleblk", "kwork"} BY <3>1 DEF InVM
    <3>4. CASE runq = <<>>
      <4>1. pc' = [pc EXCEPT ![p] = "gc"] /\ UNCHANGED cur BY <3>1, <3>4 DEF RunHead, Goto
      <4>2. DataType' BY <2>1, <3>1, <3>2, <4>1 DEF DataType
      <4> QED BY <3>1, <3>3, <4>1, <4>2, <1>InsideOnly
    <3>5. CASE runq # <<>>
      <4>1. pc' = [pc EXCEPT ![p] = "xec"] /\ cur' = [cur EXCEPT ![p] = Head(runq)]
        BY <3>1, <3>5 DEF RunHead, Goto, Set
      <4>2. Head(runq) \in Progs \cup Procs BY <2>1, <3>5, PopFacts
      <4>3. cur' \in [Procs -> Progs \cup Procs \cup {None}] BY <2>1, <4>1, <4>2 DEF DataType
      <4>4. DataType' BY <2>1, <3>1, <3>2, <4>3 DEF DataType
      <4>5. cur'[p] = Head(runq) /\ \A q \in Procs \ {p} : cur'[q] = cur[q] BY <2>1, <4>1 DEF DataType
      <4>6. "xec" \in InVM \ {"idleblk"} BY DEF InVM
      <4>7. p \notin Kprocs BY <2>3, <3>3
      <4> QED BY <3>1, <3>3, <3>5, <4>1, <4>4, <4>5, <4>6, <4>7, <1>InsideStep
    <3> QED BY <3>4, <3>5
  <2>9. CASE EndSlice(p)
    <3>1. /\ pc[p] = "xec" /\ runq' \in {Rotate(runq), runq} /\ cur' = [cur EXCEPT ![p] = None]
          /\ pc' = [pc EXCEPT ![p] = "gc"]
          /\ UNCHANGED <<vmlock, block, exiting, utype, cycles, gchalt, iprog, pstate>>
      BY <2>9 DEF EndSlice, Goto, Set
    <3>2. Rotate(runq) \in Seq(Progs \cup Procs) BY <2>2, <3>1, AppendFacts DEF Rotate
    <3>3. DataType' BY <2>1, <3>1, <3>2 DEF DataType
    <3>4. \A q \in Procs \ {p} : cur'[q] = cur[q] BY <2>1, <3>1 DEF DataType
    <3>5. pc[p] \in InVM \ {"idleblk", "kwork"} BY <3>1 DEF InVM
    <3> QED BY <3>1, <3>3, <3>4, <3>5, <1>InsideOnly
  <2>10. CASE Delprog(p)
    <3>1. PICK l \in {"cleanexit", "loop"} : pc' = [pc EXCEPT ![p] = l] BY <2>10 DEF Delprog, Goto
    <3>2. /\ pc[p] = "exit" /\ runq' \in {Tail(runq), runq} /\ Mark(cur[p], "none")
          /\ cur' = [cur EXCEPT ![p] = None] /\ cycles' = [cycles EXCEPT ![p] = 0]
          /\ gchalt' = gchalt - 1 /\ exiting' = exiting \ {p}
          /\ UNCHANGED <<vmlock, block, utype, iprog>>
      BY <2>10 DEF Delprog, Set
    <3>3. runq' \in Seq(Progs \cup Procs) BY <2>1, <2>2, <3>2
    <3>4. pstate' \in [Progs -> States] BY <2>1, <3>2 DEF Mark, Set, DataType, States
    <3>5. cycles' \in [Procs -> 0..YieldAfter] BY <2>1, <2>4, <3>2 DEF DataType
    <3>6. cur' \in [Procs -> Progs \cup Procs \cup {None}] BY <2>1, <3>2 DEF DataType
    <3>7. DataType' BY SMTT(30), <2>1, <3>2, <3>3, <3>4, <3>5, <3>6 DEF DataType
    <3>8. \A q \in Procs \ {p} : cur'[q] = cur[q] BY <2>1, <3>2 DEF DataType
    <3>9. pc[p] \in InVM \ {"idleblk", "kwork"} BY <3>2 DEF InVM
    <3> QED BY <3>1, <3>2, <3>7, <3>8, <3>9, <1>InsideOnly
  <2>11. CASE BusyGC(p)
    <3>1. pc[p] = "gc" /\ UNCHANGED <<vmlock, block, exiting, cur, cycles, gchalt, iprog, pstate>>
      BY <2>11 DEF BusyGC
    <3>2. pc[p] \in InVM \ {"idleblk", "kwork"} BY <3>1 DEF InVM
    <3>3. CASE pc' = [pc EXCEPT ![p] = "loop"] /\ UNCHANGED <<runq, utype>>
      <4>1. DataType' BY <2>1, <3>1, <3>3 DEF DataType
      <4> QED BY <3>1, <3>2, <3>3, <4>1, <1>InsideOnly
    <3>4. CASE /\ utype' = [utype EXCEPT ![p] = "BusyGC"] /\ runq' = <<p>> \o runq
               /\ pc' = [pc EXCEPT ![p] = "busygc"]
      <4>1. p \in Progs \cup Procs BY SMT
      <4>2. runq' \in Seq(Progs \cup Procs) /\ runq' # <<>> /\ Head(runq') = p
        <5>1. <<p>> \o runq \in Seq(Progs \cup Procs) /\ <<p>> \o runq # <<>> /\ Head(<<p>> \o runq) = p
          BY SMT, <2>1, <4>1, PushFacts
        <5> QED BY <3>4, <5>1
      <4>3. DataType' BY <2>1, <3>1, <3>4, <4>2 DEF DataType, Types, Collecting
      <4>4. utype'[p] = "BusyGC" /\ \A q \in Procs \ {p} : utype'[q] = utype[q] BY <2>1, <3>4 DEF DataType
      <4>5. "busygc" \in InVM \ {"idleblk"} /\ "BusyGC" \in Collecting BY DEF InVM, Collecting
      <4>6. p \notin Kprocs BY <2>3, <3>2
      <4> QED BY <3>1, <3>2, <3>4, <4>2, <4>3, <4>4, <4>5, <4>6, <1>InsideStep
    <3> QED BY <2>11, <3>3, <3>4 DEF BusyGC, Goto, Set
  <2>12. CASE Block(p)
    <3>1. /\ pc[p] = "xec" /\ runq' = Tail(runq) /\ Mark(Head(runq), "Pblocked")
          /\ cur' = [cur EXCEPT ![p] = None] /\ pc' = [pc EXCEPT ![p] = "gc"]
          /\ UNCHANGED <<vmlock, block, exiting, utype, cycles, gchalt, iprog>>
      BY <2>12 DEF Block, Goto, Set
    <3>2. pstate' \in [Progs -> States] BY <2>1, <3>1 DEF Mark, Set, DataType, States
    <3>3. DataType' BY <2>1, <2>2, <3>1, <3>2 DEF DataType
    <3>4. \A q \in Procs \ {p} : cur'[q] = cur[q] BY <2>1, <3>1 DEF DataType
    <3>5. pc[p] \in InVM \ {"idleblk", "kwork"} BY <3>1 DEF InVM
    <3> QED BY <3>1, <3>3, <3>4, <3>5, <1>InsideOnly
  <2>13. CASE Exception(p)
    <3>1. /\ pc[p] = "xec" /\ cur' = [cur EXCEPT ![p] = None] /\ cycles' = [cycles EXCEPT ![p] = 0]
          /\ pc' = [pc EXCEPT ![p] = "loop"]
          /\ UNCHANGED <<vmlock, block, exiting, utype, gchalt, runq, iprog, pstate>>
      BY <2>13 DEF Exception, Goto, Set, progs
    <3>2. cycles' \in [Procs -> 0..YieldAfter] BY <2>1, <2>4, <3>1 DEF DataType
    <3>3. DataType' BY <2>1, <3>1, <3>2 DEF DataType
    <3>4. \A q \in Procs \ {p} : cur'[q] = cur[q] BY <2>1, <3>1 DEF DataType
    <3>5. pc[p] \in InVM \ {"idleblk", "kwork"} BY <3>1 DEF InVM
    <3> QED BY <3>1, <3>3, <3>4, <3>5, <1>InsideOnly
  <2>14. CASE Broken(p)
    <3>1. /\ pc[p] = "xec" /\ runq' = Tail(runq) /\ Mark(Head(runq), "Pbroken")
          /\ cur' = [cur EXCEPT ![p] = None] /\ cycles' = [cycles EXCEPT ![p] = 0]
          /\ pc' = [pc EXCEPT ![p] = "loop"]
          /\ UNCHANGED <<vmlock, block, exiting, utype, gchalt, iprog>>
      BY <2>14 DEF Broken, Goto, Set
    <3>2. pstate' \in [Progs -> States] BY <2>1, <3>1 DEF Mark, Set, DataType, States
    <3>3. cycles' \in [Procs -> 0..YieldAfter] BY <2>1, <2>4, <3>1 DEF DataType
    <3>4. DataType' BY <2>1, <2>2, <3>1, <3>2, <3>3 DEF DataType
    <3>5. \A q \in Procs \ {p} : cur'[q] = cur[q] BY <2>1, <3>1 DEF DataType
    <3>6. pc[p] \in InVM \ {"idleblk", "kwork"} BY <3>1 DEF InVM
    <3> QED BY <3>1, <3>4, <3>5, <3>6, <1>InsideOnly
  <2>15. ASSUME NEW x \in Progs, Addrun(p, x) PROVE IInv'
    <3>1. /\ pc[p] \in {"xec", "kwork"} /\ runq' = Append(runq, x) /\ Mark(x, "Pready")
          /\ UNCHANGED <<vmlock, block, exiting, utype, cur, cycles, gchalt, pc, iprog>>
      BY <2>15 DEF Addrun, local
    <3>2. runq # <<>> BY <2>2, <3>1
    <3>3. x \in Progs \cup Procs BY SMT
    <3>4. runq' \in Seq(Progs \cup Procs) /\ runq' # <<>> /\ Head(runq') = Head(runq)
      BY SMTT(30), <2>1, <3>1, <3>2, <3>3, AppendFacts
    <3>5. pstate' \in [Progs -> States] BY <2>1, <3>1 DEF Mark, Set, DataType, States
    <3>6. DataType' BY <2>1, <3>1, <3>4, <3>5 DEF DataType
    <3>7. pc' = [pc EXCEPT ![p] = pc[p]] /\ pc[p] \in InVM \ {"idleblk"}
      BY <2>1, <3>1 DEF InVM
    <3>8. /\ pc[p] = "xec" => Head(runq') = cur'[p]
          /\ pc[p] = "kwork" => Head(runq') = p /\ utype[p] = "Kproc"
          /\ p \in Kprocs => pc[p] \in KprocLabels
      BY <2>1, <3>1, <3>4 DEF ReleaseTakesOwn, CarryInv
    <3> QED BY <3>1, <3>4, <3>6, <3>7, <3>8, <1>InsideStep
  <2> QED BY <2>5, <2>6, <2>7, <2>8, <2>9, <2>10, <2>11, <2>12, <2>13, <2>14, <2>15

(* The threads that come to the machine or pass it on.                     *)
<1>HandoffIInv.
     ASSUME IInv, NEW p \in Procs,
            \/ AcquireWake(p) \/ AcquireGo(p) \/ ReleaseReady(p) \/ Return(p)
            \/ Startup(p) \/ StartupGo(p) \/ IdleSleep(p) \/ IdleWoken(p)
            \/ Yield(p) \/ YieldReady(p) \/ YieldGo(p)
            \/ \E n \in Interps : ReleaseKproc(p, n)
            \/ \E k \in Kprocs : Rptproc(p, k)
     PROVE  IInv'
  <2> USE <1>HandoffIInv
  <2>1. /\ ProtocolInv /\ DataType /\ CarryInv /\ ReleaseTakesOwn /\ pc \in [Procs -> Labels]
        /\ ProtocolType /\ runq \in Seq(Progs \cup Procs)
    BY Parts
  <2>2. 0 \in 0..YieldAfter BY SMT, IschedAssumption
  <2>3. pc[p] \in {"relready", "relkproc", "released", "acqwake", "acqblock"} /\ utype[p] = "Interp"
          => iprog[p] = cur[p] /\ iprog[p] # None
    BY <2>1 DEF CarryInv
  <2>4. pc[p] \notin KprocLabels => p \notin Kprocs BY <2>1 DEF CarryInv
  <2>5. CASE AcquireWake(p)
    <3>1. /\ pc[p] = "acqwake" /\ pc' = [pc EXCEPT ![p] = "acqblock"] /\ irend' = None
          /\ sem' = IF irend = None THEN sem ELSE [sem EXCEPT ![irend] = @ + 1]
          /\ UNCHANGED <<vmlock, handoff>> /\ UNCHANGED <<local, progs>>
      BY <2>5 DEF AcquireWake, osready, Goto
    <3>2. ProtocolInv' BY <2>1, <3>1, <1>Awaken
    <3>3. "acqblock" \in KprocLabels BY DEF KprocLabels
    <3> QED BY <2>3, <3>1, <3>2, <3>3, <1>DataAside
  <2>6. CASE AcquireGo(p)
    <3>1. Back(p) \in InVM \ {"idleblk"} /\ "acqblock" \in VMBlocked BY DEF Back, InVM, VMBlocked
    <3>2. /\ pc[p] = "acqblock" /\ pc' = [pc EXCEPT ![p] = Back(p)] /\ Enter(p)
          /\ sem[p] > 0 /\ sem' = [sem EXCEPT ![p] = @ - 1] /\ UNCHANGED <<vmlock, irend, handoff>>
      BY <2>6 DEF AcquireGo, osblock, Enter, Goto
    <3>3. ProtocolInv' BY <2>1, <3>1, <3>2, <1>Granted
    <3> QED BY <3>2, <3>3, <1>EnterStep
  <2>7. CASE ReleaseReady(p)
    <3>1. /\ pc[p] = "relready" /\ pc' = [pc EXCEPT ![p] = "released"]
          /\ sem' = [sem EXCEPT ![handoff[p]] = @ + 1] /\ handoff' = [handoff EXCEPT ![p] = None]
          /\ UNCHANGED <<vmlock, irend>> /\ UNCHANGED <<local, progs>>
      BY <2>7 DEF ReleaseReady, osready, Goto, Set
    <3>2. pc[p] \in Handing BY <3>1 DEF Handing
    <3>3. ProtocolInv' BY <2>1, <3>1, <3>2, <1>HandOver
    <3>4. "released" \in KprocLabels BY DEF KprocLabels
    <3> QED BY <2>3, <3>1, <3>3, <3>4, <1>DataAside
  <2>8. CASE Return(p)
    <3>1. pc[p] = "released" BY <2>8 DEF Return
    <3>2. CASE idle
      <4>1. /\ Enter(p) /\ pc' = [pc EXCEPT ![p] = Back(p)]
            /\ idle' = FALSE /\ UNCHANGED <<creating, vmq, idlevmq, block>>
        BY <2>8, <3>2 DEF Return, Acquire, Enter, Goto
      <4>2. Back(p) \in InVM \ {"idleblk"} BY DEF Back, InVM
      <4>3. creating' \in BOOLEAN BY <2>1, <4>1 DEF ProtocolType
      <4>4. ProtocolInv' BY <2>1, <3>1, <3>2, <4>1, <4>2, <4>3, <1>TakeIdle
      <4> QED BY <3>1, <4>1, <4>4, <1>EnterStep
    <3>3. CASE ~idle
      <4>1. PICK l \in {"acqwake", "acqblock"} : pc' = [pc EXCEPT ![p] = l]
        BY <2>8, <3>3 DEF Return, Acquire, AfterQueueing, Goto
      <4>2. /\ vmq' = Append(vmq, p) /\ UNCHANGED <<idle, creating, idlevmq, block>>
            /\ UNCHANGED <<local, progs>>
        BY <2>8, <3>3 DEF Return, Acquire, QueueLast
      <4>3. ProtocolInv' BY <2>1, <3>1, <4>1, <4>2, <1>Queue
      <4>4. l \in KprocLabels BY DEF KprocLabels
      <4> QED BY <2>3, <3>1, <4>1, <4>2, <4>3, <4>4, <1>DataAside
    <3> QED BY <3>2, <3>3
  <2>9. CASE Startup(p)
    <3>1. pc[p] = "startup" /\ creating' = FALSE /\ UNCHANGED <<vmq, block>> /\ UNCHANGED <<local, progs>>
      BY <2>9 DEF Startup
    <3>2. p \notin Kprocs BY <2>4, <3>1 DEF KprocLabels
    <3>3. CASE idle
      <4>1. idle' = FALSE /\ pc' = [pc EXCEPT ![p] = "loop"] /\ UNCHANGED idlevmq
        BY <2>9, <3>3 DEF Startup, StartupTakes, Goto
      <4>2. "loop" \in InVM \ {"idleblk"} BY DEF InVM
      <4>7. creating' \in BOOLEAN BY <3>1
      <4>3. ProtocolInv' BY <2>1, <3>1, <3>3, <4>1, <4>2, <4>7, <1>TakeIdle
      <4>4. DataType' BY <2>1, <3>1 DEF DataType, local, progs
      <4>5. CarryInv' BY <2>1, <3>1, <3>2, <4>1 DEF CarryInv, local, progs
      <4>6. ReleaseTakesOwn' BY <2>1, <3>1, <4>1 DEF ReleaseTakesOwn, local, progs
      <4> QED BY <4>3, <4>4, <4>5, <4>6 DEF IInv
    <3>4. CASE ~idle
      <4>1. idlevmq' = <<p>> \o idlevmq /\ pc' = [pc EXCEPT ![p] = "startblock"] /\ UNCHANGED idle
        BY <2>9, <3>4 DEF Startup, StartupTakes, Goto
      <4>2. creating' \in BOOLEAN BY <3>1
      <4>3. ProtocolInv' BY <2>1, <3>1, <4>1, <4>2, <1>Pool
      <4> QED BY <3>1, <3>2, <4>1, <4>3, <1>DataAside
    <3> QED BY <3>3, <3>4
  <2>10. CASE StartupGo(p) \/ IdleWoken(p)
    <3>1. /\ pc[p] \in {"startblock", "idleblk"} /\ pc' = [pc EXCEPT ![p] = "loop"]
          /\ UNCHANGED <<vmlock, irend, handoff>> /\ UNCHANGED <<local, progs>>
          /\ sem[p] > 0 /\ sem' = [sem EXCEPT ![p] = @ - 1]
      BY <2>10 DEF StartupGo, IdleWoken, osblock, Goto
    <3>2. "loop" \in InVM \ {"idleblk"} /\ pc[p] \in VMBlocked \cup {"idleblk"} BY <3>1 DEF InVM, VMBlocked
    <3>3. ProtocolInv' BY <2>1, <3>1, <3>2, <1>Granted
    <3>4. DataType' BY <2>1, <3>1 DEF DataType, local, progs
    <3>5. CarryInv' BY <2>1, <2>4, <3>1 DEF CarryInv, KprocLabels, local, progs
    <3>6. ReleaseTakesOwn' BY <2>1, <3>1 DEF ReleaseTakesOwn, local, progs
    <3> QED BY <3>3, <3>4, <3>5, <3>6 DEF IInv
  <2>11. CASE IdleSleep(p)
    <3>1. PICK l \in {"loop", "idleblk"} : pc' = [pc EXCEPT ![p] = l] BY <2>11 DEF IdleSleep, Goto
    <3>2. pc[p] = "sleep" /\ UNCHANGED <<vmlock, sem, handoff>> /\ UNCHANGED <<local, progs>>
      BY <2>11 DEF IdleSleep
    <3>3. ProtocolInv'
      <4>1. pc[p] \in InVM \ {"idleblk"} /\ "loop" \in InVM \ {"idleblk"} BY <3>2 DEF InVM
      <4>2. CASE tready
        <5>1. pc' = [pc EXCEPT ![p] = "loop"] /\ UNCHANGED irend BY <2>11, <4>2 DEF IdleSleep, Goto
        <5> QED BY <2>1, <3>2, <4>1, <5>1, <1>Internal DEF block
      <4>3. CASE ~tready
        <5>1. pc' = [pc EXCEPT ![p] = "idleblk"] /\ irend' = p BY <2>11, <4>3 DEF IdleSleep, Goto
        <5> QED BY <2>1, <3>2, <4>1, <5>1, <1>Doze
      <4> QED BY <4>2, <4>3
    <3>4. DataType' BY <2>1, <3>2 DEF DataType, local, progs
    <3>5. CarryInv' BY <2>1, <2>4, <3>1, <3>2 DEF CarryInv, KprocLabels, local, progs
    <3>6. ReleaseTakesOwn' BY <2>1, <3>1, <3>2 DEF ReleaseTakesOwn, local, progs
    <3> QED BY <3>3, <3>4, <3>5, <3>6 DEF IInv
  <2>12. CASE Yield(p)
    <3>1. /\ pc[p] = "loop" /\ vmq # <<>> /\ handoff' = [handoff EXCEPT ![p] = Head(vmq)]
          /\ vmq' = Tail(vmq) /\ idlevmq' = <<p>> \o idlevmq
          /\ pc' = [pc EXCEPT ![p] = "yieldready"] /\ cycles' = [cycles EXCEPT ![p] = 0]
          /\ UNCHANGED <<idle, creating, sem, irend>>
          /\ UNCHANGED <<exiting, utype, cur, gchalt, runq, iprog, pstate>>
      BY <2>12 DEF Yield, Goto, Set, progs
    <3>2. pc[p] \in InVM \ {"idleblk"} BY <3>1 DEF InVM
    <3>3. ProtocolInv' BY <2>1, <3>1, <3>2, <1>YieldPool
    <3>4. cycles' \in [Procs -> 0..YieldAfter] BY <2>1, <2>2, <3>1 DEF DataType
    <3>5. DataType' BY <2>1, <3>1, <3>4 DEF DataType
    <3>6. CarryInv' BY <2>1, <2>4, <3>1 DEF CarryInv, KprocLabels
    <3>7. ReleaseTakesOwn' BY <2>1, <3>1 DEF ReleaseTakesOwn
    <3> QED BY <3>3, <3>5, <3>6, <3>7 DEF IInv
  <2>13. CASE YieldReady(p)
    <3>1. /\ pc[p] = "yieldready" /\ pc' = [pc EXCEPT ![p] = "yieldblock"]
          /\ sem' = [sem EXCEPT ![handoff[p]] = @ + 1] /\ handoff' = [handoff EXCEPT ![p] = None]
          /\ UNCHANGED <<vmlock, irend>> /\ UNCHANGED <<local, progs>>
      BY <2>13 DEF YieldReady, osready, Goto, Set
    <3>2. pc[p] \in Handing BY <3>1 DEF Handing
    <3>3. ProtocolInv' BY <2>1, <3>1, <3>2, <1>HandOver
    <3>4. p \notin Kprocs BY <2>4, <3>1 DEF KprocLabels
    <3> QED BY <3>1, <3>3, <3>4, <1>DataAside
  <2>14. CASE YieldGo(p)
    <3>1. /\ pc[p] = "yieldblock" /\ sem[p] > 0 /\ sem' = [sem EXCEPT ![p] = @ - 1]
          /\ UNCHANGED <<vmlock, irend, handoff>>
          /\ UNCHANGED <<exiting, utype, cycles, gchalt, runq, iprog, pstate>>
      BY <2>14 DEF YieldGo, osblock, progs
    <3>2. PICK l \in {"gc", "xec"} : pc' = [pc EXCEPT ![p] = l] BY <2>14 DEF YieldGo, RunHead, Goto
    <3>3. pc[p] \in VMBlocked \cup {"idleblk"} /\ l \in InVM \ {"idleblk"} BY <3>1 DEF InVM, VMBlocked
    <3>4. ProtocolInv' BY <2>1, <3>1, <3>2, <3>3, <1>Granted
    <3>5. cur' = cur \/ (runq # <<>> /\ cur' = [cur EXCEPT ![p] = Head(runq)])
      BY <2>14 DEF YieldGo, RunHead, Set
    <3>6. runq # <<>> => Head(runq) \in Progs \cup Procs BY <2>1, PopFacts
    <3>7. /\ cur' \in [Procs -> Progs \cup Procs \cup {None}]
          /\ \A q \in Procs \ {p} : cur'[q] = cur[q]
      BY <2>1, <3>5, <3>6 DEF DataType
    <3>8. DataType' BY <2>1, <3>1, <3>7 DEF DataType
    <3>9. CarryInv' BY <2>1, <2>4, <3>1, <3>2, <3>7 DEF CarryInv, KprocLabels
    <3>10. pc'[p] = l /\ \A q \in Procs \ {p} : pc'[q] = pc[q] BY <2>1, <3>2
    <3>11. l = "xec" => runq # <<>> /\ Head(runq) = cur'[p]
      <4>1. CASE runq = <<>>
        <5>1. pc' = [pc EXCEPT ![p] = "gc"] BY <2>14, <4>1 DEF YieldGo, RunHead, Goto
        <5>2. l = "gc" BY <2>1, <3>10, <5>1
        <5> QED BY <5>2
      <4>2. CASE runq # <<>>
        <5>1. cur' = [cur EXCEPT ![p] = Head(runq)] BY <2>14, <4>2 DEF YieldGo, RunHead, Set
        <5> QED BY <2>1, <4>2, <5>1 DEF DataType
      <4> QED BY <4>1, <4>2
    <3>12. ReleaseTakesOwn'
      <4> SUFFICES ASSUME NEW q \in Procs
                   PROVE  /\ pc'[q] \in {"xec", "exit"} => runq' # <<>> /\ Head(runq') = cur'[q]
                          /\ pc'[q] \in {"idlegc", "busygc", "finalized", "kwork"}
                               => runq' # <<>> /\ Head(runq') = q
        BY DEF ReleaseTakesOwn
      <4>1. CASE q = p BY <3>1, <3>10, <3>11, <4>1
      <4>2. CASE q # p BY <2>1, <3>1, <3>7, <3>10, <4>2 DEF ReleaseTakesOwn
      <4> QED BY <4>1, <4>2
    <3> QED BY <3>4, <3>8, <3>9, <3>12 DEF IInv
  <2>15. ASSUME NEW n \in Interps, ReleaseKproc(p, n) PROVE IInv'
    <3>1. /\ n \in Procs /\ n # p /\ pc[n] = "none" /\ pc[p] = "relkproc"
          /\ pc' = [pc EXCEPT ![p] = "released", ![n] = "startup"]
          /\ UNCHANGED <<vmlock, block>> /\ UNCHANGED <<local, progs>>
      BY <2>15 DEF ReleaseKproc, Procs
    <3>2. ProtocolInv' BY <2>1, <3>1, <1>Born
    <3>3. n \notin Kprocs BY IschedAssumption
    <3>4. /\ pc'[p] = "released" /\ pc'[n] = "startup" /\ \A q \in Procs \ {p, n} : pc'[q] = pc[q]
      BY <2>1, <3>1
    <3>5. DataType' BY <2>1, <3>1 DEF DataType, local, progs
    <3>6. CarryInv' BY <2>1, <3>1, <3>3, <3>4 DEF CarryInv, KprocLabels, local, progs
    <3>7. ReleaseTakesOwn' BY <2>1, <3>1, <3>4 DEF ReleaseTakesOwn, local, progs
    <3> QED BY <3>2, <3>5, <3>6, <3>7 DEF IInv
  <2>16. ASSUME NEW k \in Kprocs, Rptproc(p, k) PROVE IInv'
    <3>1. /\ k \in Procs /\ pc[k] = "none" /\ pc' = [pc EXCEPT ![k] = "released"]
          /\ UNCHANGED <<vmlock, block>> /\ UNCHANGED <<local, progs>>
      BY <2>16 DEF Rptproc, Procs, Goto
    <3>2. ProtocolInv' BY <2>1, <3>1, <1>Aside
    <3>3. "released" \in KprocLabels BY DEF KprocLabels
    <3>4. utype[k] # "Interp" BY <2>1, <3>1 DEF CarryInv
    <3> QED BY <3>1, <3>2, <3>3, <3>4, <1>DataAside
  <2> QED BY <2>5, <2>6, <2>7, <2>8, <2>9, <2>10, <2>11, <2>12, <2>13, <2>14, <2>15, <2>16

<1> SUFFICES ASSUME IInv, [Next]_vars PROVE IInv' BY SMT
<1>1. CASE UNCHANGED vars
  <2> USE <1>1 DEF vars, vmlock, block, local, progs, IInv, ProtocolInv
  <2>1. ProtocolType' BY DEF ProtocolType
  <2>2. SemInv' /\ VmqInv' /\ IdlevmqInv' BY SMTT(30) DEF SemInv, VmqInv, IdlevmqInv
  <2>3. HandoffInv' /\ IrendInv' BY DEF HandoffInv, IrendInv
  <2>4. TokenInv' BY DEF TokenInv, HasToken
  <2>5. DataType' BY DEF DataType
  <2>6. CarryInv' /\ ReleaseTakesOwn' BY DEF CarryInv, ReleaseTakesOwn
  <2> QED BY <2>1, <2>2, <2>3, <2>4, <2>5, <2>6
<1>2. ASSUME NEW p \in Procs, Step(p) \/ Choice(p) PROVE IInv'
  <2>1. CASE \/ Finalize(p) \/ Syscall(p) \/ Exit(p) \/ KprocRelease(p)
    <3>1. /\ Release(p) /\ pc[p] \in {"xec", "idlegc", "busygc", "kwork"}
          /\ gchalt' \in Int /\ exiting' \subseteq Procs
      BY SMT, <2>1 DEF Finalize, Syscall, Exit, KprocRelease, IInv, DataType
    <3> QED BY <3>1, <1>ReleaseStep
  <2> QED BY <1>2, <2>1, <1>InsideIInv, <1>HandoffIInv DEF Step, Choice
<1> QED BY <1>1, <1>2 DEF Next

(* Every variable of dis.c's scheduler keeps its type; in particular       *)
(* release never finds the run queue empty.                                *)
THEOREM TypeCorrect == Spec => []TypeOK
<1>1. IInv => TypeOK BY DEF IInv, ProtocolInv, TypeOK
<1> QED BY InitIInv, NextIInv, <1>1, PTL DEF Spec

(* For any number of interpreters, kernel threads and Progs, the machine   *)
(* is idle or belongs to exactly one thread.                               *)
THEOREM MachineExclusive == Spec => []OneToken
<1>1. IInv => OneToken
  <2> SUFFICES ASSUME IInv PROVE OneToken BY SMT
  <2>1. CASE idle BY <2>1 DEF OneToken, IInv, ProtocolInv, TokenInv
  <2>2. CASE ~idle
    <3>1. PICK p \in Procs : HasToken(p) BY <2>2 DEF IInv, ProtocolInv, TokenInv
    <3>2. \A q \in Procs \ {p} : ~HasToken(q) BY <3>1 DEF IInv, ProtocolInv, TokenInv
    <3> QED BY <2>2, <3>1, <3>2 DEF OneToken
  <2> QED BY <2>1, <2>2
<1> QED BY InitIInv, NextIInv, <1>1, PTL DEF Spec

(* release always takes out the Prog that the thread is working for.       *)
THEOREM ReleaseCorrect == Spec => []ReleaseTakesOwn
<1>1. IInv => ReleaseTakesOwn BY DEF IInv
<1> QED BY InitIInv, NextIInv, <1>1, PTL DEF Spec

-----------------------------------------------------------------------------
(* An idle machine has a thread coming for it.  isched.creating must be    *)
(* known to mean the same, because release relies on it.                   *)
Coming == {"startup", "relkproc"}
ComingInv == idle \/ creating => \E p \in Procs : pc[p] \in Coming

\* ComingInv is inductive.
LEMMA NextComing == TypeOK /\ ComingInv /\ [Next]_vars => ComingInv'

\* A step that keeps those who are coming, and that does not set isched.idle or
\* isched.creating, keeps ComingInv.
<1>NotComing.
     ASSUME ComingInv, \A q \in Procs : pc[q] \in Coming => pc'[q] \in Coming,
            idle' => idle, creating' => creating
     PROVE  ComingInv'
  <2> USE <1>NotComing
  <2> QED BY DEF ComingInv

\* Steps that leave isched.l alone: only the thread's own place changes.
<1>ComingInside.
     ASSUME TypeOK, ComingInv, NEW p \in Procs,
            \/ ExecAtIdle(p) \/ EndFinalize(p) \/ EndGC(p) \/ IdleSleep(p)
            \/ IdleWoken(p) \/ Run(p) \/ EndSlice(p) \/ Delprog(p) \/ BusyGC(p)
            \/ Block(p) \/ Exception(p) \/ Broken(p) \/ AcquireWake(p) \/ AcquireGo(p)
            \/ ReleaseReady(p) \/ StartupGo(p) \/ YieldReady(p) \/ YieldGo(p)
     PROVE  ComingInv'
  <2> USE <1>ComingInside
  <2>1. pc \in [Procs -> Labels] BY DEF TypeOK, ProtocolType
  <2>2. pc[p] \notin Coming
    BY DEF Coming, ExecAtIdle, EndFinalize, EndGC, IdleSleep, IdleWoken, Run, EndSlice,
           Delprog, BusyGC, Block, Exception, Broken, AcquireWake, AcquireGo,
           ReleaseReady, StartupGo, YieldReady, YieldGo
  <2>3. UNCHANGED <<idle, creating>>
    BY DEF vmlock, ExecAtIdle, EndFinalize, EndGC, IdleSleep, IdleWoken, Run, EndSlice,
           Delprog, BusyGC, Block, Exception, Broken, AcquireWake, AcquireGo,
           ReleaseReady, StartupGo, YieldReady, YieldGo
  <2>4. \E l : pc' = [pc EXCEPT ![p] = l]
    BY DEF Goto, RunHead, Enter, ExecAtIdle, EndFinalize, EndGC, IdleSleep, IdleWoken,
           Run, EndSlice, Delprog, BusyGC, Block, Exception, Broken, AcquireWake,
           AcquireGo, ReleaseReady, StartupGo, YieldReady, YieldGo
  <2>5. \A q \in Procs : pc[q] \in Coming => pc'[q] \in Coming
    BY <2>1, <2>2, <2>4
  <2> QED BY <2>3, <2>5, <1>NotComing

\* release leaves the machine idle only with an interpreter on its way.
<1>ComingRelease.
     ASSUME TypeOK, ComingInv, NEW p \in Procs, Release(p),
            pc[p] \in {"xec", "idlegc", "busygc", "kwork"}
     PROVE  ComingInv'
  <2> USE <1>ComingRelease
  <2>1. pc \in [Procs -> Labels] BY DEF TypeOK, ProtocolType
  <2>2. CASE vmq = <<>> /\ idlevmq = <<>>
    <3>1. pc' = [pc EXCEPT ![p] = IF creating THEN "released" ELSE "relkproc"]
      BY <2>2 DEF Release, AfterIdling, Goto
    <3>2. CASE creating
      <4>1. PICK q \in Procs : pc[q] \in Coming BY <3>2 DEF ComingInv
      <4>2. q # p BY <4>1 DEF Coming
      <4>3. pc'[q] \in Coming BY <2>1, <3>1, <4>1, <4>2
      <4> QED BY <4>3 DEF ComingInv
    <3>3. CASE ~creating
      <4>1. pc'[p] \in Coming BY <2>1, <3>1, <3>3 DEF Coming
      <4> QED BY <4>1 DEF ComingInv
    <3> QED BY <3>2, <3>3
  <2>3. CASE ~(vmq = <<>> /\ idlevmq = <<>>)
    <3>1. /\ pc' = [pc EXCEPT ![p] = "relready"]
          /\ UNCHANGED <<idle, creating>>
      BY <2>3 DEF Release, Goto
    <3>2. \A q \in Procs : pc[q] \in Coming => pc'[q] \in Coming
      BY <2>1, <3>1 DEF Coming
    <3> QED BY <3>1, <3>2, <1>NotComing
  <2> QED BY <2>2, <2>3

<1> SUFFICES ASSUME TypeOK, ComingInv, [Next]_vars PROVE ComingInv' BY SMT
<1>1. pc \in [Procs -> Labels] BY DEF TypeOK, ProtocolType
<1>2. CASE UNCHANGED vars BY <1>2 DEF vars, vmlock, ComingInv
<1>3. ASSUME NEW p \in Procs, Step(p) \/ Choice(p) PROVE ComingInv'
  <2>1. CASE Startup(p)
    BY <2>1 DEF Startup, StartupTakes, ComingInv
  <2>2. ASSUME NEW n \in Interps, ReleaseKproc(p, n) PROVE ComingInv'
    <3>1. n \in Procs /\ pc'[n] = "startup"
      BY <1>1, <2>2 DEF ReleaseKproc, Procs
    <3> QED BY <3>1 DEF ComingInv, Coming
  <2>3. CASE Yield(p)
    <3>1. /\ pc[p] \notin Coming /\ UNCHANGED <<idle, creating>>
          /\ pc' = [pc EXCEPT ![p] = "yieldready"]
      BY <2>3 DEF Yield, Goto, Coming
    <3>2. \A q \in Procs : pc[q] \in Coming => pc'[q] \in Coming
      BY <1>1, <3>1
    <3> QED BY <3>1, <3>2, <1>NotComing
  <2>4. CASE Return(p)
    <3>1. /\ pc[p] \notin Coming /\ (idle' => idle) /\ creating' = creating
          /\ \E l : pc' = [pc EXCEPT ![p] = l]
      BY SMT, <2>4 DEF Return, Acquire, Enter, Goto, Coming
    <3>2. \A q \in Procs : pc[q] \in Coming => pc'[q] \in Coming
      BY <1>1, <3>1
    <3> QED BY <3>1, <3>2, <1>NotComing
  <2>5. CASE Finalize(p) \/ Syscall(p) \/ Exit(p) \/ KprocRelease(p)
    <3>1. Release(p) /\ pc[p] \in {"xec", "idlegc", "busygc", "kwork"}
      BY <2>5 DEF Finalize, Syscall, Exit, KprocRelease
    <3> QED BY <3>1, <1>ComingRelease
  <2>6. ASSUME NEW x \in Progs, Addrun(p, x) PROVE ComingInv'
    BY <2>6 DEF Addrun, vmlock, ComingInv
  <2>7. ASSUME NEW k \in Kprocs, Rptproc(p, k) PROVE ComingInv'
    <3>1. /\ k \in Procs /\ pc[k] \notin Coming /\ UNCHANGED <<idle, creating>>
          /\ pc' = [pc EXCEPT ![k] = "released"]
      BY <2>7 DEF Rptproc, Goto, Procs, Coming, vmlock
    <3>2. \A q \in Procs : pc[q] \in Coming => pc'[q] \in Coming
      BY <1>1, <3>1
    <3> QED BY <3>1, <3>2, <1>NotComing
  <2> QED BY <1>3, <2>1, <2>2, <2>3, <2>4, <2>5, <2>6, <2>7, <1>ComingInside DEF Step, Choice
<1> QED BY <1>2, <1>3 DEF Next

(* However many threads release and acquire the machine: when it is idle,  *)
(* an interpreter is being created, or has been and will take it.          *)
THEOREM IdleEnds == Spec => []IdleIsTemporary
<1>1. Init => ComingInv
  BY IschedAssumption DEF Init, ComingInv, Coming, Procs
<1>2. ComingInv => IdleIsTemporary
  BY DEF ComingInv, Coming, IdleIsTemporary
<1> QED BY <1>1, <1>2, NextComing, TypeCorrect, PTL DEF Spec

-----------------------------------------------------------------------------
(* The machine of dis.c implements the lock of VmToken.                    *)
(* A thread names a successor only between popping and readying it.        *)
Handed == \A q \in Procs : pc[q] \notin Handing => handoff[q] = None

(* The thread that owns the machine is the one HasToken names, or the one  *)
(* that it has popped; there is no other.                                  *)
OwnerUnique ==
  \A p \in Procs : Owns(p) =>
    ~idle /\ Holder = p /\ \A r \in Procs : Owns(r) => r = p

\* Who has been handed the machine is its only owner.
LEMMA HolderIs == IInv /\ Handed => OwnerUnique
<1> SUFFICES ASSUME IInv, Handed, NEW p \in Procs, Owns(p)
             PROVE  ~idle /\ Holder = p /\ \A r \in Procs : Owns(r) => r = p
  BY DEF OwnerUnique
<1>1. ProtocolType /\ TokenInv /\ HandoffInv BY DEF IInv, ProtocolInv
<1>2. None \notin Procs BY IschedAssumption
<1>3. ASSUME NEW r \in Procs, Owns(r)
      PROVE  \E t \in Procs : /\ HasToken(t)
                              /\ \/ t = r /\ pc[t] \notin Handing
                                 \/ pc[t] \in Handing /\ handoff[t] = r
  <2>1. CASE pc[r] \in InVM \/ (pc[r] \in VMBlocked /\ sem[r] > 0)
    <3>1. HasToken(r) BY <2>1 DEF HasToken
    <3>2. pc[r] \notin Handing BY <2>1 DEF InVM, VMBlocked, Handing
    <3> QED BY <3>1, <3>2
  <2>2. ASSUME NEW q \in Procs, handoff[q] = r
        PROVE  HasToken(q) /\ pc[q] \in Handing
    BY <1>2, <2>2 DEF Handed, HasToken
  <2> QED BY <1>3, <2>1, <2>2 DEF Owns
<1>4. \A r \in Procs : Owns(r) => r = p
  <2> SUFFICES ASSUME NEW r \in Procs, Owns(r) PROVE r = p BY SMT
  <2>1. PICK t \in Procs : /\ HasToken(t)
                           /\ \/ t = r /\ pc[t] \notin Handing
                              \/ pc[t] \in Handing /\ handoff[t] = r
    BY <1>3
  <2>2. PICK u \in Procs : /\ HasToken(u)
                           /\ \/ u = p /\ pc[u] \notin Handing
                              \/ pc[u] \in Handing /\ handoff[u] = p
    BY <1>3
  <2>3. t = u BY <1>1, <2>1, <2>2 DEF TokenInv
  <2> QED BY SMT, <2>1, <2>2, <2>3
<1>5. ~idle
  <2>1. PICK t \in Procs : HasToken(t) BY <1>3
  <2> QED BY <1>1, <2>1 DEF TokenInv
<1>6. (CHOOSE r \in Procs : Owns(r)) = p
  <2>1. \E r \in Procs : Owns(r) BY SMT
  <2>2. Owns(CHOOSE r \in Procs : Owns(r)) /\ (CHOOSE r \in Procs : Owns(r)) \in Procs
    BY <2>1
  <2> QED BY <1>4, <2>2
<1> QED BY <1>4, <1>5, <1>6 DEF Holder

-----------------------------------------------------------------------------
(* What a step may be to VmToken.                                          *)
TokenStep == [Token!TokenNext]_(Token!tvars)

Elements(q) == {q[i] : i \in DOMAIN q}

(* The elements of a queue after an addition at its front.                 *)
LEMMA PushSet ==
  ASSUME NEW S, NEW q \in Seq(S), NEW x \in S
  PROVE  Elements(<<x>> \o q) = Elements(q) \cup {x}
<1> DEFINE t == <<x>> \o q
<1>1. /\ Len(q) \in Nat /\ DOMAIN q = 1..Len(q) /\ DOMAIN t = 1..(Len(q) + 1)
      /\ t[1] = x
      /\ \A i \in 2..(Len(q) + 1) : t[i] = q[i - 1]
  BY SMT, PushFacts
<1> HIDE DEF t
<1>2. ASSUME NEW i \in DOMAIN t PROVE t[i] \in {q[k] : k \in DOMAIN q} \cup {x}
  <2>1. CASE i = 1 BY <1>1, <2>1
  <2>2. CASE i # 1
    <3>1. i \in 2..(Len(q) + 1) /\ i - 1 \in DOMAIN q BY SMT, <1>1, <2>2
    <3> QED BY <1>1, <3>1
  <2> QED BY <2>1, <2>2
<1>3. ASSUME NEW k \in DOMAIN q PROVE \E i \in DOMAIN t : t[i] = q[k]
  <2>1. k + 1 \in 2..(Len(q) + 1) /\ (k + 1) - 1 = k BY SMT, <1>1
  <2> QED BY SMT, <1>1, <2>1
<1>4. 1 \in DOMAIN t BY SMT, <1>1
<1>5. x \in {t[i] : i \in DOMAIN t} BY <1>1, <1>4
<1>6. \A k \in DOMAIN q : q[k] \in {t[i] : i \in DOMAIN t} BY <1>3
<1>7. Elements(t) = Elements(q) \cup {x} BY <1>2, <1>5, <1>6 DEF Elements
<1> QED BY <1>7 DEF t

(* The same for the first being taken, where no element is twice.          *)
LEMMA PopSet ==
  ASSUME NEW S, NEW q \in Seq(S), q # <<>>, \A i, j \in DOMAIN q : q[i] = q[j] => i = j
  PROVE  /\ Head(q) \in Elements(q)
         /\ Elements(Tail(q)) = Elements(q) \ {Head(q)}
         /\ \A i, j \in DOMAIN Tail(q) : Tail(q)[i] = Tail(q)[j] => i = j
<1>1. /\ Len(q) \in Nat /\ Len(q) >= 1 /\ DOMAIN q = 1..Len(q) /\ Head(q) = q[1]
      /\ DOMAIN Tail(q) = 1..(Len(q) - 1)
      /\ \A i \in 1..(Len(q) - 1) : Tail(q)[i] = q[i + 1]
  BY SMT, PopFacts
<1>2. ASSUME NEW i \in DOMAIN Tail(q)
      PROVE  i + 1 \in DOMAIN q /\ Tail(q)[i] = q[i + 1] /\ q[i + 1] # q[1]
  <2>1. i + 1 \in DOMAIN q /\ i + 1 # 1 /\ 1 \in DOMAIN q BY SMT, <1>1
  <2> QED BY <1>1, <2>1
<1>3. ASSUME NEW k \in DOMAIN q, q[k] # q[1]
      PROVE  \E i \in DOMAIN Tail(q) : Tail(q)[i] = q[k]
  <2>1. k # 1 BY <1>3
  <2>2. k - 1 \in DOMAIN Tail(q) /\ (k - 1) + 1 = k BY SMT, <1>1, <2>1
  <2> QED BY <1>1, <2>2
<1>4. 1 \in DOMAIN q BY SMT, <1>1
<1>5. ASSUME NEW i \in DOMAIN Tail(q), NEW j \in DOMAIN Tail(q), Tail(q)[i] = Tail(q)[j]
      PROVE  i = j
  <2>1. i + 1 = j + 1 BY SMT, <1>2, <1>5
  <2> QED BY SMT, <1>1, <2>1
<1> QED BY SMTT(30), <1>1, <1>2, <1>3, <1>4, <1>5 DEF Elements

-----------------------------------------------------------------------------
(* The steps that pass the machine on, take it or ask for it.              *)

(* Every step of the scheduler is one of VmToken, or leaves it alone.      *)
LEMMA NextToken == IInv /\ Handed /\ IInv' /\ [Next]_vars => Handed' /\ TokenStep

(* A machine that is not idle has an owner.                                *)
<1>HolderExists.
     ASSUME IInv, ~idle
     PROVE  \E p \in Procs : Owns(p)
  <2> USE <1>HolderExists
  <2>1. TokenInv /\ HandoffInv BY DEF IInv, ProtocolInv
  <2>2. PICK t \in Procs : HasToken(t) BY <2>1 DEF TokenInv
  <2>3. CASE pc[t] \in Handing
    <3>1. handoff[t] \in Procs BY <2>1, <2>3 DEF HandoffInv
    <3> QED BY <3>1 DEF Owns
  <2>4. CASE pc[t] \notin Handing BY <2>2, <2>4 DEF HasToken, Owns
  <2> QED BY <2>3, <2>4

(* An idle machine has none, and the holder is a thread or None.           *)
<1>HolderFacts.
     ASSUME IInv, Handed
     PROVE  /\ idle => Holder = None
            /\ ~idle => Holder \in Procs /\ Holder # None /\ Owns(Holder)
  <2> USE <1>HolderFacts
  <2>1. idle => Holder = None BY DEF Holder
  <2>2. ASSUME ~idle PROVE Holder \in Procs /\ Holder # None /\ Owns(Holder)
    <3>1. PICK p \in Procs : Owns(p) BY <2>2, <1>HolderExists
    <3>2. Holder = p BY <3>1, HolderIs DEF OwnerUnique
    <3>3. None \notin Procs BY IschedAssumption
    <3> QED BY <3>1, <3>2, <3>3
  <2> QED BY <2>1, <2>2

(* A step in which the owner goes on owning the machine.                   *)
<1>Keeps.
     ASSUME IInv, Handed, IInv', Handed', idle' = idle,
            \A r \in Procs : Owns(r) => Owns(r)'
     PROVE  Holder' = Holder
  <2> USE <1>Keeps
  <2>1. CASE idle BY <2>1 DEF Holder
  <2>2. CASE ~idle
    <3>1. PICK p \in Procs : Owns(p) BY <2>2, <1>HolderExists
    <3>2. Holder = p BY <3>1, HolderIs DEF OwnerUnique
    <3>3. Owns(p)' BY <3>1
    <3>4. OwnerUnique' BY HolderIs, PTL
    <3>5. Holder' = p BY <3>3, <3>4 DEF OwnerUnique
    <3> QED BY <3>2, <3>5
  <2> QED BY <2>1, <2>2

(* The owner keeps the machine, and nobody joins or leaves a queue.        *)
<1>KeepsStep.
     ASSUME IInv, Handed, IInv', Handed', UNCHANGED <<idle, vmq, idlevmq>>,
            \A r \in Procs : Owns(r) => Owns(r)'
     PROVE  TokenStep
  <2> USE <1>KeepsStep
  <2>1. Holder' = Holder BY <1>Keeps
  <2>2. Spare' = Spare BY DEF Spare
  <2> QED BY <2>1, <2>2 DEF TokenStep, Token!tvars

(* A thread inside the machine goes on inside.                             *)
<1>InsideToken.
     ASSUME IInv, Handed, IInv', NEW p \in Procs, NEW l \in InVM,
            pc[p] \in InVM, pc' = [pc EXCEPT ![p] = l],
            UNCHANGED <<vmlock, sem, handoff>>
     PROVE  Handed' /\ TokenStep
  <2> USE <1>InsideToken
  <2>1. pc \in [Procs -> Labels] BY Parts
  <2>2. pc'[p] = l /\ \A q \in Procs \ {p} : pc'[q] = pc[q] BY <2>1
  <2>3. pc[p] \notin Handing \cup VMBlocked /\ l \notin Handing BY DEF InVM, Handing, VMBlocked
  <2>4. Handed' BY <2>2, <2>3 DEF Handed
  <2>5. \A r \in Procs : Owns(r) => Owns(r)' BY <2>2, <2>3 DEF Owns
  <2> QED BY <2>4, <2>5, <1>KeepsStep DEF vmlock

(* A thread that has been posted goes inside.                              *)
<1>GrantedToken.
     ASSUME IInv, Handed, IInv', NEW p \in Procs, NEW l \in InVM,
            pc[p] \in VMBlocked \cup {"idleblk"}, pc' = [pc EXCEPT ![p] = l],
            sem[p] > 0, sem' = [sem EXCEPT ![p] = @ - 1], UNCHANGED <<vmlock, handoff>>
     PROVE  Handed' /\ TokenStep
  <2> USE <1>GrantedToken
  <2>1. pc \in [Procs -> Labels] /\ sem \in [Procs -> Nat] BY Parts DEF ProtocolType
  <2>2. pc'[p] = l /\ \A q \in Procs \ {p} : pc'[q] = pc[q] /\ sem'[q] = sem[q]
    BY <2>1
  <2>3. pc[p] \notin Handing /\ l \notin Handing BY DEF InVM, Handing, VMBlocked
  <2>4. Handed' BY <2>2, <2>3 DEF Handed
  <2>5. \A r \in Procs : Owns(r) => Owns(r)' BY <2>2, <2>3 DEF Owns
  <2> QED BY <2>4, <2>5, <1>KeepsStep DEF vmlock

(* A thread that has nothing to do with the machine moves.                 *)
<1>AsideToken.
     ASSUME IInv, Handed, IInv', NEW p \in Procs,
            NEW l \in {"none", "startup", "relkproc", "released"},
            pc[p] \in {"none", "startup", "relkproc", "released"},
            pc'[p] = l, \A q \in Procs \ {p} : pc'[q] = pc[q] \/
              (pc[q] \in Outside /\ pc'[q] \in Outside),
            UNCHANGED <<vmlock, sem, handoff>>
     PROVE  Handed' /\ TokenStep
  <2> USE <1>AsideToken
  <2>3. /\ pc[p] \notin Handing \cup InVM \cup VMBlocked /\ l \notin Handing
        /\ \A x \in Outside : x \notin Handing \cup InVM \cup VMBlocked
    BY DEF InVM, Handing, VMBlocked, Outside
  <2>4. Handed' BY <2>3 DEF Handed
  <2>5. \A r \in Procs : Owns(r) => Owns(r)' BY <2>3 DEF Owns
  <2> QED BY <2>4, <2>5, <1>KeepsStep DEF vmlock

(* The popped thread is readied: it has the machine already.               *)
<1>HandOverToken.
     ASSUME IInv, Handed, IInv', NEW p \in Procs,
            NEW l \in {"released", "yieldblock"},
            pc[p] \in Handing, pc' = [pc EXCEPT ![p] = l],
            sem' = [sem EXCEPT ![handoff[p]] = @ + 1], handoff' = [handoff EXCEPT ![p] = None],
            UNCHANGED vmlock
     PROVE  Handed' /\ TokenStep
  <2> USE <1>HandOverToken
  <2>1. /\ pc \in [Procs -> Labels] /\ sem \in [Procs -> Nat]
        /\ handoff \in [Procs -> Procs \cup {None}] /\ HandoffInv
    BY Parts DEF ProtocolType, ProtocolInv
  <2>2. pc'[p] = l /\ \A q \in Procs \ {p} : pc'[q] = pc[q] /\ handoff'[q] = handoff[q]
    BY <2>1
  <2>3. l \notin Handing BY DEF Handing
  <2>4. Handed' BY <2>1, <2>2, <2>3 DEF Handed
  <2>5. PICK h \in Procs : h = handoff[p] /\ pc[h] \in VMBlocked /\ sem[h] = 0
    BY <2>1 DEF HandoffInv
  <2>6. Owns(h) /\ Owns(h)'
    <3>1. Owns(h) BY <2>5 DEF Owns
    <3>2. h # p BY <2>5 DEF VMBlocked, Handing
    <3>3. sem'[h] = 1 BY SMT, <2>1, <2>5
    <3>4. pc'[h] \in VMBlocked BY <2>2, <2>5, <3>2
    <3> QED BY SMT, <3>1, <3>3, <3>4 DEF Owns
  <2>7. \A r \in Procs : Owns(r) => r = h BY <2>6, HolderIs DEF OwnerUnique
  <2>8. \A r \in Procs : Owns(r) => Owns(r)' BY <2>6, <2>7
  <2> QED BY <2>4, <2>8, <1>KeepsStep DEF vmlock

(* A thread takes the idle machine.                                        *)
<1>TakeToken.
     ASSUME IInv, Handed, IInv', NEW p \in Procs, NEW l \in InVM,
            pc[p] \in {"startup", "released"}, pc' = [pc EXCEPT ![p] = l],
            idle, UNCHANGED <<vmq, idlevmq, handoff>>
     PROVE  Handed' /\ TokenStep
  <2> USE <1>TakeToken
  <2>1. pc \in [Procs -> Labels] BY Parts
  <2>2. pc'[p] = l /\ \A q \in Procs \ {p} : pc'[q] = pc[q] BY <2>1
  <2>3. l \notin Handing /\ pc[p] \notin Handing BY DEF InVM, Handing
  <2>4. Handed' BY <2>2, <2>3 DEF Handed
  <2>5. Owns(p)' BY <2>2 DEF Owns
  <2>6. OwnerUnique' BY <2>4, HolderIs, PTL
  <2>7. Holder' = p BY <2>5, <2>6 DEF OwnerUnique
  <2>8. Holder = None BY DEF Holder
  <2>9. Spare' = Spare BY DEF Spare
  <2>10. Token!Take(p) BY <2>7, <2>8, <2>9 DEF Token!Take
  <2> QED BY <2>4, <2>10 DEF TokenStep, Token!TokenNext

(* A thread asks for the machine that another has: at the end of the queue *)
(* of acquire, or among the spare interpreters.                            *)
<1>AskToken.
     ASSUME IInv, Handed, IInv', NEW p \in Procs, NEW l \in VMBlocked,
            pc[p] \in {"startup", "released"}, pc' = [pc EXCEPT ![p] = l],
            ~idle, UNCHANGED <<idle, sem, handoff>>,
            \/ vmq' = Append(vmq, p) /\ UNCHANGED idlevmq
            \/ idlevmq' = <<p>> \o idlevmq /\ UNCHANGED vmq
     PROVE  Handed' /\ TokenStep
  <2> USE <1>AskToken
  <2>1. pc \in [Procs -> Labels] /\ HandoffInv /\ vmq \in Seq(Procs) /\ idlevmq \in Seq(Procs)
    BY Parts DEF ProtocolInv, ProtocolType
  <2>2. pc'[p] = l /\ \A q \in Procs \ {p} : pc'[q] = pc[q] BY <2>1
  <2>3. l \notin Handing /\ pc[p] \notin Handing \cup InVM \cup VMBlocked
    BY DEF InVM, Handing, VMBlocked
  <2>4. Handed' BY <2>2, <2>3 DEF Handed
  <2>5. ~Owns(p)
    <3>1. ASSUME NEW q \in Procs, handoff[q] = p PROVE FALSE
      <4>1. pc[q] \in Handing BY <3>1, IschedAssumption DEF Handed
      <4> QED BY <2>1, <2>3, <3>1, <4>1 DEF HandoffInv
    <3> QED BY <2>3, <3>1 DEF Owns
  <2>6. ~Token!Waits(p)
    <3>1. VmqInv /\ IdlevmqInv BY DEF IInv, ProtocolInv
    <3>2. ASSUME NEW i \in DOMAIN vmq PROVE vmq[i] # p
      <4>1. pc[vmq[i]] \in {"acqwake", "acqblock"} BY SMT, <2>1, <3>1 DEF VmqInv
      <4> QED BY <4>1
    <3>3. ASSUME NEW i \in DOMAIN idlevmq PROVE idlevmq[i] # p
      <4>1. pc[idlevmq[i]] \in {"startblock", "yieldready", "yieldblock"}
        BY SMT, <2>1, <3>1 DEF IdlevmqInv
      <4> QED BY <4>1
    <3> QED BY <3>2, <3>3 DEF Token!Waits, Spare
  <2>7. \A r \in Procs : Owns(r) => Owns(r)' BY <2>2, <2>3, <2>5 DEF Owns
  <2>8. Holder' = Holder BY <2>4, <2>7, <1>Keeps
  <2>9. Holder # None /\ Holder # p BY <2>5, <1>HolderFacts
  <2>10. Token!Ask(p)
    <3>1. CASE vmq' = Append(vmq, p) /\ UNCHANGED idlevmq
      <4>1. Spare' = Spare BY <3>1 DEF Spare
      <4> QED BY <2>6, <2>8, <2>9, <3>1, <4>1 DEF Token!Ask
    <3>2. CASE idlevmq' = <<p>> \o idlevmq /\ UNCHANGED vmq
      <4>2. Elements(idlevmq') = Elements(idlevmq) \cup {p}
        <5>1. idlevmq \in Seq(Procs) BY <2>1
        <5>2. Elements(<<p>> \o idlevmq) = Elements(idlevmq) \cup {p} BY SMT, <5>1, PushSet
        <5> QED BY <3>2, <5>2
      <4>1. Spare' = Spare \cup {p} BY <4>2 DEF Spare, Elements
      <4> QED BY <2>6, <2>8, <2>9, <3>2, <4>1 DEF Token!Ask
    <3> QED BY <3>1, <3>2
  <2> QED BY <2>4, <2>10 DEF TokenStep, Token!TokenNext

(* Every step of release is one of VmToken.                                *)
<1>ReleaseToken.
     ASSUME IInv, Handed, IInv', NEW p \in Procs,
            pc[p] \in {"xec", "idlegc", "busygc", "kwork"}, Release(p)
     PROVE  Handed' /\ TokenStep
  <2> USE <1>ReleaseToken
  <2>1. /\ pc \in [Procs -> Labels] /\ handoff \in [Procs -> Procs \cup {None}]
        /\ vmq \in Seq(Procs) /\ idlevmq \in Seq(Procs) /\ IdlevmqInv
    BY Parts DEF ProtocolInv, ProtocolType
  <2>2. PICK l \in {"relkproc", "released", "relready"} : pc' = [pc EXCEPT ![p] = l]
    BY DEF Release, Goto, AfterIdling
  <2>3. pc'[p] = l /\ \A q \in Procs \ {p} : pc'[q] = pc[q] BY <2>1, <2>2
  <2>4. Owns(p) /\ pc[p] \notin Handing BY DEF Owns, InVM, Handing
  <2>5. Holder = p /\ p # None BY <2>4, HolderIs, IschedAssumption DEF OwnerUnique
  <2>6. CASE vmq = <<>> /\ idlevmq = <<>>
    <3>1. idle' = TRUE /\ UNCHANGED <<vmq, idlevmq, handoff>> BY <2>6 DEF Release
    <3>2. l # "relready"
      <4>1. pc'[p] \in {"relkproc", "released"} BY <2>1, <2>6 DEF Release, Goto, AfterIdling
      <4> QED BY <2>3, <4>1
    <3>3. Handed' BY <2>3, <2>4, <3>1, <3>2 DEF Handed, Handing
    <3>4. Holder' = None BY <3>1 DEF Holder
    <3>5. Spare = {} /\ Spare' = {} BY SMT, <2>6, <3>1 DEF Spare
    <3>6. Token!Retire BY <2>5, <2>6, <3>1, <3>4, <3>5 DEF Token!Retire
    <3> QED BY <3>3, <3>6 DEF TokenStep, Token!TokenNext
  <2>7. ASSUME NEW h \in Procs, handoff' = [handoff EXCEPT ![p] = h],
               pc' = [pc EXCEPT ![p] = "relready"]
        PROVE  Handed' /\ Holder' = h
    <3>1. pc'[p] = "relready" /\ \A q \in Procs \ {p} : pc'[q] = pc[q] BY <2>1, <2>7
    <3>2. handoff'[p] = h /\ \A q \in Procs \ {p} : handoff'[q] = handoff[q] BY <2>1, <2>7
    <3>3. Handed' BY <3>1, <3>2 DEF Handed, Handing
    <3>4. Owns(h)' BY <3>2 DEF Owns
    <3>5. OwnerUnique' BY <3>3, HolderIs, PTL
    <3> QED BY <3>3, <3>4, <3>5 DEF OwnerUnique
  <2>8. CASE vmq # <<>>
    <3>1. /\ handoff' = [handoff EXCEPT ![p] = Head(vmq)] /\ vmq' = Tail(vmq)
          /\ UNCHANGED idlevmq /\ pc' = [pc EXCEPT ![p] = "relready"]
      BY <2>8 DEF Release, Goto, Set
    <3>2. Head(vmq) \in Procs BY <2>1, <2>8, PopFacts
    <3>3. Handed' /\ Holder' = Head(vmq) BY <2>7, <3>1, <3>2
    <3>4. Spare' = Spare BY <3>1 DEF Spare
    <3>5. Token!Pass BY <2>5, <2>8, <3>1, <3>3, <3>4 DEF Token!Pass
    <3> QED BY <3>3, <3>5 DEF TokenStep, Token!TokenNext
  <2>9. CASE vmq = <<>> /\ idlevmq # <<>>
    <3>1. /\ handoff' = [handoff EXCEPT ![p] = Head(idlevmq)] /\ idlevmq' = Tail(idlevmq)
          /\ UNCHANGED vmq /\ pc' = [pc EXCEPT ![p] = "relready"]
      BY <2>9 DEF Release, Goto, Set
    <3>2. Head(idlevmq) \in Procs BY <2>1, <2>9, PopFacts
    <3>3. Handed' /\ Holder' = Head(idlevmq) BY <2>7, <3>1, <3>2
    <3>4. Head(idlevmq) \in Spare /\ Spare' = Spare \ {Head(idlevmq)}
      <4>1. \A i, j \in DOMAIN idlevmq : idlevmq[i] = idlevmq[j] => i = j BY SMT, <2>1 DEF IdlevmqInv
      <4>2. /\ Head(idlevmq) \in Elements(idlevmq)
            /\ Elements(Tail(idlevmq)) = Elements(idlevmq) \ {Head(idlevmq)}
            /\ \A i, j \in DOMAIN Tail(idlevmq) : Tail(idlevmq)[i] = Tail(idlevmq)[j] => i = j
        BY <2>1, <2>9, <4>1, PopSet
      <4> QED BY <3>1, <4>2 DEF Spare, Elements
    <3>5. Token!Retire BY <2>5, <2>9, <3>1, <3>3, <3>4 DEF Token!Retire
    <3> QED BY <3>3, <3>5 DEF TokenStep, Token!TokenNext
  <2> QED BY <2>6, <2>8, <2>9

(* iyield passes the machine to the first acquirer and joins the pool.     *)
<1>YieldToken.
     ASSUME IInv, Handed, IInv', NEW p \in Procs, Yield(p)
     PROVE  Handed' /\ TokenStep
  <2> USE <1>YieldToken
  <2>1. /\ pc \in [Procs -> Labels] /\ handoff \in [Procs -> Procs \cup {None}]
        /\ vmq \in Seq(Procs) /\ idlevmq \in Seq(Procs)
    BY Parts DEF ProtocolType
  <2>2. /\ pc[p] = "loop" /\ vmq # <<>> /\ handoff' = [handoff EXCEPT ![p] = Head(vmq)]
        /\ vmq' = Tail(vmq) /\ idlevmq' = <<p>> \o idlevmq
        /\ pc' = [pc EXCEPT ![p] = "yieldready"]
    BY DEF Yield, Goto, Set
  <2>3. pc'[p] = "yieldready" /\ \A q \in Procs \ {p} : pc'[q] = pc[q] BY <2>1, <2>2
  <2>4. Head(vmq) \in Procs BY <2>1, <2>2, PopFacts
  <2>5. handoff'[p] = Head(vmq) /\ \A q \in Procs \ {p} : handoff'[q] = handoff[q]
    BY <2>1, <2>2
  <2>6. Handed' BY <2>3, <2>5 DEF Handed, Handing
  <2>8. OwnerUnique' BY <2>6, HolderIs, PTL
  <2>9. Holder' = Head(vmq)
    <3>1. PICK h \in Procs : h = Head(vmq) BY <2>4
    <3>2. Owns(h)' BY <2>5, <3>1 DEF Owns
    <3> QED BY <2>8, <3>1, <3>2 DEF OwnerUnique
  <2>10. Owns(p) BY <2>2 DEF Owns, InVM
  <2>11. Holder = p /\ p # None BY <2>10, HolderIs, IschedAssumption DEF OwnerUnique
  <2>14. Elements(idlevmq') = Elements(idlevmq) \cup {p}
    <3>1. idlevmq \in Seq(Procs) BY <2>1
    <3>2. Elements(<<p>> \o idlevmq) = Elements(idlevmq) \cup {p} BY SMT, <3>1, PushSet
    <3> QED BY <2>2, <3>2
  <2>12. Spare' = Spare \cup {p} BY <2>14 DEF Spare, Elements
  <2>13. Token!Pass BY <2>2, <2>9, <2>11, <2>12 DEF Token!Pass
  <2> QED BY <2>6, <2>13 DEF TokenStep, Token!TokenNext

(* Wakeup(&isched.irend) leaves the machine where it is.                   *)
<1>WakeToken.
     ASSUME IInv, Handed, IInv', NEW p \in Procs, AcquireWake(p)
     PROVE  Handed' /\ TokenStep
  <2> USE <1>WakeToken
  <2>1. pc \in [Procs -> Labels] /\ sem \in [Procs -> Nat] /\ irend \in Procs \cup {None}
    BY Parts DEF ProtocolType
  <2>2. /\ pc[p] = "acqwake" /\ pc' = [pc EXCEPT ![p] = "acqblock"]
        /\ sem' = IF irend = None THEN sem ELSE [sem EXCEPT ![irend] = @ + 1]
        /\ UNCHANGED <<vmlock, handoff>>
    BY DEF AcquireWake, osready, Goto
  <2>3. pc'[p] = "acqblock" /\ \A q \in Procs \ {p} : pc'[q] = pc[q] BY <2>1, <2>2
  <2>4. \A q \in Procs : sem[q] > 0 => sem'[q] > 0 BY SMT, <2>1, <2>2
  <2>5. Handed' BY <2>2, <2>3 DEF Handed, Handing
  <2>6. \A r \in Procs : Owns(r) => Owns(r)'
    BY <2>2, <2>3, <2>4 DEF Owns, InVM, VMBlocked
  <2> QED BY <2>2, <2>5, <2>6, <1>KeepsStep DEF vmlock

(* What a thread does inside leaves the machine with it.                   *)
<1>InsideTokens.
     ASSUME IInv, Handed, IInv', NEW p \in Procs,
            \/ ExecAtIdle(p) \/ EndFinalize(p) \/ EndGC(p) \/ Run(p) \/ EndSlice(p)
            \/ Delprog(p) \/ BusyGC(p) \/ Block(p) \/ Exception(p) \/ Broken(p)
            \/ IdleSleep(p) \/ \E x \in Progs : Addrun(p, x)
     PROVE  Handed' /\ TokenStep
  <2> USE <1>InsideTokens
  <2>1. pc \in [Procs -> Labels] BY Parts
  <2>2. pc[p] \in InVM /\ UNCHANGED <<vmlock, sem, handoff>>
    BY DEF ExecAtIdle, EndFinalize, EndGC, Run, EndSlice, Delprog, BusyGC, Block,
           Exception, Broken, IdleSleep, Addrun, InVM, block
  <2>3. \E l \in InVM : pc' = [pc EXCEPT ![p] = l]
    <3>1. CASE \E x \in Progs : Addrun(p, x)
      <4>1. pc' = [pc EXCEPT ![p] = pc[p]] BY <2>1, <3>1 DEF Addrun
      <4> QED BY <2>2, <4>1
    <3>2. \A l \in {"idlegc", "busygc", "sleep", "loop", "gc", "xec", "cleanexit", "idleblk"} : l \in InVM
      BY DEF InVM
    <3>3. CASE ExecAtIdle(p) BY <3>2, <3>3 DEF ExecAtIdle, Goto
    <3>4. CASE EndFinalize(p) BY <3>2, <3>4 DEF EndFinalize, Goto
    <3>5. CASE EndGC(p) BY <3>2, <3>5 DEF EndGC, Goto
    <3>6. CASE Run(p) BY <3>2, <3>6 DEF Run, RunHead, Goto
    <3>7. CASE EndSlice(p) \/ Block(p) BY <3>2, <3>7 DEF EndSlice, Block, Goto
    <3>8. CASE Delprog(p) BY <3>2, <3>8 DEF Delprog, Goto
    <3>9. CASE BusyGC(p) BY <3>2, <3>9 DEF BusyGC, Goto
    <3>10. CASE Exception(p) \/ Broken(p) BY <3>2, <3>10 DEF Exception, Broken, Goto
    <3>11. CASE IdleSleep(p) BY <3>2, <3>11 DEF IdleSleep, Goto
    <3> QED BY <3>1, <3>3, <3>4, <3>5, <3>6, <3>7, <3>8, <3>9, <3>10, <3>11
  <2> QED BY <2>2, <2>3, <1>InsideToken

(* The threads that come to the machine or pass it on.                     *)
<1>HandoffTokens.
     ASSUME IInv, Handed, IInv', NEW p \in Procs,
            \/ AcquireGo(p) \/ ReleaseReady(p) \/ Return(p)
            \/ Startup(p) \/ StartupGo(p) \/ IdleWoken(p) \/ YieldReady(p) \/ YieldGo(p)
            \/ \E n \in Interps : ReleaseKproc(p, n)
            \/ \E k \in Kprocs : Rptproc(p, k)
     PROVE  Handed' /\ TokenStep
  <2> USE <1>HandoffTokens
  <2>1. pc \in [Procs -> Labels] BY Parts
  <2>2. \A l \in {"loop", "gc", "xec", "kwork", "finalized", "exit"} : l \in InVM BY DEF InVM
  <2>3. Back(p) \in InVM BY DEF Back, InVM
  <2>4. CASE AcquireGo(p) \/ StartupGo(p) \/ IdleWoken(p) \/ YieldGo(p)
    <3>1. /\ pc[p] \in VMBlocked \cup {"idleblk"} /\ sem[p] > 0
          /\ sem' = [sem EXCEPT ![p] = @ - 1] /\ UNCHANGED <<vmlock, handoff>>
      BY <2>4 DEF AcquireGo, StartupGo, IdleWoken, YieldGo, osblock, VMBlocked
    <3>2. \E l \in InVM : pc' = [pc EXCEPT ![p] = l]
      <4>1. CASE AcquireGo(p) BY <2>3, <4>1 DEF AcquireGo, Enter, Goto
      <4>2. CASE StartupGo(p) \/ IdleWoken(p) BY <2>2, <4>2 DEF StartupGo, IdleWoken, Goto
      <4>3. CASE YieldGo(p) BY <2>2, <4>3 DEF YieldGo, RunHead, Goto
      <4> QED BY <2>4, <4>1, <4>2, <4>3
    <3> QED BY <3>1, <3>2, <1>GrantedToken
  <2>5. CASE ReleaseReady(p) \/ YieldReady(p)
    <3>1. /\ pc[p] \in Handing /\ sem' = [sem EXCEPT ![handoff[p]] = @ + 1]
          /\ handoff' = [handoff EXCEPT ![p] = None] /\ UNCHANGED vmlock
      BY <2>5 DEF ReleaseReady, YieldReady, osready, Set, Handing
    <3>2. \E l \in {"released", "yieldblock"} : pc' = [pc EXCEPT ![p] = l]
      BY <2>5 DEF ReleaseReady, YieldReady, Goto
    <3> QED BY <3>1, <3>2, <1>HandOverToken
  <2>6. CASE (Return(p) \/ Startup(p)) /\ idle
    <3>1. pc[p] \in {"startup", "released"} /\ UNCHANGED <<vmq, idlevmq, handoff>>
      BY <2>6 DEF Return, Acquire, Startup, StartupTakes, block
    <3>2. \E l \in InVM : pc' = [pc EXCEPT ![p] = l]
      <4>1. CASE Return(p) BY <2>3, <2>6, <4>1 DEF Return, Acquire, Enter, Goto
      <4>2. CASE Startup(p) BY <2>2, <2>6, <4>2 DEF Startup, StartupTakes, Goto
      <4> QED BY <2>6, <4>1, <4>2
    <3> QED BY <2>6, <3>1, <3>2, <1>TakeToken
  <2>7. CASE (Return(p) \/ Startup(p)) /\ ~idle
    <3>1. /\ pc[p] \in {"startup", "released"} /\ UNCHANGED <<idle, sem, handoff>>
          /\ \/ vmq' = Append(vmq, p) /\ UNCHANGED idlevmq
             \/ idlevmq' = <<p>> \o idlevmq /\ UNCHANGED vmq
      BY <2>7 DEF Return, Acquire, QueueLast, Startup, StartupTakes, block
    <3>2. \A l \in {"acqwake", "acqblock", "startblock"} : l \in VMBlocked BY DEF VMBlocked
    <3>3. \E l \in VMBlocked : pc' = [pc EXCEPT ![p] = l]
      <4>1. CASE Return(p)
        BY <2>7, <3>2, <4>1 DEF Return, Acquire, AfterQueueing, Goto
      <4>2. CASE Startup(p) BY <2>7, <3>2, <4>2 DEF Startup, StartupTakes, Goto
      <4> QED BY <2>7, <4>1, <4>2
    <3> QED BY <2>7, <3>1, <3>3, <1>AskToken
  <2>8. ASSUME NEW n \in Interps, ReleaseKproc(p, n) PROVE Handed' /\ TokenStep
    <3>1. /\ n \in Procs /\ n # p /\ pc[n] = "none" /\ pc[p] = "relkproc"
          /\ pc' = [pc EXCEPT ![p] = "released", ![n] = "startup"]
          /\ UNCHANGED <<vmlock, sem, handoff>>
      BY <2>8 DEF ReleaseKproc, Procs, block
    <3>2. /\ pc'[p] = "released" /\ pc'[n] = "startup" /\ \A q \in Procs \ {p, n} : pc'[q] = pc[q]
      BY <2>1, <3>1
    <3>3. pc[n] \in Outside /\ pc'[n] \in Outside BY <3>1, <3>2 DEF Outside
    <3>4. \A q \in Procs \ {p} : pc'[q] = pc[q] \/ (pc[q] \in Outside /\ pc'[q] \in Outside)
      BY <3>2, <3>3
    <3> QED BY <3>1, <3>2, <3>4, <1>AsideToken
  <2>9. ASSUME NEW k \in Kprocs, Rptproc(p, k) PROVE Handed' /\ TokenStep
    <3>1. /\ k \in Procs /\ pc[k] = "none" /\ pc' = [pc EXCEPT ![k] = "released"]
          /\ UNCHANGED <<vmlock, sem, handoff>>
      BY <2>9 DEF Rptproc, Procs, Goto, block
    <3>2. pc'[k] = "released" /\ \A q \in Procs \ {k} : pc'[q] = pc[q] BY <2>1, <3>1
    <3> QED BY <3>1, <3>2, <1>AsideToken
  <2> QED BY <2>4, <2>5, <2>6, <2>7, <2>8, <2>9

<1> SUFFICES ASSUME IInv, Handed, IInv', [Next]_vars PROVE Handed' /\ TokenStep BY SMT
<1>1. CASE UNCHANGED vars
  <2>1. UNCHANGED <<idle, vmq, idlevmq, sem, handoff, pc>> BY <1>1 DEF vars, vmlock, block
  <2>2. Handed' BY <2>1 DEF Handed
  <2>3. \A r \in Procs : Owns(r) => Owns(r)' BY <2>1 DEF Owns
  <2> QED BY <2>1, <2>2, <2>3, <1>KeepsStep
<1>2. ASSUME NEW p \in Procs, Step(p) \/ Choice(p) PROVE Handed' /\ TokenStep
  <2>1. CASE Finalize(p) \/ Syscall(p) \/ Exit(p) \/ KprocRelease(p)
    <3>1. Release(p) /\ pc[p] \in {"xec", "idlegc", "busygc", "kwork"}
      BY <2>1 DEF Finalize, Syscall, Exit, KprocRelease
    <3> QED BY <3>1, <1>ReleaseToken
  <2> QED BY <1>2, <2>1, <1>WakeToken, <1>YieldToken, <1>InsideTokens, <1>HandoffTokens DEF Step, Choice
<1> QED BY <1>1, <1>2 DEF Next

(* The scheduler of dis.c implements the lock of VmToken: a thread in      *)
(* acquire is served in turn and before the spare interpreters, and the    *)
(* machine is idle only when nobody wants it, for any number of threads.   *)
THEOREM ImplementsVmToken == Spec => IsVmToken
<1>1. Init => Handed /\ Token!TokenInit
  BY SMT DEF Init, Handed, Token!TokenInit, Holder, Spare
<1> QED BY <1>1, InitIInv, NextIInv, NextToken, PTL
       DEF Spec, IsVmToken, Token!TokenSpec, TokenStep

-----------------------------------------------------------------------------
(* Where a thread is between leaving the machine and entering it again.    *)
Out == {"relready", "relkproc", "released", "acqwake", "acqblock"}

(* Where a thread can be with the collector's work on its hands.           *)
Collects == {"idlegc", "busygc", "finalized"} \cup Out

(* Where a thread's own Prog is on the run queue.                          *)
Working == {"idlegc", "busygc", "finalized", "kwork"}

Distinct(q) == \A i, j \in DOMAIN q : q[i] = q[j] => i = j

(* ProgsAccounted, and what it needs of the threads: an interpreter holds  *)
(* a Prog exactly while it is out for it, a thread's own Prog is on the    *)
(* run queue exactly while the thread works for itself, and a slice is run *)
(* for a Dis Prog only.                                                    *)
RunqInv ==
  /\ Distinct(runq)
  /\ \A x \in Progs : pstate[x] = "Pready" <=> x \in Elements(runq)
  /\ \A p \in Procs : p \in Elements(runq) <=> pc[p] \in Working

HeldInv ==
  /\ iprog \in [Procs -> Progs \cup {None}]
  /\ \A x \in Progs : pstate[x] = "Prelease" <=> \E p \in Procs : iprog[p] = x
  /\ \A p, q \in Procs : iprog[p] = iprog[q] /\ iprog[p] # None => p = q
  /\ \A p \in Procs : iprog[p] # None <=> utype[p] = "Interp" /\ pc[p] \in Out

WorkInv ==
  \A p \in Procs :
    /\ pc[p] \in {"xec", "exit"} => cur[p] \in Progs
    /\ utype[p] \in Collecting => pc[p] \in Collects
    /\ utype[p] = "Kproc" <=> p \in Kprocs

AccInv == RunqInv /\ HeldInv /\ WorkInv

Finalizing(p) == utype[p] \in Collecting /\ pc[p] \notin {"idlegc", "busygc"}

GcInv ==
  /\ IsFiniteSet(exiting)
  /\ gchalt = Cardinality(exiting) + (IF \E p \in Procs : Finalizing(p) THEN 1 ELSE 0)
  /\ \A p \in Procs : p \in exiting => utype[p] = "Interp" /\ pc[p] \in Out \cup {"exit"}
  /\ \A p \in Procs : pc[p] = "exit" => p \in exiting
  /\ CollectorAlone
  /\ ~Finalizers => \A p \in Procs : ~Finalizing(p)

(* A thread that waits for the machine is queued, popped or posted.        *)
WaitInv ==
  \A q \in Procs : pc[q] \in VMBlocked \cup {"yieldready"} =>
    \/ q \in Elements(vmq) \cup Elements(idlevmq)
    \/ sem[q] > 0
    \/ \E r \in Procs : pc[r] \in Handing /\ handoff[r] = q

Alive == {p \in Interps : pc[p] # "none"}
Creators == {p \in Procs : pc[p] = "relkproc"}
Limit == Cardinality(Progs) + (IF Finalizers THEN 2 ELSE 1)

(* One interpreter is on its way at a time, and isched.creating says so,   *)
(* except while the first is alone.                                        *)
CreateInv ==
  /\ \A p, q \in Procs : pc[p] \in Coming /\ pc[q] \in Coming => p = q
  /\ creating \/ (\A p \in Procs : pc[p] \notin Coming)
              \/ \A p \in Procs : pc[p] \in {"startup", "none"}
  /\ IsFiniteSet(Alive) /\ IsFiniteSet(Creators)
  /\ Cardinality(Alive) + Cardinality(Creators) <= Limit

-----------------------------------------------------------------------------
(* The queue operations as operations on a set of distinct elements.       *)

(* The first element taken.                                                *)
LEMMA Popped ==
  ASSUME NEW S, NEW q \in Seq(S), q # <<>>, Distinct(q)
  PROVE  /\ Head(q) \in Elements(q) /\ Tail(q) \in Seq(S) /\ Head(q) \in S
         /\ Elements(Tail(q)) = Elements(q) \ {Head(q)} /\ Distinct(Tail(q))
<1>1. \A i, j \in DOMAIN q : q[i] = q[j] => i = j BY DEF Distinct
<1>2. /\ Head(q) \in Elements(q)
      /\ Elements(Tail(q)) = Elements(q) \ {Head(q)}
      /\ \A i, j \in DOMAIN Tail(q) : Tail(q)[i] = Tail(q)[j] => i = j
  BY <1>1, PopSet
<1>3. Tail(q) \in Seq(S) /\ Head(q) \in S BY PopFacts
<1> QED BY <1>2, <1>3 DEF Distinct

-----------------------------------------------------------------------------
(* The accounts balance in every state.                                    *)
LEMMA InitAcc == Init => AccInv
<1> SUFFICES ASSUME Init PROVE AccInv BY SMT
<1> USE IschedAssumption
<1>1. runq = <<Root>> /\ Elements(runq) = {Root} /\ Distinct(runq) BY SMT DEF Init, Elements, Distinct
<1>2. \A p \in Procs : pc[p] \in {"startup", "none"} BY DEF Init
<1>3. RunqInv BY <1>1, <1>2 DEF Init, RunqInv, Working
<1>4. HeldInv BY <1>2 DEF Init, HeldInv, Out
<1>5. WorkInv BY <1>2 DEF Init, WorkInv, Collecting, Procs
<1> QED BY <1>3, <1>4, <1>5 DEF AccInv

(* Every step keeps the accounts.                                          *)
LEMMA NextAcc == IInv /\ AccInv /\ [Next]_vars => AccInv'

(* An element added at the front.                                          *)
<1>Pushed.
     ASSUME NEW S, NEW q \in Seq(S), NEW x \in S, Distinct(q), x \notin Elements(q)
     PROVE  Elements(<<x>> \o q) = Elements(q) \cup {x} /\ Distinct(<<x>> \o q)
  <2> USE <1>Pushed
  <2>1. Elements(<<x>> \o q) = Elements(q) \cup {x} BY SMT, PushSet
  <2>2. ASSUME NEW i \in DOMAIN (<<x>> \o q), NEW j \in DOMAIN (<<x>> \o q),
               (<<x>> \o q)[i] = (<<x>> \o q)[j]
        PROVE  i = j
    <3>1. /\ Len(q) \in Nat /\ DOMAIN q = 1..Len(q) /\ DOMAIN (<<x>> \o q) = 1..(Len(q) + 1)
          /\ (<<x>> \o q)[1] = x
          /\ \A k \in 2..(Len(q) + 1) : (<<x>> \o q)[k] = q[k - 1]
      BY SMT, PushFacts
    <3>2. \A k \in DOMAIN q : q[k] # x BY DEF Elements
    <3>3. ASSUME NEW k \in 2..(Len(q) + 1) PROVE (<<x>> \o q)[k] # x /\ k - 1 \in DOMAIN q
      <4>1. k - 1 \in DOMAIN q BY SMT, <3>1
      <4> QED BY <3>1, <3>2, <4>1
    <3>4. CASE i = 1 \/ j = 1
      <4>1. i = 1 \/ i \in 2..(Len(q) + 1) BY SMT, <3>1
      <4>2. j = 1 \/ j \in 2..(Len(q) + 1) BY SMT, <3>1
      <4> QED BY <2>2, <3>1, <3>3, <3>4, <4>1, <4>2
    <3>5. CASE i # 1 /\ j # 1
      <4>1. i \in 2..(Len(q) + 1) /\ j \in 2..(Len(q) + 1) BY SMT, <3>1, <3>5
      <4>2. q[i - 1] = q[j - 1] /\ i - 1 \in DOMAIN q /\ j - 1 \in DOMAIN q
        BY <2>2, <3>1, <3>3, <4>1
      <4>3. i - 1 = j - 1 BY <4>2 DEF Distinct
      <4> QED BY SMTT(30), <3>1, <4>3
    <3> QED BY <3>4, <3>5
  <2> QED BY <2>1, <2>2 DEF Distinct

(* An element added at the end.                                            *)
<1>Appended.
     ASSUME NEW S, NEW q \in Seq(S), NEW x \in S, Distinct(q), x \notin Elements(q)
     PROVE  Elements(Append(q, x)) = Elements(q) \cup {x} /\ Distinct(Append(q, x))
  <2> USE <1>Appended
  <2>1. /\ Len(q) \in Nat /\ DOMAIN q = 1..Len(q) /\ DOMAIN Append(q, x) = 1..(Len(q) + 1)
        /\ \A i \in 1..Len(q) : Append(q, x)[i] = q[i]
        /\ Append(q, x)[Len(q) + 1] = x
    BY SMT, AppendFacts
  <2>2. \A k \in DOMAIN q : q[k] # x BY DEF Elements
  <2>3. \A i \in DOMAIN Append(q, x) : i \in DOMAIN q \/ i = Len(q) + 1 BY SMT, <2>1
  <2>4. Len(q) + 1 \in DOMAIN Append(q, x) /\ \A i \in DOMAIN q : i \in DOMAIN Append(q, x)
    BY SMT, <2>1
  <2>5. Elements(Append(q, x)) = Elements(q) \cup {x}
    <3>1. ASSUME NEW i \in DOMAIN Append(q, x) PROVE Append(q, x)[i] \in Elements(q) \cup {x}
      BY <2>1, <2>3 DEF Elements
    <3>2. x \in Elements(Append(q, x)) BY <2>1, <2>4 DEF Elements
    <3>3. ASSUME NEW i \in DOMAIN q PROVE q[i] \in Elements(Append(q, x))
      BY <2>1, <2>4 DEF Elements
    <3> QED BY <3>1, <3>2, <3>3 DEF Elements
  <2>6. ASSUME NEW i \in DOMAIN Append(q, x), NEW j \in DOMAIN Append(q, x),
               Append(q, x)[i] = Append(q, x)[j]
        PROVE  i = j
    <3>1. CASE i \in DOMAIN q /\ j \in DOMAIN q
      <4>1. q[i] = q[j] BY <2>1, <2>6, <3>1
      <4> QED BY <3>1, <4>1 DEF Distinct
    <3>2. CASE i \in DOMAIN q /\ j = Len(q) + 1
      <4>1. q[i] = x BY <2>1, <2>6, <3>2
      <4> QED BY <2>2, <3>2, <4>1
    <3>3. CASE j \in DOMAIN q /\ i = Len(q) + 1
      <4>1. q[j] = x BY <2>1, <2>6, <3>3
      <4> QED BY <2>2, <3>3, <4>1
    <3> QED BY <2>3, <3>1, <3>2, <3>3
  <2> QED BY <2>5, <2>6 DEF Distinct

(* The first element moved to the end, as vmachine does after a slice.     *)
<1>Rotated.
     ASSUME NEW S, NEW q \in Seq(S), q # <<>>, Distinct(q)
     PROVE  Elements(Rotate(q)) = Elements(q) /\ Distinct(Rotate(q))
  <2> USE <1>Rotated
  <2>1. /\ Head(q) \in Elements(q) /\ Tail(q) \in Seq(S) /\ Head(q) \in S
        /\ Elements(Tail(q)) = Elements(q) \ {Head(q)} /\ Distinct(Tail(q))
    BY Popped
  <2>2. Head(q) \notin Elements(Tail(q)) BY <2>1
  <2>3. /\ Elements(Append(Tail(q), Head(q))) = Elements(Tail(q)) \cup {Head(q)}
        /\ Distinct(Append(Tail(q), Head(q)))
    BY <2>1, <2>2, <1>Appended
  <2> QED BY <2>1, <2>3 DEF Rotate

(* The accounts after an element e joins the run queue.                    *)
<1>RunqIn.
     ASSUME RunqInv, NEW e, Distinct(runq'), Elements(runq') = Elements(runq) \cup {e},
            \A x \in Progs \ {e} : pstate'[x] = "Pready" <=> pstate[x] = "Pready",
            e \in Progs => pstate'[e] = "Pready",
            \A q \in Procs \ {e} : pc'[q] \in Working <=> pc[q] \in Working,
            e \in Procs => pc'[e] \in Working
     PROVE  RunqInv'
  <2> USE <1>RunqIn
  <2>1. ASSUME NEW x \in Progs PROVE pstate'[x] = "Pready" <=> x \in Elements(runq')
    <3>1. CASE x = e BY <3>1
    <3>2. CASE x # e BY <3>2 DEF RunqInv
    <3> QED BY <3>1, <3>2
  <2>2. ASSUME NEW q \in Procs PROVE q \in Elements(runq') <=> pc'[q] \in Working
    <3>1. CASE q = e BY <3>1
    <3>2. CASE q # e BY <3>2 DEF RunqInv
    <3> QED BY <3>1, <3>2
  <2>3. Elements(runq)' = Elements(runq') /\ Distinct(runq)' BY DEF Elements, Distinct
  <2> QED BY <2>1, <2>2, <2>3 DEF RunqInv

(* The accounts after an element e leaves the run queue.                   *)
<1>RunqOut.
     ASSUME RunqInv, NEW e, Distinct(runq'), Elements(runq') = Elements(runq) \ {e},
            \A x \in Progs \ {e} : pstate'[x] = "Pready" <=> pstate[x] = "Pready",
            e \in Progs => pstate'[e] # "Pready",
            \A q \in Procs \ {e} : pc'[q] \in Working <=> pc[q] \in Working,
            e \in Procs => pc'[e] \notin Working
     PROVE  RunqInv'
  <2> USE <1>RunqOut
  <2>1. ASSUME NEW x \in Progs PROVE pstate'[x] = "Pready" <=> x \in Elements(runq')
    <3>1. CASE x = e BY <3>1
    <3>2. CASE x # e BY <3>2 DEF RunqInv
    <3> QED BY <3>1, <3>2
  <2>2. ASSUME NEW q \in Procs PROVE q \in Elements(runq') <=> pc'[q] \in Working
    <3>1. CASE q = e BY <3>1
    <3>2. CASE q # e BY <3>2 DEF RunqInv
    <3> QED BY <3>1, <3>2
  <2>3. Elements(runq)' = Elements(runq') /\ Distinct(runq)' BY DEF Elements, Distinct
  <2> QED BY <2>1, <2>2, <2>3 DEF RunqInv

(* The accounts when the run queue has the same elements.                  *)
<1>RunqSame.
     ASSUME RunqInv, Distinct(runq'), Elements(runq') = Elements(runq),
            \A x \in Progs : pstate'[x] = "Pready" <=> pstate[x] = "Pready",
            \A q \in Procs : pc'[q] \in Working <=> pc[q] \in Working
     PROVE  RunqInv'
  <2> USE <1>RunqSame
  <2>1. Elements(runq)' = Elements(runq') /\ Distinct(runq)' BY DEF Elements, Distinct
  <2> QED BY <2>1 DEF RunqInv

(* The Progs taken out stay where they are.                                *)
<1>HeldSame.
     ASSUME HeldInv, iprog' = iprog,
            \A x \in Progs : pstate'[x] = "Prelease" <=> pstate[x] = "Prelease",
            \A q \in Procs : utype'[q] = "Interp" /\ pc'[q] \in Out
                               <=> utype[q] = "Interp" /\ pc[q] \in Out
     PROVE  HeldInv'
  <2> USE <1>HeldSame
  <2> QED BY SMT DEF HeldInv

(* What a thread works for, when one thread moves.                         *)
<1>WorkStep.
     ASSUME WorkInv, NEW p \in Procs,
            \A q \in Procs \ {p} : pc'[q] = pc[q] /\ utype'[q] = utype[q] /\ cur'[q] = cur[q],
            pc'[p] \in {"xec", "exit"} => cur'[p] \in Progs,
            utype'[p] \in Collecting => pc'[p] \in Collects,
            utype'[p] = "Kproc" <=> utype[p] = "Kproc"
     PROVE  WorkInv'
  <2> USE <1>WorkStep
  <2> SUFFICES ASSUME NEW q \in Procs
               PROVE  /\ pc'[q] \in {"xec", "exit"} => cur'[q] \in Progs
                      /\ utype'[q] \in Collecting => pc'[q] \in Collects
                      /\ utype'[q] = "Kproc" <=> q \in Kprocs
    BY DEF WorkInv
  <2>1. CASE q = p BY <2>1 DEF WorkInv
  <2>2. CASE q # p BY <2>2 DEF WorkInv
  <2> QED BY <2>1, <2>2

(* A step of one thread that moves no Prog.                                *)
<1>Quiet.
     ASSUME IInv, AccInv, NEW p \in Procs, NEW l \in Labels, pc' = [pc EXCEPT ![p] = l],
            UNCHANGED <<runq, iprog, pstate, utype>>,
            \A q \in Procs \ {p} : cur'[q] = cur[q],
            l \in Working <=> pc[p] \in Working,
            utype[p] = "Interp" => (l \in Out <=> pc[p] \in Out),
            pc[p] \in Collects => l \in Collects,
            l \in {"xec", "exit"} => cur'[p] \in Progs
     PROVE  AccInv'
  <2> USE <1>Quiet
  <2>1. pc \in [Procs -> Labels] BY Parts
  <2>2. pc'[p] = l /\ \A q \in Procs \ {p} : pc'[q] = pc[q] BY <2>1
  <2>3. RunqInv'
    <3>1. \A q \in Procs : pc'[q] \in Working <=> pc[q] \in Working BY <2>2
    <3>2. Distinct(runq') /\ Elements(runq') = Elements(runq) BY DEF AccInv, RunqInv
    <3> QED BY <3>1, <3>2, <1>RunqSame DEF AccInv
  <2>4. HeldInv'
    <3>1. \A q \in Procs : utype'[q] = "Interp" /\ pc'[q] \in Out
                             <=> utype[q] = "Interp" /\ pc[q] \in Out
      BY <2>2
    <3> QED BY <3>1, <1>HeldSame DEF AccInv
  <2>5. WorkInv'
    <3>1. utype[p] \in Collecting => l \in Collects BY DEF AccInv, WorkInv
    <3> QED BY <2>2, <3>1, <1>WorkStep DEF AccInv
  <2> QED BY <2>3, <2>4, <2>5 DEF AccInv

(* What is at the front of the run queue when a thread that is not at work *)
(* for itself has the machine is a Dis Prog.                               *)
<1>HeadProg.
     ASSUME IInv, RunqInv, NEW p \in Procs, HasToken(p), pc[p] \notin Working, runq # <<>>
     PROVE  Head(runq) \in Progs
  <2> USE <1>HeadProg
  <2>1. TokenInv /\ runq \in Seq(Progs \cup Procs) /\ Distinct(runq) BY Parts DEF RunqInv
  <2>2. Head(runq) \in Elements(runq) /\ Head(runq) \in Progs \cup Procs BY <2>1, Popped
  <2>3. ASSUME Head(runq) \in Procs PROVE FALSE
    <3>1. PICK q \in Procs : q = Head(runq) BY <2>3
    <3>2. pc[q] \in Working BY <2>2, <3>1 DEF RunqInv
    <3>3. pc[q] \in InVM BY <3>2 DEF Working, InVM
    <3>4. q = p BY <2>1, <3>3, OnlyOwner
    <3> QED BY <3>2, <3>4
  <2> QED BY <2>2, <2>3

(* acquire puts the Prog that the thread carries on the run queue.         *)
<1>EnterAcc.
     ASSUME IInv, AccInv, NEW p \in Procs, pc[p] \in {"released", "acqblock"}, Enter(p)
     PROVE  AccInv'
  <2> USE <1>EnterAcc
  <2>1. /\ pc \in [Procs -> Labels] /\ runq \in Seq(Progs \cup Procs) /\ Distinct(runq)
        /\ iprog \in [Procs -> Progs \cup {None}] /\ pstate \in [Progs -> States]
        /\ utype \in [Procs -> Types] /\ CarryInv
    BY Parts DEF AccInv, RunqInv, HeldInv, DataType
  <2>2. /\ runq' = <<Carried(p)>> \o runq /\ iprog' = [iprog EXCEPT ![p] = None]
        /\ pc' = [pc EXCEPT ![p] = Back(p)] /\ Mark(Carried(p), "Pready")
        /\ UNCHANGED <<utype, cur>>
    BY DEF Enter, Goto, Set, PushCarried, local
  <2>3. pc'[p] = Back(p) /\ \A q \in Procs \ {p} : pc'[q] = pc[q] BY <2>1, <2>2
  <2>4. pc[p] \in Out /\ pc[p] \notin Working BY DEF Out, Working
  <2>5. Back(p) \notin Out BY DEF Back, Out
  <2>6. None \notin Progs /\ Progs \cap Procs = {} BY IschedAssumption
  <2>7. CASE utype[p] = "Interp"
    <3>1. PICK x \in Progs : iprog[p] = x /\ cur[p] = x
      <4>1. iprog[p] = cur[p] /\ iprog[p] # None BY <2>1, <2>7 DEF CarryInv
      <4> QED BY <2>1, <4>1
    <3>2. Carried(p) = x /\ Back(p) \in {"exit", "xec"} BY <2>7, <3>1 DEF Carried, Back, Collecting
    <3>3. pstate' = [pstate EXCEPT ![x] = "Pready"] BY <2>2, <3>2 DEF Mark, Set
    <3>4. pstate[x] = "Prelease" BY <3>1 DEF AccInv, HeldInv
    <3>5. pstate'[x] = "Pready" /\ \A y \in Progs \ {x} : pstate'[y] = pstate[y] BY <2>1, <3>3
    <3>6. RunqInv'
      <4>1. x \notin Elements(runq) BY <3>4 DEF AccInv, RunqInv
      <4>2. Elements(<<x>> \o runq) = Elements(runq) \cup {x} /\ Distinct(<<x>> \o runq)
        BY SMTT(30), <2>1, <4>1, <1>Pushed
      <4>3. Elements(runq') = Elements(runq) \cup {x} /\ Distinct(runq') BY <2>2, <3>2, <4>2
      <4>4. \A q \in Procs : pc'[q] \in Working <=> pc[q] \in Working
        BY <2>3, <2>4, <3>2 DEF Working
      <4>5. x \notin Procs BY <2>6
      <4> QED BY <3>5, <4>3, <4>4, <4>5, <1>RunqIn DEF AccInv
    <3>7. HeldInv'
      <4>1. iprog'[p] = None /\ \A q \in Procs \ {p} : iprog'[q] = iprog[q] BY <2>1, <2>2
      <4>2. iprog' \in [Procs -> Progs \cup {None}] BY <2>1, <2>2
      <4>3. ASSUME NEW y \in Progs PROVE pstate'[y] = "Prelease" <=> \E q \in Procs : iprog'[q] = y
        <5>1. CASE y = x
          <6>1. \A q \in Procs \ {p} : iprog[q] # x BY SMT, <2>6, <3>1 DEF AccInv, HeldInv
          <6> QED BY <2>6, <3>5, <4>1, <5>1, <6>1
        <5>2. CASE y # x
          <6>1. pstate[y] = "Prelease" <=> \E q \in Procs : iprog[q] = y BY DEF AccInv, HeldInv
          <6> QED BY <2>6, <3>1, <3>5, <4>1, <5>2, <6>1
        <5> QED BY <5>1, <5>2
      <4>4. \A q, r \in Procs : iprog'[q] = iprog'[r] /\ iprog'[q] # None => q = r
        BY SMTT(30), <4>1 DEF AccInv, HeldInv
      <4>5. \A q \in Procs : iprog'[q] # None <=> utype'[q] = "Interp" /\ pc'[q] \in Out
        BY SMTT(30), <2>2, <2>3, <2>5, <4>1 DEF AccInv, HeldInv
      <4> QED BY <4>2, <4>3, <4>4, <4>5 DEF HeldInv
    <3>8. WorkInv'
      <4>1. utype[p] \notin Collecting /\ cur'[p] \in Progs BY <2>2, <2>7, <3>1 DEF Collecting
      <4> QED BY <2>2, <2>3, <4>1, <1>WorkStep DEF AccInv
    <3> QED BY <3>6, <3>7, <3>8 DEF AccInv
  <2>8. CASE utype[p] # "Interp"
    <3>1. Carried(p) = p /\ Back(p) \in {"kwork", "finalized"}
      BY <2>1, <2>8 DEF Carried, Back, Types
    <3>2. pstate' = pstate BY <2>2, <2>6, <3>1 DEF Mark
    <3>3. iprog' = iprog
      <4>1. iprog[p] = None BY <2>8 DEF AccInv, HeldInv
      <4> QED BY <2>1, <2>2, <4>1
    <3>4. RunqInv'
      <4>1. p \notin Elements(runq) BY <2>4 DEF AccInv, RunqInv
      <4>2. p \in Progs \cup Procs BY SMT
      <4>3. Elements(<<p>> \o runq) = Elements(runq) \cup {p} /\ Distinct(<<p>> \o runq)
        BY <2>1, <4>1, <4>2, <1>Pushed
      <4>4. Elements(runq') = Elements(runq) \cup {p} /\ Distinct(runq') BY <2>2, <3>1, <4>3
      <4>5. pc'[p] \in Working BY <2>3, <3>1 DEF Working
      <4>6. p \notin Progs BY <2>6
      <4> QED BY <2>3, <3>2, <4>4, <4>5, <4>6, <1>RunqIn DEF AccInv
    <3>5. HeldInv'
      <4>1. \A q \in Procs : utype'[q] = "Interp" /\ pc'[q] \in Out
                               <=> utype[q] = "Interp" /\ pc[q] \in Out
        BY <2>2, <2>3, <2>8
      <4> QED BY <3>2, <3>3, <4>1, <1>HeldSame DEF AccInv
    <3>6. WorkInv'
      <4>1. pc'[p] \notin {"xec", "exit"} BY <2>3, <3>1
      <4>2. utype[p] \in Collecting => pc'[p] \in Collects
        BY <2>3 DEF Back, Collects, Collecting
      <4> QED BY <2>2, <2>3, <4>1, <4>2, <1>WorkStep DEF AccInv
    <3> QED BY <3>4, <3>5, <3>6 DEF AccInv
  <2> QED BY <2>7, <2>8

(* release takes the first of the run queue out: the Prog the interpreter  *)
(* was running, or the thread's own.                                       *)
<1>ReleaseAcc.
     ASSUME IInv, AccInv, NEW p \in Procs, pc[p] \in {"xec", "idlegc", "busygc", "kwork"},
            Release(p)
     PROVE  AccInv'
  <2> USE <1>ReleaseAcc
  <2>1. /\ pc \in [Procs -> Labels] /\ runq \in Seq(Progs \cup Procs) /\ Distinct(runq)
        /\ iprog \in [Procs -> Progs \cup {None}] /\ pstate \in [Progs -> States]
        /\ utype \in [Procs -> Types] /\ CarryInv /\ ReleaseTakesOwn
    BY Parts DEF AccInv, RunqInv, HeldInv, DataType
  <2>2. PICK l \in {"relkproc", "released", "relready"} : pc' = [pc EXCEPT ![p] = l]
    BY DEF Release, Goto, AfterIdling
  <2>3. /\ runq' = Tail(runq) /\ Mark(Head(runq), "Prelease") /\ UNCHANGED <<utype, cur>>
        /\ iprog' = IF utype[p] = "Interp" THEN [iprog EXCEPT ![p] = Head(runq)] ELSE iprog
    BY DEF Release, Set
  <2>4. pc'[p] = l /\ \A q \in Procs \ {p} : pc'[q] = pc[q] BY <2>1, <2>2
  <2>5. l \in Out /\ l \notin Working /\ l \in Collects /\ l \notin {"xec", "exit"}
    BY DEF Out, Working, Collects
  <2>6. runq # <<>> BY <2>1 DEF ReleaseTakesOwn
  <2>7. /\ Head(runq) \in Elements(runq)
        /\ Elements(runq') = Elements(runq) \ {Head(runq)} /\ Distinct(runq')
    BY <2>1, <2>3, <2>6, Popped
  <2>8. None \notin Progs /\ Progs \cap Procs = {} BY IschedAssumption
  <2>9. WorkInv' BY <2>3, <2>4, <2>5, <1>WorkStep DEF AccInv
  <2>10. CASE pc[p] = "xec"
    <3>1. PICK x \in Progs : Head(runq) = x
      BY <2>1, <2>10 DEF AccInv, WorkInv, ReleaseTakesOwn
    <3>2. utype[p] = "Interp"
      <4>1. "xec" \notin Collects /\ "xec" \notin KprocLabels BY DEF Collects, Out, KprocLabels
      <4>2. utype[p] \notin Collecting BY <2>10, <4>1 DEF AccInv, WorkInv
      <4>3. p \notin Kprocs BY <2>1, <2>10, <4>1 DEF CarryInv
      <4>4. utype[p] # "Kproc" BY <4>3 DEF AccInv, WorkInv
      <4> QED BY <2>1, <4>2, <4>4 DEF Types
    <3>3. pstate' = [pstate EXCEPT ![x] = "Prelease"] /\ iprog' = [iprog EXCEPT ![p] = x]
      BY <2>3, <3>1, <3>2 DEF Mark, Set
    <3>4. pstate'[x] = "Prelease" /\ \A y \in Progs \ {x} : pstate'[y] = pstate[y] BY <2>1, <3>3
    <3>5. pstate[x] = "Pready" BY <2>7, <3>1 DEF AccInv, RunqInv
    <3>6. RunqInv'
      <4>1. \A q \in Procs : pc'[q] \in Working <=> pc[q] \in Working
        BY <2>4, <2>5, <2>10 DEF Working
      <4>2. x \notin Procs BY <2>8
      <4> QED BY <2>7, <3>1, <3>4, <4>1, <4>2, <1>RunqOut DEF AccInv
    <3>7. HeldInv'
      <4>1. iprog'[p] = x /\ \A q \in Procs \ {p} : iprog'[q] = iprog[q] BY <2>1, <3>3
      <4>2. iprog' \in [Procs -> Progs \cup {None}] BY <2>1, <3>3
      <4>3. iprog[p] = None BY <2>10 DEF AccInv, HeldInv, Out
      <4>4. \A q \in Procs : iprog[q] # x BY <3>5 DEF AccInv, HeldInv
      <4>5. ASSUME NEW y \in Progs PROVE pstate'[y] = "Prelease" <=> \E q \in Procs : iprog'[q] = y
        <5>1. CASE y = x BY <3>4, <4>1, <5>1
        <5>2. CASE y # x
          <6>1. pstate[y] = "Prelease" <=> \E q \in Procs : iprog[q] = y BY DEF AccInv, HeldInv
          <6> QED BY <2>8, <3>4, <4>1, <4>3, <5>2, <6>1
        <5> QED BY <5>1, <5>2
      <4>6. \A q, r \in Procs : iprog'[q] = iprog'[r] /\ iprog'[q] # None => q = r
        BY SMTT(30), <4>1, <4>4 DEF AccInv, HeldInv
      <4>7. \A q \in Procs : iprog'[q] # None <=> utype'[q] = "Interp" /\ pc'[q] \in Out
        BY SMTT(30), <2>3, <2>4, <2>5, <2>8, <3>2, <4>1 DEF AccInv, HeldInv
      <4> QED BY <4>2, <4>5, <4>6, <4>7 DEF HeldInv
    <3> QED BY <2>9, <3>6, <3>7 DEF AccInv
  <2>11. CASE pc[p] # "xec"
    <3>1. Head(runq) = p /\ utype[p] # "Interp"
      BY <2>1, <2>11 DEF ReleaseTakesOwn, CarryInv, Collecting
    <3>2. pstate' = pstate /\ iprog' = iprog BY <2>3, <2>8, <3>1 DEF Mark
    <3>3. RunqInv' BY <2>4, <2>5, <2>7, <2>8, <3>1, <3>2, <1>RunqOut DEF AccInv
    <3>4. HeldInv'
      <4>1. \A q \in Procs : utype'[q] = "Interp" /\ pc'[q] \in Out
                               <=> utype[q] = "Interp" /\ pc[q] \in Out
        BY <2>3, <2>4, <3>1
      <4> QED BY <3>2, <4>1, <1>HeldSame DEF AccInv
    <3> QED BY <2>9, <3>3, <3>4 DEF AccInv
  <2> QED BY <2>10, <2>11

(* The running Prog leaves the run queue for good or until it is made      *)
(* ready: it blocks, breaks or has exited.                                 *)
<1>LeaveAcc.
     ASSUME IInv, AccInv, NEW p \in Procs, pc[p] \in {"xec", "exit"},
            NEW l \in {"gc", "loop", "cleanexit"}, pc' = [pc EXCEPT ![p] = l],
            NEW st \in {"Pblocked", "Pbroken", "none"}, Mark(cur[p], st),
            runq' = Tail(runq), cur' = [cur EXCEPT ![p] = None], UNCHANGED <<utype, iprog>>
     PROVE  AccInv'
  <2> USE <1>LeaveAcc
  <2>1. /\ pc \in [Procs -> Labels] /\ runq \in Seq(Progs \cup Procs) /\ Distinct(runq)
        /\ pstate \in [Progs -> States] /\ ReleaseTakesOwn
        /\ cur \in [Procs -> Progs \cup Procs \cup {None}]
    BY Parts DEF AccInv, RunqInv, DataType
  <2>2. pc'[p] = l /\ \A q \in Procs \ {p} : pc'[q] = pc[q] /\ cur'[q] = cur[q] BY <2>1
  <2>3. PICK x \in Progs : x = cur[p] BY DEF AccInv, WorkInv
  <2>4. runq # <<>> /\ Head(runq) = x BY <2>1, <2>3 DEF ReleaseTakesOwn
  <2>5. x \in Elements(runq) /\ Elements(runq') = Elements(runq) \ {x} /\ Distinct(runq')
    BY <2>1, <2>4, Popped
  <2>6. pstate' = [pstate EXCEPT ![x] = st] BY <2>3 DEF Mark, Set
  <2>7. pstate'[x] = st /\ \A y \in Progs \ {x} : pstate'[y] = pstate[y] BY <2>1, <2>6
  <2>8. pstate[x] = "Pready" BY <2>5 DEF AccInv, RunqInv
  <2>9. RunqInv'
    <3>1. \A q \in Procs : pc'[q] \in Working <=> pc[q] \in Working BY <2>2 DEF Working
    <3>2. x \notin Procs BY IschedAssumption
    <3> QED BY <2>5, <2>7, <3>1, <3>2, <1>RunqOut DEF AccInv
  <2>10. HeldInv'
    <3>1. \A q \in Procs : pc'[q] \in Out <=> pc[q] \in Out BY <2>2 DEF Out
    <3>2. \A y \in Progs : pstate'[y] = "Prelease" <=> pstate[y] = "Prelease" BY <2>7, <2>8
    <3> QED BY <3>1, <3>2, <1>HeldSame DEF AccInv
  <2>11. WorkInv'
    <3>1. utype[p] \notin Collecting BY DEF AccInv, WorkInv, Collects, Out
    <3> QED BY <2>2, <3>1, <1>WorkStep DEF AccInv
  <2> QED BY <2>9, <2>10, <2>11 DEF AccInv

(* An interpreter's own Prog, standing for the collector, joins the run    *)
(* queue, at either end.                                                   *)
<1>CollectAcc.
     ASSUME IInv, AccInv, NEW p \in Procs, pc[p] \in {"loop", "gc"},
            NEW l \in {"idlegc", "busygc"}, pc' = [pc EXCEPT ![p] = l],
            NEW t \in Collecting, utype' = [utype EXCEPT ![p] = t],
            runq' = <<p>> \o runq \/ runq' = Append(runq, p),
            UNCHANGED <<cur, iprog, pstate>>
     PROVE  AccInv'
  <2> USE <1>CollectAcc
  <2>1. /\ pc \in [Procs -> Labels] /\ runq \in Seq(Progs \cup Procs) /\ Distinct(runq)
        /\ utype \in [Procs -> Types] /\ CarryInv
    BY Parts DEF AccInv, RunqInv, DataType
  <2>2. /\ pc'[p] = l /\ \A q \in Procs \ {p} : pc'[q] = pc[q]
        /\ utype'[p] = t /\ \A q \in Procs \ {p} : utype'[q] = utype[q]
    BY <2>1
  <2>3. p \notin Elements(runq) BY DEF AccInv, RunqInv, Working
  <2>4. p \in Progs \cup Procs BY SMT
  <2>5. Elements(runq') = Elements(runq) \cup {p} /\ Distinct(runq')
    <3>1. Elements(<<p>> \o runq) = Elements(runq) \cup {p} /\ Distinct(<<p>> \o runq)
      BY <2>1, <2>3, <2>4, <1>Pushed
    <3>2. Elements(Append(runq, p)) = Elements(runq) \cup {p} /\ Distinct(Append(runq, p))
      BY <2>1, <2>3, <2>4, <1>Appended
    <3> QED BY <3>1, <3>2
  <2>6. RunqInv'
    <3>1. p \notin Progs BY IschedAssumption
    <3>2. pc'[p] \in Working BY <2>2 DEF Working
    <3> QED BY <2>2, <2>5, <3>1, <3>2, <1>RunqIn DEF AccInv
  <2>7. HeldInv'
    <3>1. pc[p] \notin Out /\ pc'[p] \notin Out BY <2>2 DEF Out
    <3> QED BY <2>2, <3>1, <1>HeldSame DEF AccInv
  <2>8. WorkInv'
    <3>1. t # "Kproc" /\ pc'[p] \in Collects BY <2>2 DEF Collecting, Collects
    <3>2. p \notin Kprocs BY <2>1 DEF CarryInv, KprocLabels
    <3>3. utype[p] # "Kproc" BY <3>2 DEF AccInv, WorkInv
    <3> QED BY <2>2, <3>1, <3>3, <1>WorkStep DEF AccInv
  <2> QED BY <2>6, <2>7, <2>8 DEF AccInv

(* delrunq of the Prog at the front is Tail.                               *)
<1>DelrunqTail.
     ASSUME NEW p \in Procs, runq \in Seq(Progs \cup Procs), runq # <<>>, Head(runq) = p
     PROVE  delrunq(p) = Tail(runq)
  <2> USE <1>DelrunqTail
  <2>1. Len(runq) \in Nat /\ Len(runq) >= 1 /\ runq[1] = p /\ DOMAIN runq = 1..Len(runq)
    BY SMT, PopFacts
  <2> DEFINE f == CHOOSE i \in DOMAIN runq : runq[i] = p /\ \A j \in 1..(i-1) : runq[j] # p
  <2>2. \E i \in DOMAIN runq : runq[i] = p /\ \A j \in 1..(i-1) : runq[j] # p
    <3>1. 1 \in DOMAIN runq /\ \A j \in 1..(1-1) : FALSE BY SMT, <2>1
    <3> QED BY <2>1, <3>1
  <2>3. f \in DOMAIN runq /\ \A j \in 1..(f-1) : runq[j] # p BY <2>2
  <2>4. delrunq(p) = [j \in 1..(Len(runq) - 1) |-> IF j < f THEN runq[j] ELSE runq[j + 1]]
    BY SMT, <2>1 DEF delrunq
  <2> HIDE DEF f
  <2>5. f = 1
    <3>1. f \in Nat /\ f >= 1 BY SMT, <2>1, <2>3
    <3>2. ASSUME f # 1 PROVE FALSE
      <4>1. 1 \in 1..(f-1) BY SMTT(30), <3>1, <3>2
      <4> QED BY <2>1, <2>3, <4>1
    <3> QED BY <3>2
  <2>6. delrunq(p) = [j \in 1..(Len(runq) - 1) |-> runq[j + 1]] BY SMT, <2>4, <2>5
  <2>7. /\ Tail(runq) \in Seq(Progs \cup Procs) /\ Len(Tail(runq)) = Len(runq) - 1
        /\ \A i \in 1..Len(Tail(runq)) : Tail(runq)[i] = runq[i + 1]
    BY PopFacts
  <2>8. Tail(runq) \in [1..(Len(runq) - 1) -> Progs \cup Procs]
    <3>1. ASSUME NEW t \in Seq(Progs \cup Procs) PROVE t \in [1..Len(t) -> Progs \cup Procs]
      BY SMT
    <3>2. Tail(runq) \in [1..Len(Tail(runq)) -> Progs \cup Procs] BY <2>7, <3>1
    <3> QED BY <2>7, <3>2
  <2>9. delrunq(p) \in [1..(Len(runq) - 1) -> Progs \cup Procs]
    <3>1. \A j \in 1..(Len(runq) - 1) : runq[j + 1] \in Progs \cup Procs BY SMT, <2>1
    <3> QED BY <2>6, <3>1
  <2>10. \A j \in 1..(Len(runq) - 1) : delrunq(p)[j] = Tail(runq)[j] BY <2>6, <2>7
  <2> QED BY SMTT(30), <2>8, <2>9, <2>10

(* The collector's Prog leaves the run queue.                              *)
<1>EndGCAcc.
     ASSUME IInv, AccInv, NEW p \in Procs, EndGC(p)
     PROVE  AccInv'
  <2> USE <1>EndGCAcc
  <2>1. /\ pc \in [Procs -> Labels] /\ runq \in Seq(Progs \cup Procs) /\ Distinct(runq)
        /\ utype \in [Procs -> Types] /\ CarryInv /\ ReleaseTakesOwn
    BY Parts DEF AccInv, RunqInv, DataType
  <2>2. PICK l \in {"sleep", "loop"} : pc' = [pc EXCEPT ![p] = l] BY DEF EndGC, Goto
  <2>3. /\ pc[p] \in {"idlegc", "busygc"} /\ runq' = delrunq(p) /\ utype' = [utype EXCEPT ![p] = "Interp"]
        /\ UNCHANGED <<cur, iprog, pstate>>
    BY DEF EndGC, Set
  <2>4. /\ pc'[p] = l /\ \A q \in Procs \ {p} : pc'[q] = pc[q]
        /\ utype'[p] = "Interp" /\ \A q \in Procs \ {p} : utype'[q] = utype[q]
    BY <2>1, <2>2, <2>3 DEF Types
  <2>5. runq # <<>> /\ Head(runq) = p BY <2>1, <2>3 DEF ReleaseTakesOwn
  <2>6. runq' = Tail(runq) BY <2>1, <2>3, <2>5, <1>DelrunqTail
  <2>7. Elements(runq') = Elements(runq) \ {p} /\ Distinct(runq') BY <2>1, <2>5, <2>6, Popped
  <2>8. RunqInv'
    <3>1. p \notin Progs BY IschedAssumption
    <3>2. pc'[p] \notin Working BY <2>4 DEF Working
    <3> QED BY <2>3, <2>4, <2>7, <3>1, <3>2, <1>RunqOut DEF AccInv
  <2>9. HeldInv'
    <3>1. pc[p] \notin Out /\ pc'[p] \notin Out BY <2>3, <2>4 DEF Out
    <3> QED BY <2>3, <2>4, <3>1, <1>HeldSame DEF AccInv
  <2>10. WorkInv'
    <3>1. utype'[p] \notin Collecting /\ utype[p] # "Kproc"
      BY <2>1, <2>3, <2>4 DEF Collecting, CarryInv
    <3> QED BY <2>3, <2>4, <3>1, <1>WorkStep DEF AccInv
  <2> QED BY <2>8, <2>9, <2>10 DEF AccInv

(* The slice ends: the Prog moves to the back.                             *)
<1>EndSliceAcc.
     ASSUME IInv, AccInv, NEW p \in Procs, EndSlice(p)
     PROVE  AccInv'
  <2> USE <1>EndSliceAcc
  <2>1. /\ pc \in [Procs -> Labels] /\ runq \in Seq(Progs \cup Procs) /\ Distinct(runq)
        /\ cur \in [Procs -> Progs \cup Procs \cup {None}]
    BY Parts DEF AccInv, RunqInv, DataType
  <2>2. /\ pc[p] = "xec" /\ (runq' = runq \/ (runq # <<>> /\ runq' = Rotate(runq)))
        /\ cur' = [cur EXCEPT ![p] = None] /\ pc' = [pc EXCEPT ![p] = "gc"]
        /\ UNCHANGED <<utype, iprog, pstate>>
    BY DEF EndSlice, Goto, Set
  <2>3. pc'[p] = "gc" /\ \A q \in Procs \ {p} : pc'[q] = pc[q] /\ cur'[q] = cur[q]
    BY <2>1, <2>2
  <2>4. Distinct(runq') /\ Elements(runq') = Elements(runq) BY <2>1, <2>2, <1>Rotated
  <2>5. \A q \in Procs : (pc'[q] \in Working <=> pc[q] \in Working) /\ (pc'[q] \in Out <=> pc[q] \in Out)
    BY <2>2, <2>3 DEF Working, Out
  <2>6. RunqInv' BY <2>2, <2>4, <2>5, <1>RunqSame DEF AccInv
  <2>7. HeldInv' BY <2>2, <2>5, <1>HeldSame DEF AccInv
  <2>8. WorkInv'
    <3>1. utype[p] \notin Collecting BY <2>2 DEF AccInv, WorkInv, Collects, Out
    <3> QED BY <2>2, <2>3, <3>1, <1>WorkStep DEF AccInv
  <2> QED BY <2>6, <2>7, <2>8 DEF AccInv

(* addrun and newprog: the Prog was on no list.                            *)
<1>AddrunAcc.
     ASSUME IInv, AccInv, NEW p \in Procs, NEW x \in Progs, Addrun(p, x)
     PROVE  AccInv'
  <2> USE <1>AddrunAcc
  <2>1. /\ runq \in Seq(Progs \cup Procs) /\ Distinct(runq) /\ pstate \in [Progs -> States]
    BY Parts DEF AccInv, RunqInv, DataType
  <2>2. /\ pstate[x] \in {"Pblocked", "none"} /\ runq' = Append(runq, x)
        /\ pstate' = [pstate EXCEPT ![x] = "Pready"] /\ UNCHANGED <<pc, utype, cur, iprog>>
    BY DEF Addrun, Mark, Set, local
  <2>3. pstate'[x] = "Pready" /\ \A y \in Progs \ {x} : pstate'[y] = pstate[y] BY <2>1, <2>2
  <2>4. x \notin Elements(runq) BY <2>2 DEF AccInv, RunqInv
  <2>5. x \in Progs \cup Procs BY SMT
  <2>6. Elements(runq') = Elements(runq) \cup {x} /\ Distinct(runq')
    BY SMTT(30), <2>1, <2>2, <2>4, <2>5, <1>Appended
  <2>7. RunqInv'
    <3>1. x \notin Procs BY IschedAssumption
    <3> QED BY <2>2, <2>3, <2>6, <3>1, <1>RunqIn DEF AccInv
  <2>8. HeldInv'
    <3>1. \A y \in Progs : pstate'[y] = "Prelease" <=> pstate[y] = "Prelease" BY <2>2, <2>3
    <3> QED BY <2>2, <3>1, <1>HeldSame DEF AccInv
  <2>9. WorkInv' BY <2>2 DEF AccInv, WorkInv
  <2> QED BY <2>7, <2>8, <2>9 DEF AccInv

(* What a thread does inside the machine.                                  *)
<1>InsideAcc.
     ASSUME IInv, AccInv, NEW p \in Procs,
            \/ ExecAtIdle(p) \/ EndFinalize(p) \/ EndGC(p) \/ Run(p) \/ EndSlice(p)
            \/ Delprog(p) \/ BusyGC(p) \/ Block(p) \/ Exception(p) \/ Broken(p)
            \/ \E x \in Progs : Addrun(p, x)
     PROVE  AccInv'
  <2> USE <1>InsideAcc
  <2>1. /\ pc \in [Procs -> Labels] /\ cur \in [Procs -> Progs \cup Procs \cup {None}]
        /\ ReleaseTakesOwn /\ DataType
    BY Parts DEF DataType
  <2>2. {"loop", "gc", "xec", "idlegc", "busygc", "cleanexit"} \subseteq Labels BY DEF Labels, InVM
  <2>3. CASE ExecAtIdle(p)
    <3>1. /\ pc[p] = "loop" /\ runq' = Append(runq, p) /\ pc' = [pc EXCEPT ![p] = "idlegc"]
          /\ utype' = [utype EXCEPT ![p] = "IdleGC"] /\ UNCHANGED <<cur, iprog, pstate>>
      BY <2>3 DEF ExecAtIdle, Goto, Set
    <3>2. "IdleGC" \in Collecting BY DEF Collecting
    <3> QED BY <3>1, <3>2, <1>CollectAcc
  <2>4. CASE BusyGC(p)
    <3>1. pc[p] = "gc" /\ UNCHANGED <<cur, iprog, pstate>> BY <2>4 DEF BusyGC
    <3>2. CASE pc' = [pc EXCEPT ![p] = "loop"] /\ UNCHANGED <<runq, utype>>
      <4>1. pc[p] \notin Working \cup Out \cup Collects \cup {"xec", "exit"}
            /\ "loop" \notin Working \cup Out
        BY <3>1 DEF Working, Out, Collects
      <4> QED BY <2>2, <3>1, <3>2, <4>1, <1>Quiet
    <3>3. CASE /\ utype' = [utype EXCEPT ![p] = "BusyGC"] /\ runq' = <<p>> \o runq
               /\ pc' = [pc EXCEPT ![p] = "busygc"]
      <4>1. "BusyGC" \in Collecting BY DEF Collecting
      <4> QED BY <3>1, <3>3, <4>1, <1>CollectAcc
    <3> QED BY <2>4, <3>2, <3>3 DEF BusyGC, Goto, Set
  <2>5. CASE EndFinalize(p)
    <3>1. PICK l \in {"idlegc", "busygc"} : pc' = [pc EXCEPT ![p] = l]
      BY <2>5 DEF EndFinalize, Goto
    <3>2. pc[p] = "finalized" /\ UNCHANGED <<runq, iprog, pstate, utype, cur>>
      BY <2>5 DEF EndFinalize, progs
    <3>3. /\ pc[p] \in Working /\ l \in Working /\ pc[p] \notin Out /\ l \notin Out /\ l \in Collects
          /\ l \notin {"xec", "exit"} /\ l \in Labels
      BY <2>2, <3>2 DEF Working, Out, Collects
    <3> QED BY <3>1, <3>2, <3>3, <1>Quiet
  <2>6. CASE Run(p)
    <3>1. pc[p] = "loop" /\ RunHead(p) /\ UNCHANGED <<runq, iprog, pstate, utype>>
      BY <2>6 DEF Run, progs
    <3>2. /\ pc[p] \notin Working \cup Out \cup Collects /\ HasToken(p)
          /\ "gc" \notin Working \cup Out /\ "xec" \notin Working \cup Out
      BY <3>1 DEF Working, Out, Collects, HasToken, InVM
    <3>3. CASE runq = <<>>
      <4>1. pc' = [pc EXCEPT ![p] = "gc"] /\ UNCHANGED cur BY <3>1, <3>3 DEF RunHead, Goto
      <4> QED BY <2>2, <3>1, <3>2, <4>1, <1>Quiet
    <3>4. CASE runq # <<>>
      <4>1. pc' = [pc EXCEPT ![p] = "xec"] /\ cur' = [cur EXCEPT ![p] = Head(runq)]
        BY <3>1, <3>4 DEF RunHead, Goto, Set
      <4>2. Head(runq) \in Progs BY <3>2, <3>4, <1>HeadProg DEF AccInv
      <4>3. cur'[p] \in Progs /\ \A q \in Procs \ {p} : cur'[q] = cur[q] BY <2>1, <4>1, <4>2
      <4> QED BY <2>2, <3>1, <3>2, <4>1, <4>3, <1>Quiet
    <3> QED BY <3>3, <3>4
  <2>7. CASE Exception(p)
    <3>1. /\ pc[p] = "xec" /\ cur' = [cur EXCEPT ![p] = None] /\ pc' = [pc EXCEPT ![p] = "loop"]
          /\ UNCHANGED <<runq, iprog, pstate, utype>>
      BY <2>7 DEF Exception, Goto, Set, progs
    <3>2. /\ pc[p] \notin Working \cup Out \cup Collects
          /\ "loop" \notin Working \cup Out
      BY <3>1 DEF Working, Out, Collects
    <3>3. \A q \in Procs \ {p} : cur'[q] = cur[q] BY <2>1, <3>1
    <3> QED BY <2>2, <3>1, <3>2, <3>3, <1>Quiet
  <2>8. CASE Block(p) \/ Broken(p)
    <3>1. /\ pc[p] = "xec" /\ runq' = Tail(runq) /\ cur' = [cur EXCEPT ![p] = None]
          /\ UNCHANGED <<utype, iprog>>
          /\ \E st \in {"Pblocked", "Pbroken"} : Mark(Head(runq), st)
      BY <2>8 DEF Block, Broken, Set
    <3>2. Head(runq) = cur[p] BY <2>1, <3>1 DEF ReleaseTakesOwn
    <3>3. \E l \in {"gc", "loop"} : pc' = [pc EXCEPT ![p] = l] BY <2>8 DEF Block, Broken, Goto
    <3>4. \E st \in {"Pblocked", "Pbroken"} : Mark(cur[p], st) BY <3>1, <3>2
    <3> QED BY <3>1, <3>3, <3>4, <1>LeaveAcc
  <2>9. CASE Delprog(p)
    <3>1. PICK l \in {"cleanexit", "loop"} : pc' = [pc EXCEPT ![p] = l]
      BY <2>9 DEF Delprog, Goto
    <3>2. /\ pc[p] = "exit" /\ Mark(cur[p], "none") /\ cur' = [cur EXCEPT ![p] = None]
          /\ UNCHANGED <<utype, iprog>>
          /\ runq' = IF runq # <<>> /\ Head(runq) = cur[p] THEN Tail(runq) ELSE runq
      BY <2>9 DEF Delprog, Set
    <3>3. runq' = Tail(runq) BY <2>1, <3>2 DEF ReleaseTakesOwn
    <3> QED BY <3>1, <3>2, <3>3, <1>LeaveAcc
  <2> QED BY <2>3, <2>4, <2>5, <2>6, <2>7, <2>8, <2>9, <1>EndGCAcc, <1>EndSliceAcc, <1>AddrunAcc

(* The threads that come to the machine or pass it on.                     *)
<1>HandoffAcc.
     ASSUME IInv, AccInv, NEW p \in Procs,
            \/ AcquireWake(p) \/ AcquireGo(p) \/ ReleaseReady(p) \/ Return(p)
            \/ Startup(p) \/ StartupGo(p) \/ IdleSleep(p) \/ IdleWoken(p)
            \/ Yield(p) \/ YieldReady(p) \/ YieldGo(p)
            \/ \E n \in Interps : ReleaseKproc(p, n)
            \/ \E k \in Kprocs : Rptproc(p, k)
     PROVE  AccInv'
  <2> USE <1>HandoffAcc
  <2>1. /\ pc \in [Procs -> Labels] /\ cur \in [Procs -> Progs \cup Procs \cup {None}] /\ CarryInv
    BY Parts DEF DataType
  <2>2. CASE AcquireGo(p) \/ (Return(p) /\ idle)
    <3>1. Enter(p) /\ pc[p] \in {"released", "acqblock"} BY <2>2 DEF AcquireGo, Return, Acquire
    <3> QED BY <3>1, <1>EnterAcc
  <2>3. CASE AcquireWake(p) \/ ReleaseReady(p) \/ (Return(p) /\ ~idle)
    <3>1. /\ pc[p] \in {"acqwake", "relready", "released"} /\ UNCHANGED <<runq, iprog, pstate, utype, cur>>
          /\ \E l \in {"acqblock", "released", "acqwake"} : pc' = [pc EXCEPT ![p] = l]
      BY <2>3 DEF AcquireWake, ReleaseReady, Return, Acquire, AfterQueueing, Goto, local, progs
    <3>2. \A l \in {"acqblock", "released", "acqwake", "relready"} :
            l \in Out /\ l \in Collects /\ l \notin Working /\ l \notin {"xec", "exit"} /\ l \in Labels
      BY DEF Out, Collects, Working, Labels, VMBlocked, Outside, Handing
    <3> QED BY <3>1, <3>2, <1>Quiet
  <2>4. CASE \/ Startup(p) \/ StartupGo(p) \/ IdleSleep(p) \/ IdleWoken(p) \/ Yield(p) \/ YieldReady(p)
    <3>1. /\ pc[p] \in {"startup", "startblock", "sleep", "idleblk", "loop", "yieldready"}
          /\ UNCHANGED <<runq, iprog, pstate, utype, cur>>
      BY <2>4 DEF Startup, StartupGo, IdleSleep, IdleWoken, Yield, YieldReady, local, progs
    <3>2. \E l \in {"loop", "startblock", "idleblk", "yieldready", "yieldblock"} :
            pc' = [pc EXCEPT ![p] = l]
      BY <2>4 DEF Startup, StartupGo, IdleSleep, IdleWoken, Yield, YieldReady, Goto
    <3>3. \A l \in {"loop", "startblock", "idleblk", "yieldready", "yieldblock", "startup", "sleep"} :
            l \notin Out /\ l \notin Collects /\ l \notin Working /\ l \notin {"xec", "exit"} /\ l \in Labels
      BY DEF Out, Collects, Working, Labels, VMBlocked, Outside, Handing, InVM
    <3>4. PICK l \in {"loop", "startblock", "idleblk", "yieldready", "yieldblock"} : pc' = [pc EXCEPT ![p] = l]
      BY <3>2
    <3>5. /\ pc[p] \notin Out /\ pc[p] \notin Collects /\ pc[p] \notin Working
          /\ l \notin Out /\ l \notin Collects /\ l \notin Working /\ l \notin {"xec", "exit"} /\ l \in Labels
      BY SMTT(30), <3>1, <3>3, <3>4
    <3>6. \A q \in Procs \ {p} : cur'[q] = cur[q] BY SMT, <3>1
    <3> QED BY <3>1, <3>4, <3>5, <3>6, <1>Quiet
  <2>5. CASE YieldGo(p)
    <3>1. pc[p] = "yieldblock" /\ sem[p] > 0 /\ RunHead(p) /\ UNCHANGED <<runq, iprog, pstate, utype>>
      BY <2>5 DEF YieldGo, osblock, progs
    <3>2. /\ pc[p] \notin Working \cup Out \cup Collects /\ HasToken(p)
          /\ \A l \in {"gc", "xec"} : l \notin Working \cup Out /\ l \in Labels
      BY <3>1 DEF Working, Out, Collects, HasToken, VMBlocked, Labels, InVM
    <3>3. CASE runq = <<>>
      <4>1. pc' = [pc EXCEPT ![p] = "gc"] /\ UNCHANGED cur BY <3>1, <3>3 DEF RunHead, Goto
      <4> QED BY <3>1, <3>2, <4>1, <1>Quiet
    <3>4. CASE runq # <<>>
      <4>1. pc' = [pc EXCEPT ![p] = "xec"] /\ cur' = [cur EXCEPT ![p] = Head(runq)]
        BY <3>1, <3>4 DEF RunHead, Goto, Set
      <4>2. Head(runq) \in Progs BY <3>2, <3>4, <1>HeadProg DEF AccInv
      <4>3. cur'[p] \in Progs /\ \A q \in Procs \ {p} : cur'[q] = cur[q] BY <2>1, <4>1, <4>2
      <4> QED BY <3>1, <3>2, <4>1, <4>3, <1>Quiet
    <3> QED BY <3>3, <3>4
  <2>6. ASSUME NEW n \in Interps, ReleaseKproc(p, n) PROVE AccInv'
    <3>1. /\ n \in Procs /\ n # p /\ pc[n] = "none" /\ pc[p] = "relkproc"
          /\ pc' = [pc EXCEPT ![p] = "released", ![n] = "startup"]
          /\ UNCHANGED <<runq, iprog, pstate, utype, cur>>
      BY <2>6 DEF ReleaseKproc, Procs, local, progs
    <3>2. pc'[p] = "released" /\ pc'[n] = "startup" /\ \A q \in Procs \ {p, n} : pc'[q] = pc[q]
      BY <2>1, <3>1
    <3>3. /\ \A q \in Procs : pc'[q] \in Working <=> pc[q] \in Working
          /\ \A q \in Procs : pc'[q] \in Out <=> pc[q] \in Out
          /\ \A q \in Procs : pc[q] \in Collects => pc'[q] \in Collects
          /\ \A q \in Procs : pc'[q] \in {"xec", "exit"} => pc[q] \in {"xec", "exit"}
      BY <3>1, <3>2 DEF Working, Out, Collects
    <3>4. RunqInv' BY <3>1, <3>3, <1>RunqSame DEF AccInv, RunqInv
    <3>5. HeldInv' BY <3>1, <3>3, <1>HeldSame DEF AccInv
    <3>6. WorkInv' BY <3>1, <3>3 DEF AccInv, WorkInv
    <3> QED BY <3>4, <3>5, <3>6 DEF AccInv
  <2>7. ASSUME NEW k \in Kprocs, Rptproc(p, k) PROVE AccInv'
    <3>1. /\ k \in Procs /\ pc[k] = "none" /\ pc' = [pc EXCEPT ![k] = "released"]
          /\ UNCHANGED <<runq, iprog, pstate, utype, cur>>
      BY <2>7 DEF Rptproc, Procs, Goto, local, progs
    <3>2. utype[k] # "Interp" BY <2>1, <3>1 DEF CarryInv
    <3>3. /\ "released" \in Labels /\ "released" \notin Working /\ pc[k] \notin Working
          /\ "released" \notin {"xec", "exit"} /\ "released" \in Collects
      BY <3>1 DEF Labels, Outside, Working, Collects, Out
    <3> QED BY <3>1, <3>2, <3>3, <1>Quiet
  <2> QED BY <2>2, <2>3, <2>4, <2>5, <2>6, <2>7

<1> SUFFICES ASSUME IInv, AccInv, [Next]_vars PROVE AccInv' BY SMT
<1>1. CASE UNCHANGED vars
  <2>1. UNCHANGED <<runq, pstate, iprog, utype, cur, pc>> BY <1>1 DEF vars, local, progs
  <2>2. RunqInv' BY <2>1, <1>RunqSame DEF AccInv, RunqInv
  <2>3. HeldInv' BY <2>1, <1>HeldSame DEF AccInv
  <2>4. WorkInv' BY <2>1 DEF AccInv, WorkInv
  <2> QED BY <2>2, <2>3, <2>4 DEF AccInv
<1>2. ASSUME NEW p \in Procs, Step(p) \/ Choice(p) PROVE AccInv'
  <2>1. CASE Finalize(p) \/ Syscall(p) \/ Exit(p) \/ KprocRelease(p)
    <3>1. Release(p) /\ pc[p] \in {"xec", "idlegc", "busygc", "kwork"}
      BY <2>1 DEF Finalize, Syscall, Exit, KprocRelease
    <3> QED BY <3>1, <1>ReleaseAcc
  <2> QED BY <1>2, <2>1, <1>InsideAcc, <1>HandoffAcc DEF Step, Choice
<1> QED BY <1>1, <1>2 DEF Next

(* Every Prog is exactly where its state says, and once, however many      *)
(* interpreters take Progs out of the run queue and bring them back; an    *)
(* interpreter inside the machine holds none back.                         *)
THEOREM ProgsAreAccounted == Spec => []ProgsAccounted
<1>1. IInv /\ AccInv => ProgsAccounted
  <2> SUFFICES ASSUME AccInv PROVE ProgsAccounted BY SMT
  <2>1. \A i, j \in DOMAIN runq : runq[i] = runq[j] => i = j BY DEF AccInv, RunqInv, Distinct
  <2>2. \A x \in Progs : x \in Elements(runq) <=> InRunq(x) BY DEF Elements, InRunq
  <2>3. \A x \in Progs : pstate[x] = "Pready" <=> InRunq(x) BY <2>2 DEF AccInv, RunqInv
  <2>4. \A x \in Progs : pstate[x] = "Prelease" <=> \E p \in Procs : iprog[p] = x
    BY DEF AccInv, HeldInv
  <2>5. \A x \in Progs : \A p, q \in Procs : iprog[p] = x /\ iprog[q] = x => p = q
    <3>1. None \notin Progs BY IschedAssumption
    <3> QED BY SMT, <3>1 DEF AccInv, HeldInv
  <2>6. \A p \in Procs : pc[p] \in InVM => iprog[p] = None BY DEF AccInv, HeldInv, InVM, Out
  <2> QED BY <2>1, <2>3, <2>4, <2>5, <2>6 DEF ProgsAccounted
<1> QED BY <1>1, InitIInv, NextIInv, InitAcc, NextAcc, PTL DEF Spec

-----------------------------------------------------------------------------
(* gclock is held once for each thread inside delprog and once for the     *)
(* finalizing collector.                                                   *)

(* gclock's count is exact in every state.                                 *)
LEMMA InitGc == Init => GcInv
<1> SUFFICES ASSUME Init PROVE GcInv BY SMT
<1>1. exiting = {} /\ gchalt = 0 BY DEF Init
<1>2. IsFiniteSet(exiting) /\ Cardinality(exiting) = 0 BY <1>1, FS_EmptySet
<1>3. \A p \in Procs : utype[p] \notin Collecting /\ pc[p] # "exit" BY DEF Init, Collecting
<1> QED BY SMT, <1>1, <1>2, <1>3 DEF GcInv, Finalizing, CollectorAlone

(* Every step keeps the count of gclock.                                   *)
LEMMA NextGc == IInv /\ AccInv /\ AccInv' /\ GcInv /\ [Next]_vars => GcInv'

(* A step that leaves gclock, and who is finalizing, as they are.          *)
<1>GcSame.
     ASSUME GcInv, UNCHANGED <<exiting, gchalt>>,
            \A q \in Procs : Finalizing(q)' <=> Finalizing(q),
            \A q \in Procs : q \in exiting => utype'[q] = "Interp" /\ pc'[q] \in Out \cup {"exit"},
            \A q \in Procs : pc'[q] = "exit" => q \in exiting
     PROVE  GcInv'
  <2> USE <1>GcSame
  <2>1. (\E q \in Procs : Finalizing(q))' <=> \E q \in Procs : Finalizing(q) BY SMT
  <2>2. CollectorAlone' BY DEF GcInv, CollectorAlone, Finalizing
  <2>3. ~Finalizers => \A q \in Procs : ~Finalizing(q)' BY DEF GcInv
  <2> QED BY <2>1, <2>2, <2>3 DEF GcInv

(* A thread that is neither finalizing nor exiting, before or after.       *)
<1>GcAside.
     ASSUME GcInv, AccInv, AccInv', NEW p \in Procs, UNCHANGED <<exiting, gchalt>>,
            \A q \in Procs \ {p} : pc'[q] = pc[q] /\ utype'[q] = utype[q],
            pc[p] \notin Out \cup {"exit", "finalized"},
            pc'[p] \notin {"exit"}, utype'[p] \in Collecting => pc'[p] \in {"idlegc", "busygc"}
     PROVE  GcInv'
  <2> USE <1>GcAside
  <2>1. ~Finalizing(p) BY DEF AccInv, WorkInv, Collects, Finalizing
  <2>2. ~Finalizing(p)' BY DEF Finalizing
  <2>3. \A q \in Procs : Finalizing(q)' <=> Finalizing(q) BY <2>1, <2>2 DEF Finalizing
  <2>4. p \notin exiting BY DEF GcInv
  <2> QED BY <2>3, <2>4, <1>GcSame DEF GcInv

(* A thread that is out goes on outside, or comes back to what it left.    *)
<1>GcOut.
     ASSUME GcInv, NEW p \in Procs, UNCHANGED <<exiting, gchalt, utype>>, pc[p] \in Out,
            \A q \in Procs \ {p} : pc'[q] = pc[q],
            pc'[p] \in Out \/ pc'[p] = Back(p)
     PROVE  GcInv'
  <2> USE <1>GcOut
  <2>1. pc'[p] \notin {"idlegc", "busygc"} /\ pc[p] \notin {"idlegc", "busygc"} BY DEF Out, Back
  <2>2. \A q \in Procs : Finalizing(q)' <=> Finalizing(q) BY <2>1 DEF Finalizing
  <2>3. p \in exiting => utype'[p] = "Interp" /\ pc'[p] \in Out \cup {"exit"}
    BY DEF GcInv, Back, Collecting
  <2>4. pc'[p] = "exit" => p \in exiting BY DEF Back, Out
  <2> QED BY <2>2, <2>3, <2>4, <1>GcSame DEF GcInv

(* gclock's count is 0 exactly when nobody is exiting or finalizing.       *)
<1>GcFree.
     ASSUME GcInv, gchalt = 0
     PROVE  exiting = {} /\ \A q \in Procs : ~Finalizing(q)
  <2> USE <1>GcFree
  <2>1. Cardinality(exiting) \in Nat BY FS_CardinalityType DEF GcInv
  <2>2. Cardinality(exiting) = 0 /\ \A q \in Procs : ~Finalizing(q) BY SMT, <2>1 DEF GcInv
  <2> QED BY <2>2, FS_EmptySet DEF GcInv

(* A collector starts to finalize: only when gclock is free.               *)
<1>FinalizeGc.
     ASSUME GcInv, NEW p \in Procs, gchalt = 0, gchalt' = gchalt + 1, Finalizers,
            UNCHANGED <<exiting, utype>>, utype[p] \in Collecting, pc'[p] \in Out,
            \A q \in Procs \ {p} : pc'[q] = pc[q]
     PROVE  GcInv'
  <2> USE <1>FinalizeGc
  <2>1. exiting = {} /\ \A q \in Procs : ~Finalizing(q) BY <1>GcFree
  <2>2. pc'[p] \notin {"idlegc", "busygc", "exit"} BY DEF Out
  <2>3. Finalizing(p)' BY <2>2 DEF Finalizing
  <2>4. \A q \in Procs : Finalizing(q)' => q = p BY <2>1 DEF Finalizing
  <2>5. CollectorAlone' BY <2>4 DEF CollectorAlone, Finalizing
  <2>6. IsFiniteSet(exiting') /\ Cardinality(exiting') = 0 BY <2>1, FS_EmptySet
  <2>7. \A q \in Procs : pc'[q] # "exit"
    BY <2>1, <2>2 DEF GcInv
  <2>8. gchalt' = Cardinality(exiting') + (IF (\E q \in Procs : Finalizing(q))' THEN 1 ELSE 0)
    BY <2>3, <2>6
  <2> QED BY <2>1, <2>5, <2>6, <2>7, <2>8 DEF GcInv

(* The finalizer is done.                                                  *)
<1>EndFinalizeGc.
     ASSUME GcInv, NEW p \in Procs, gchalt' = gchalt - 1, UNCHANGED <<exiting, utype>>,
            Finalizing(p), pc[p] = "finalized", pc'[p] \in {"idlegc", "busygc"},
            \A q \in Procs \ {p} : pc'[q] = pc[q]
     PROVE  GcInv'
  <2> USE <1>EndFinalizeGc
  <2>1. \A q \in Procs : Finalizing(q) => q = p BY DEF GcInv, CollectorAlone, Finalizing
  <2>2. \A q \in Procs : ~Finalizing(q)' BY <2>1 DEF Finalizing
  <2>3. CollectorAlone' BY <2>2 DEF CollectorAlone, Finalizing
  <2>4. Cardinality(exiting) \in Nat BY FS_CardinalityType DEF GcInv
  <2>5. gchalt' = Cardinality(exiting) BY SMT, <2>4 DEF GcInv
  <2>6. p \notin exiting BY DEF GcInv, Out
  <2> QED BY SMTT(30), <2>2, <2>3, <2>4, <2>5, <2>6 DEF GcInv

(* A Prog exits: its interpreter enters delprog.                           *)
<1>ExitGc.
     ASSUME GcInv, NEW p \in Procs, gchalt' = gchalt + 1, exiting' = exiting \cup {p},
            UNCHANGED utype, utype[p] = "Interp", pc[p] = "xec", pc'[p] \in Out,
            \A q \in Procs \ {p} : pc'[q] = pc[q]
     PROVE  GcInv'
  <2> USE <1>ExitGc
  <2>1. p \notin exiting BY DEF GcInv, Out
  <2>2. IsFiniteSet(exiting') /\ Cardinality(exiting') = Cardinality(exiting) + 1
    BY <2>1, FS_AddElement DEF GcInv
  <2>3. ~Finalizing(p) /\ ~Finalizing(p)' BY DEF Finalizing, Collecting
  <2>4. \A q \in Procs : Finalizing(q)' <=> Finalizing(q) BY <2>3 DEF Finalizing
  <2>5. (\E q \in Procs : Finalizing(q))' <=> \E q \in Procs : Finalizing(q) BY <2>4
  <2>6. CollectorAlone' BY <2>4 DEF GcInv, CollectorAlone, Finalizing
  <2>7. Cardinality(exiting) \in Nat BY FS_CardinalityType DEF GcInv
  <2>8. gchalt' = Cardinality(exiting') + (IF (\E q \in Procs : Finalizing(q))' THEN 1 ELSE 0)
    BY SMTT(30), <2>2, <2>5, <2>7 DEF GcInv
  <2>9. \A q \in Procs : q \in exiting' => utype'[q] = "Interp" /\ pc'[q] \in Out \cup {"exit"}
    BY DEF GcInv
  <2>10. \A q \in Procs : pc'[q] = "exit" => q \in exiting' BY DEF GcInv, Out
  <2>11. ~Finalizers => \A q \in Procs : ~Finalizing(q)' BY <2>4 DEF GcInv
  <2> QED BY <2>2, <2>6, <2>8, <2>9, <2>10, <2>11 DEF GcInv

(* delprog returns.                                                        *)
<1>DelprogGc.
     ASSUME GcInv, NEW p \in Procs, gchalt' = gchalt - 1, exiting' = exiting \ {p},
            UNCHANGED utype, pc[p] = "exit", pc'[p] \in {"loop", "cleanexit"},
            \A q \in Procs \ {p} : pc'[q] = pc[q]
     PROVE  GcInv'
  <2> USE <1>DelprogGc
  <2>1. p \in exiting /\ utype[p] = "Interp" BY DEF GcInv
  <2>2. IsFiniteSet(exiting') /\ Cardinality(exiting') = Cardinality(exiting) - 1
    BY <2>1, FS_RemoveElement DEF GcInv
  <2>3. ~Finalizing(p) /\ ~Finalizing(p)' BY <2>1 DEF Finalizing, Collecting
  <2>4. \A q \in Procs : Finalizing(q)' <=> Finalizing(q) BY <2>3 DEF Finalizing
  <2>5. (\E q \in Procs : Finalizing(q))' <=> \E q \in Procs : Finalizing(q) BY <2>4
  <2>6. CollectorAlone' BY <2>4 DEF GcInv, CollectorAlone, Finalizing
  <2>7. Cardinality(exiting) \in Nat BY FS_CardinalityType DEF GcInv
  <2>8. gchalt' = Cardinality(exiting') + (IF (\E q \in Procs : Finalizing(q))' THEN 1 ELSE 0)
    BY SMTT(30), <2>2, <2>5, <2>7 DEF GcInv
  <2>9. \A q \in Procs : q \in exiting' => utype'[q] = "Interp" /\ pc'[q] \in Out \cup {"exit"}
    BY DEF GcInv
  <2>10. \A q \in Procs : pc'[q] = "exit" => q \in exiting' BY DEF GcInv
  <2>11. ~Finalizers => \A q \in Procs : ~Finalizing(q)' BY <2>4 DEF GcInv
  <2> QED BY <2>2, <2>6, <2>8, <2>9, <2>10, <2>11 DEF GcInv

(* The steps of a thread that has nothing to do with gclock.               *)
<1>AsideGc.
     ASSUME IInv, AccInv, AccInv', GcInv, NEW p \in Procs,
            \/ Startup(p) \/ StartupGo(p) \/ IdleSleep(p) \/ IdleWoken(p) \/ Run(p)
            \/ Yield(p) \/ YieldReady(p) \/ YieldGo(p) \/ EndSlice(p) \/ Block(p)
            \/ Exception(p) \/ Broken(p) \/ Syscall(p) \/ KprocRelease(p)
            \/ BusyGC(p) \/ ExecAtIdle(p) \/ EndGC(p)
            \/ \E x \in Progs : Addrun(p, x)
            \/ \E k \in Kprocs : Rptproc(p, k)
     PROVE  GcInv'
  <2> USE <1>AsideGc
  <2>1. pc \in [Procs -> Labels] /\ utype \in [Procs -> Types] /\ CarryInv BY Parts DEF DataType
  <2>2. CASE \/ Startup(p) \/ StartupGo(p) \/ IdleSleep(p) \/ IdleWoken(p) \/ Run(p)
             \/ Yield(p) \/ YieldReady(p) \/ YieldGo(p) \/ EndSlice(p) \/ Block(p)
             \/ Exception(p) \/ Broken(p) \/ Syscall(p) \/ KprocRelease(p)
             \/ (BusyGC(p) /\ UNCHANGED utype) \/ \E x \in Progs : Addrun(p, x)
    <3>1. pc[p] \notin Collects \cup {"exit", "finalized"} /\ UNCHANGED <<exiting, gchalt, utype>>
      BY <2>2 DEF Startup, StartupGo, IdleSleep, IdleWoken, Run, Yield, YieldReady, YieldGo,
                  EndSlice, Block, Exception, Broken, Syscall, KprocRelease, Release, BusyGC,
                  Addrun, Collects, Out, local
    <3>2. \E l \in Labels \ {"exit"} : pc' = [pc EXCEPT ![p] = l]
      <4>1. \A l \in {"loop", "startblock", "idleblk", "gc", "xec", "yieldready", "yieldblock",
                      "relready", "relkproc", "released"} : l \in Labels \ {"exit"}
        BY DEF Labels, InVM, VMBlocked, Handing, Outside
      <4>2. CASE \E x \in Progs : Addrun(p, x)
        <5>1. pc' = [pc EXCEPT ![p] = pc[p]] BY <2>1, <4>2 DEF Addrun
        <5> QED BY <2>1, <3>1, <5>1
      <4>3. CASE Syscall(p) \/ KprocRelease(p)
        BY <4>1, <4>3 DEF Syscall, KprocRelease, Release, Goto, AfterIdling
      <4>4. CASE Run(p) \/ YieldGo(p) BY <4>1, <4>4 DEF Run, YieldGo, RunHead, Goto
      <4>5. CASE \/ Startup(p) \/ StartupGo(p) \/ IdleSleep(p) \/ IdleWoken(p)
                 \/ Yield(p) \/ YieldReady(p)
        BY <4>1, <4>5 DEF Startup, StartupGo, IdleSleep, IdleWoken, Yield, YieldReady, Goto
      <4>6. CASE EndSlice(p) \/ Block(p) \/ Exception(p) \/ Broken(p)
        BY <4>1, <4>6 DEF EndSlice, Block, Exception, Broken, Goto
      <4>7. CASE BusyGC(p) /\ UNCHANGED utype
        <5>1. pc' = [pc EXCEPT ![p] = "loop"] \/ pc' = [pc EXCEPT ![p] = "busygc"]
          BY <4>7 DEF BusyGC, Goto
        <5>2. "busygc" \in Labels \ {"exit"} BY DEF Labels, InVM
        <5> QED BY <4>1, <5>1, <5>2
      <4> QED BY <2>2, <4>2, <4>3, <4>4, <4>5, <4>6, <4>7
    <3>3. pc'[p] # "exit" /\ \A q \in Procs \ {p} : pc'[q] = pc[q] BY <2>1, <3>2
    <3>4. utype[p] \notin Collecting BY <3>1 DEF AccInv, WorkInv
    <3>5. pc[p] \notin Out \cup {"exit", "finalized"} BY <3>1 DEF Collects
    <3> QED BY <3>1, <3>3, <3>4, <3>5, <1>GcAside
  <2>3. CASE (BusyGC(p) /\ utype' # utype) \/ ExecAtIdle(p) \/ EndGC(p)
    <3>1. /\ pc[p] \in {"gc", "loop", "idlegc", "busygc"} /\ UNCHANGED <<exiting, gchalt>>
          /\ \E l \in {"busygc", "idlegc", "sleep", "loop"}, t \in Types :
               /\ pc' = [pc EXCEPT ![p] = l] /\ utype' = [utype EXCEPT ![p] = t]
               /\ t \in Collecting => l \in {"idlegc", "busygc"}
      <4>1. CASE BusyGC(p) /\ utype' # utype
        <5>1. pc' = [pc EXCEPT ![p] = "busygc"] /\ utype' = [utype EXCEPT ![p] = "BusyGC"]
          BY <4>1 DEF BusyGC, Goto, Set
        <5>2. "BusyGC" \in Types BY DEF Types, Collecting
        <5> QED BY <4>1, <5>1, <5>2 DEF BusyGC
      <4>2. CASE ExecAtIdle(p)
        <5>1. pc' = [pc EXCEPT ![p] = "idlegc"] /\ utype' = [utype EXCEPT ![p] = "IdleGC"]
          BY <4>2 DEF ExecAtIdle, Goto, Set
        <5>2. "IdleGC" \in Types BY DEF Types, Collecting
        <5> QED BY <4>2, <5>1, <5>2 DEF ExecAtIdle
      <4>3. CASE EndGC(p)
        <5>1. utype' = [utype EXCEPT ![p] = "Interp"] BY <4>3 DEF EndGC, Set
        <5>2. \E l \in {"sleep", "loop"} : pc' = [pc EXCEPT ![p] = l] BY <4>3 DEF EndGC, Goto
        <5>3. "Interp" \in Types /\ "Interp" \notin Collecting BY DEF Types, Collecting
        <5> QED BY <4>3, <5>1, <5>2, <5>3 DEF EndGC
      <4> QED BY <2>3, <4>1, <4>2, <4>3
    <3>2. PICK l \in {"busygc", "idlegc", "sleep", "loop"}, t \in Types :
               /\ pc' = [pc EXCEPT ![p] = l] /\ utype' = [utype EXCEPT ![p] = t]
               /\ t \in Collecting => l \in {"idlegc", "busygc"}
      BY <3>1
    <3>3. /\ pc'[p] = l /\ utype'[p] = t
          /\ \A q \in Procs \ {p} : pc'[q] = pc[q] /\ utype'[q] = utype[q]
      BY <2>1, <3>2
    <3>4. pc[p] \notin Out \cup {"exit", "finalized"} BY <3>1 DEF Out
    <3> QED BY <3>1, <3>2, <3>3, <3>4, <1>GcAside
  <2>4. ASSUME NEW k \in Kprocs, Rptproc(p, k) PROVE GcInv'
    <3>1. /\ k \in Procs /\ pc[k] = "none" /\ pc' = [pc EXCEPT ![k] = "released"]
          /\ UNCHANGED <<exiting, gchalt, utype>>
      BY <2>4 DEF Rptproc, Procs, Goto, local
    <3>2. pc'[k] = "released" /\ \A q \in Procs \ {k} : pc'[q] = pc[q] BY <2>1, <3>1
    <3>3. utype[k] \notin Collecting /\ pc[k] \notin Out \cup {"exit", "finalized"}
      BY <2>1, <3>1 DEF CarryInv, Collecting, Out
    <3> QED BY <3>1, <3>2, <3>3, <1>GcAside
  <2> QED BY <2>2, <2>3, <2>4

<1> SUFFICES ASSUME IInv, AccInv, AccInv', GcInv, [Next]_vars PROVE GcInv' BY SMT
<1>1. CASE UNCHANGED vars
  <2>1. UNCHANGED <<exiting, gchalt, utype, pc>> BY <1>1 DEF vars, local
  <2> QED BY <2>1, <1>GcSame DEF GcInv, Finalizing
<1>2. ASSUME NEW p \in Procs, Step(p) \/ Choice(p) PROVE GcInv'
  <2>1. /\ pc \in [Procs -> Labels] /\ utype \in [Procs -> Types] /\ CarryInv BY Parts DEF DataType
  <2>2. CASE AcquireWake(p) \/ AcquireGo(p) \/ ReleaseReady(p) \/ Return(p)
    <3>1. UNCHANGED <<exiting, gchalt, utype>> /\ pc[p] \in Out
      BY <2>2 DEF AcquireWake, AcquireGo, ReleaseReady, Return, Acquire, Enter, Out, local
    <3>2. \E l \in Out \cup {Back(p)} : pc' = [pc EXCEPT ![p] = l]
      <4>1. \A l \in {"acqblock", "acqwake", "released"} : l \in Out BY DEF Out
      <4> QED BY <2>2, <4>1 DEF AcquireWake, AcquireGo, ReleaseReady, Return, Acquire,
                                       Enter, Goto, AfterQueueing
    <3>3. (pc'[p] \in Out \/ pc'[p] = Back(p)) /\ \A q \in Procs \ {p} : pc'[q] = pc[q]
      BY <2>1, <3>2
    <3> QED BY <3>1, <3>3, <1>GcOut
  <2>3. CASE Finalize(p) \/ Exit(p)
    <3>1. PICK l \in {"relkproc", "released", "relready"} : pc' = [pc EXCEPT ![p] = l]
      BY <2>3 DEF Finalize, Exit, Release, Goto, AfterIdling
    <3>2. pc'[p] \in Out /\ \A q \in Procs \ {p} : pc'[q] = pc[q]
      <4>1. l \in Out BY DEF Out
      <4> QED BY <2>1, <3>1, <4>1
    <3>3. CASE Finalize(p)
      <4>1. /\ gchalt = 0 /\ gchalt' = gchalt + 1 /\ Finalizers /\ UNCHANGED <<exiting, utype>>
            /\ pc[p] \in {"idlegc", "busygc"}
        BY <3>3 DEF Finalize, gcruns, Release
      <4>2. utype[p] \in Collecting BY <2>1, <4>1 DEF CarryInv
      <4> QED BY <3>2, <4>1, <4>2, <1>FinalizeGc
    <3>4. CASE Exit(p)
      <4>1. /\ gchalt' = gchalt + 1 /\ exiting' = exiting \cup {p} /\ UNCHANGED utype
            /\ pc[p] = "xec"
        BY <3>4 DEF Exit, Release
      <4>2. utype[p] \notin Collecting BY <4>1 DEF AccInv, WorkInv, Collects, Out
      <4>3. utype[p] # "Kproc" BY <2>1, <4>1 DEF AccInv, WorkInv, CarryInv, KprocLabels
      <4>4. utype[p] = "Interp" BY <2>1, <4>2, <4>3 DEF Types
      <4> QED BY <3>2, <4>1, <4>4, <1>ExitGc
    <3> QED BY <2>3, <3>3, <3>4
  <2>4. CASE EndFinalize(p)
    <3>1. PICK l \in {"idlegc", "busygc"} : pc' = [pc EXCEPT ![p] = l]
      BY <2>4 DEF EndFinalize, Goto
    <3>2. pc[p] = "finalized" /\ gchalt' = gchalt - 1 /\ UNCHANGED <<exiting, utype>>
      BY <2>4 DEF EndFinalize
    <3>3. pc'[p] = l /\ \A q \in Procs \ {p} : pc'[q] = pc[q] BY <2>1, <3>1
    <3>4. Finalizing(p) BY <2>1, <3>2 DEF CarryInv, Finalizing
    <3> QED BY <3>2, <3>3, <3>4, <1>EndFinalizeGc
  <2>5. CASE Delprog(p)
    <3>1. PICK l \in {"cleanexit", "loop"} : pc' = [pc EXCEPT ![p] = l]
      BY <2>5 DEF Delprog, Goto
    <3>2. pc[p] = "exit" /\ gchalt' = gchalt - 1 /\ exiting' = exiting \ {p} /\ UNCHANGED utype
      BY <2>5 DEF Delprog
    <3>3. pc'[p] = l /\ \A q \in Procs \ {p} : pc'[q] = pc[q] BY <2>1, <3>1
    <3> QED BY <3>2, <3>3, <1>DelprogGc
  <2>6. ASSUME NEW n \in Interps, ReleaseKproc(p, n) PROVE GcInv'
    <3>1. /\ n \in Procs /\ n # p /\ pc[n] = "none" /\ pc[p] = "relkproc"
          /\ pc' = [pc EXCEPT ![p] = "released", ![n] = "startup"]
          /\ UNCHANGED <<exiting, gchalt, utype>>
      BY <2>6 DEF ReleaseKproc, Procs, local
    <3>2. pc'[p] = "released" /\ pc'[n] = "startup" /\ \A q \in Procs \ {p, n} : pc'[q] = pc[q]
      BY <2>1, <3>1
    <3>3. utype[n] \notin Collecting BY <3>1 DEF AccInv, WorkInv, Collects, Out
    <3>4. n \notin exiting BY <3>1 DEF GcInv, Out
    <3>5. \A q \in Procs : Finalizing(q)' <=> Finalizing(q)
      BY <3>1, <3>2, <3>3 DEF Finalizing
    <3>6. \A q \in Procs : q \in exiting => utype'[q] = "Interp" /\ pc'[q] \in Out \cup {"exit"}
      BY <3>1, <3>2, <3>4 DEF GcInv, Out
    <3>7. \A q \in Procs : pc'[q] = "exit" => q \in exiting BY <3>2 DEF GcInv
    <3> QED BY <3>1, <3>5, <3>6, <3>7, <1>GcSame
  <2> QED BY <1>2, <2>2, <2>3, <2>4, <2>5, <2>6, <1>AsideGc DEF Step, Choice
<1> QED BY <1>1, <1>2 DEF Next

(* rungc's static position is safe: a second collector never starts while  *)
(* a finalizer of the first is outside the machine, whatever exits and     *)
(* collections overlap.                                                    *)
THEOREM CollectorIsAlone == Spec => []CollectorAlone
<1>1. GcInv => CollectorAlone BY DEF GcInv
<1> QED BY <1>1, InitIInv, NextIInv, InitAcc, NextAcc, InitGc, NextGc, PTL DEF Spec

-----------------------------------------------------------------------------
(* No thread that waits for the machine is forgotten.                      *)

(* Initially no thread waits.                                              *)
LEMMA InitWait == Init => WaitInv
<1> SUFFICES ASSUME Init PROVE WaitInv BY SMT
<1>1. \A q \in Procs : pc[q] \in {"none", "startup"} BY DEF Init
<1> QED BY <1>1 DEF WaitInv, VMBlocked

(* Every step keeps the waiting threads where the machine can reach them.  *)
LEMMA NextWait == IInv /\ WaitInv /\ [Next]_vars => WaitInv'

(* The step of one thread that keeps or grants what the others wait for.   *)
<1>WaitStep.
     ASSUME WaitInv, NEW p \in Procs, \A q \in Procs \ {p} : pc'[q] = pc[q],
            \A q \in Procs \ {p} :
              q \in Elements(vmq) \cup Elements(idlevmq) =>
                \/ q \in Elements(vmq') \cup Elements(idlevmq')
                \/ pc'[p] \in Handing /\ handoff'[p] = q,
            \A q \in Procs \ {p} : sem[q] > 0 => sem'[q] > 0,
            \A r \in Procs \ {p} : handoff'[r] = handoff[r],
            pc[p] \in Handing => \A q \in Procs \ {p} : handoff[p] = q => sem'[q] > 0,
            pc'[p] \in VMBlocked \cup {"yieldready"} =>
              \/ p \in Elements(vmq') \cup Elements(idlevmq')
              \/ sem'[p] > 0
              \/ \E r \in Procs \ {p} : pc[r] \in Handing /\ handoff[r] = p
     PROVE  WaitInv'
  <2> USE <1>WaitStep
  <2>1. Elements(vmq)' = Elements(vmq') /\ Elements(idlevmq)' = Elements(idlevmq') BY DEF Elements
  <2> SUFFICES ASSUME NEW q \in Procs, pc'[q] \in VMBlocked \cup {"yieldready"}
               PROVE  \/ q \in Elements(vmq') \cup Elements(idlevmq')
                      \/ sem'[q] > 0
                      \/ \E r \in Procs : pc'[r] \in Handing /\ handoff'[r] = q
    BY <2>1 DEF WaitInv
  <2>2. CASE q = p
    <3>1. ASSUME NEW r \in Procs \ {p}, pc[r] \in Handing, handoff[r] = p
          PROVE  pc'[r] \in Handing /\ handoff'[r] = p
      BY <3>1
    <3> QED BY <2>2, <3>1
  <2>3. CASE q # p
    <3>1. CASE q \in Elements(vmq) \cup Elements(idlevmq) BY <2>3, <3>1
    <3>2. CASE sem[q] > 0 BY <2>3, <3>2
    <3>3. ASSUME NEW r \in Procs, pc[r] \in Handing, handoff[r] = q
          PROVE  sem'[q] > 0 \/ (pc'[r] \in Handing /\ handoff'[r] = q)
      <4>1. CASE r = p BY <2>3, <3>3, <4>1
      <4>2. CASE r # p BY <3>3, <4>2
      <4> QED BY <4>1, <4>2
    <3>4. pc[q] \in VMBlocked \cup {"yieldready"} BY <2>3
    <3> QED BY <3>1, <3>2, <3>3, <3>4 DEF WaitInv
  <2> QED BY <2>2, <2>3

(* The step of a thread that does not wait, and readies none.              *)
<1>WaitAside.
     ASSUME IInv, WaitInv, NEW p \in Procs, NEW l, pc' = [pc EXCEPT ![p] = l],
            pc[p] \notin Handing, l \notin VMBlocked \cup {"yieldready"},
            UNCHANGED <<vmq, idlevmq, handoff>>, \A q \in Procs \ {p} : sem[q] > 0 => sem'[q] > 0
     PROVE  WaitInv'
  <2> USE <1>WaitAside
  <2>1. pc \in [Procs -> Labels] BY Parts
  <2>2. pc'[p] = l /\ \A q \in Procs \ {p} : pc'[q] = pc[q] BY <2>1
  <2> QED BY <2>2, <1>WaitStep

(* release readies a thread only after it has been popped.                 *)
<1>ReleaseWait.
     ASSUME IInv, WaitInv, NEW p \in Procs, pc[p] \in {"xec", "idlegc", "busygc", "kwork"},
            Release(p)
     PROVE  WaitInv'
  <2> USE <1>ReleaseWait
  <2>1. /\ pc \in [Procs -> Labels] /\ handoff \in [Procs -> Procs \cup {None}]
        /\ vmq \in Seq(Procs) /\ idlevmq \in Seq(Procs) /\ VmqInv /\ IdlevmqInv
    BY Parts DEF ProtocolInv, ProtocolType
  <2>2. pc[p] \notin Handing /\ UNCHANGED sem BY DEF Release, Handing
  <2>3. CASE vmq = <<>> /\ idlevmq = <<>>
    <3>1. UNCHANGED <<vmq, idlevmq, handoff>> BY <2>3 DEF Release
    <3>2. \E l \in {"relkproc", "released"} : pc' = [pc EXCEPT ![p] = l]
      BY <2>3 DEF Release, Goto, AfterIdling
    <3>3. \A l \in {"relkproc", "released"} : l \notin VMBlocked \cup {"yieldready"} BY DEF VMBlocked
    <3> QED BY <2>2, <3>1, <3>2, <3>3, <1>WaitAside
  <2>4. ASSUME NEW s, NEW t, s \in Seq(Procs), s # <<>>, Distinct(s),
               \/ s = vmq /\ vmq' = Tail(vmq) /\ idlevmq' = idlevmq
               \/ s = idlevmq /\ idlevmq' = Tail(idlevmq) /\ vmq' = vmq,
               handoff' = [handoff EXCEPT ![p] = Head(s)], pc' = [pc EXCEPT ![p] = "relready"]
        PROVE  WaitInv'
    <3>1. Elements(Tail(s)) = Elements(s) \ {Head(s)} /\ Head(s) \in Procs BY <2>4, Popped
    <3>2. pc'[p] = "relready" /\ \A q \in Procs \ {p} : pc'[q] = pc[q] BY <2>1, <2>4
    <3>3. handoff'[p] = Head(s) /\ \A q \in Procs \ {p} : handoff'[q] = handoff[q]
      BY <2>1, <2>4
    <3>4. pc'[p] \in Handing /\ pc'[p] \notin VMBlocked \cup {"yieldready"}
      BY <3>2 DEF Handing, VMBlocked
    <3>5. ASSUME NEW q \in Procs, q \in Elements(vmq) \cup Elements(idlevmq)
          PROVE  q \in Elements(vmq') \cup Elements(idlevmq') \/ q = Head(s)
      BY <2>4, <3>1, <3>5
    <3> QED BY <2>2, <3>2, <3>3, <3>4, <3>5, <1>WaitStep
  <2>5. CASE vmq # <<>>
    <3>1. Distinct(vmq) BY SMT, <2>1 DEF VmqInv, Distinct
    <3>2. /\ vmq' = Tail(vmq) /\ idlevmq' = idlevmq
          /\ handoff' = [handoff EXCEPT ![p] = Head(vmq)] /\ pc' = [pc EXCEPT ![p] = "relready"]
      BY <2>5 DEF Release, Goto, Set
    <3> QED BY <2>1, <2>4, <2>5, <3>1, <3>2
  <2>6. CASE vmq = <<>> /\ idlevmq # <<>>
    <3>1. Distinct(idlevmq) BY SMT, <2>1 DEF IdlevmqInv, Distinct
    <3>2. /\ idlevmq' = Tail(idlevmq) /\ vmq' = vmq
          /\ handoff' = [handoff EXCEPT ![p] = Head(idlevmq)] /\ pc' = [pc EXCEPT ![p] = "relready"]
      BY <2>6 DEF Release, Goto, Set
    <3> QED BY <2>1, <2>4, <2>6, <3>1, <3>2
  <2> QED BY <2>3, <2>5, <2>6

(* iyield pops a thread too, and joins the pool.                           *)
<1>YieldWait.
     ASSUME IInv, WaitInv, NEW p \in Procs, Yield(p)
     PROVE  WaitInv'
  <2> USE <1>YieldWait
  <2>1. /\ pc \in [Procs -> Labels] /\ handoff \in [Procs -> Procs \cup {None}]
        /\ vmq \in Seq(Procs) /\ idlevmq \in Seq(Procs) /\ VmqInv
    BY Parts DEF ProtocolInv, ProtocolType
  <2>2. /\ pc[p] = "loop" /\ vmq # <<>> /\ handoff' = [handoff EXCEPT ![p] = Head(vmq)]
        /\ vmq' = Tail(vmq) /\ idlevmq' = <<p>> \o idlevmq
        /\ pc' = [pc EXCEPT ![p] = "yieldready"] /\ UNCHANGED sem
    BY DEF Yield, Goto, Set
  <2>3. pc'[p] = "yieldready" /\ \A q \in Procs \ {p} : pc'[q] = pc[q] BY <2>1, <2>2
  <2>4. handoff'[p] = Head(vmq) /\ \A q \in Procs \ {p} : handoff'[q] = handoff[q]
    BY <2>1, <2>2, PopFacts
  <2>5. Distinct(vmq) BY SMT, <2>1 DEF VmqInv, Distinct
  <2>6. Elements(vmq') = Elements(vmq) \ {Head(vmq)} BY <2>1, <2>2, <2>5, Popped
  <2>7. Elements(idlevmq') = Elements(idlevmq) \cup {p}
    <3>1. Elements(<<p>> \o idlevmq) = Elements(idlevmq) \cup {p} BY SMTT(30), <2>1, PushSet
    <3> QED BY <2>2, <3>1
  <2>8. pc'[p] \in Handing /\ pc[p] \notin Handing BY <2>2, <2>3 DEF Handing
  <2> QED BY <2>2, <2>3, <2>4, <2>6, <2>7, <2>8, <1>WaitStep

(* The members of a queue with one more at its end.                        *)
<1>AddSet.
     ASSUME NEW S, NEW q \in Seq(S), NEW x \in S
     PROVE  Elements(Append(q, x)) = Elements(q) \cup {x}
  <2> USE <1>AddSet
  <2>1. /\ Len(Append(q, x)) = Len(q) + 1 /\ Append(q, x)[Len(q) + 1] = x
        /\ \A i \in 1..Len(q) : Append(q, x)[i] = q[i]
    BY SMT
  <2>2. DOMAIN Append(q, x) = 1..(Len(q) + 1) /\ DOMAIN q = 1..Len(q) /\ Len(q) \in Nat
    BY SMT
  <2>3. \A y : y \in Elements(q) <=> \E i \in 1..Len(q) : q[i] = y BY <2>2 DEF Elements
  <2>4. \A y : y \in Elements(Append(q, x)) <=> \E i \in 1..(Len(q) + 1) : Append(q, x)[i] = y
    BY <2>2 DEF Elements
  <2>5. \A y : y \in Elements(Append(q, x)) <=> y \in Elements(q) \/ y = x
    BY SMTT(30), <2>1, <2>2, <2>3, <2>4
  <2> QED BY <2>5

(* A thread on its way into or out of a queue.                             *)
<1>QueueWait.
     ASSUME IInv, WaitInv, NEW p \in Procs,
            Return(p) \/ Startup(p) \/ AcquireWake(p) \/ ReleaseReady(p) \/ YieldReady(p)
     PROVE  WaitInv'
  <2> USE <1>QueueWait
  <2>1. /\ pc \in [Procs -> Labels] /\ handoff \in [Procs -> Procs \cup {None}]
        /\ vmq \in Seq(Procs) /\ idlevmq \in Seq(Procs) /\ sem \in [Procs -> Nat]
        /\ HandoffInv /\ irend \in Procs \cup {None}
    BY Parts DEF ProtocolInv, ProtocolType
  <2>2. CASE Return(p) /\ ~idle
    <3>1. /\ vmq' = Append(vmq, p) /\ UNCHANGED <<idlevmq, sem, handoff>> /\ pc[p] = "released"
          /\ \E l \in {"acqwake", "acqblock"} : pc' = [pc EXCEPT ![p] = l]
      BY <2>2 DEF Return, Acquire, QueueLast, Goto, AfterQueueing, block
    <3>2. pc'[p] \in {"acqwake", "acqblock"} /\ \A q \in Procs \ {p} : pc'[q] = pc[q]
      BY <2>1, <3>1
    <3>3. Elements(vmq') = Elements(vmq) \cup {p}
      <4>1. Elements(Append(vmq, p)) = Elements(vmq) \cup {p} BY SMT, <2>1, <1>AddSet
      <4> QED BY <3>1, <4>1
    <3>4. pc[p] \notin Handing BY <3>1 DEF Handing
    <3> QED BY <3>1, <3>2, <3>3, <3>4, <1>WaitStep
  <2>3. CASE Startup(p) /\ ~idle
    <3>1. /\ idlevmq' = <<p>> \o idlevmq /\ UNCHANGED <<vmq, sem, handoff>> /\ pc[p] = "startup"
          /\ pc' = [pc EXCEPT ![p] = "startblock"]
      BY <2>3 DEF Startup, StartupTakes, Goto, block
    <3>2. pc'[p] = "startblock" /\ \A q \in Procs \ {p} : pc'[q] = pc[q]
      BY <2>1, <3>1
    <3>3. Elements(idlevmq') = Elements(idlevmq) \cup {p}
      <4>1. Elements(<<p>> \o idlevmq) = Elements(idlevmq) \cup {p} BY SMT, <2>1, PushSet
      <4> QED BY <3>1, <4>1
    <3>4. pc[p] \notin Handing BY <3>1 DEF Handing
    <3> QED BY <3>1, <3>2, <3>3, <3>4, <1>WaitStep
  <2>4. CASE (Return(p) \/ Startup(p)) /\ idle
    <3>1. /\ UNCHANGED <<vmq, idlevmq, sem, handoff>> /\ pc[p] \in {"startup", "released"}
          /\ \E l \in {"loop", Back(p)} : pc' = [pc EXCEPT ![p] = l]
      BY <2>4 DEF Startup, Return, Acquire, Enter, StartupTakes, Goto, block
    <3>2. \A l \in {"loop", Back(p)} : l \notin VMBlocked \cup {"yieldready"}
      BY DEF VMBlocked, Back
    <3>3. pc[p] \notin Handing BY <3>1 DEF Handing
    <3> QED BY <3>1, <3>2, <3>3, <1>WaitAside
  <2>5. CASE AcquireWake(p)
    <3>1. /\ UNCHANGED <<vmq, idlevmq, handoff>> /\ pc[p] = "acqwake"
          /\ pc' = [pc EXCEPT ![p] = "acqblock"]
          /\ UNCHANGED sem \/ (irend \in Procs /\ sem' = [sem EXCEPT ![irend] = @ + 1])
      BY <2>1, <2>5 DEF AcquireWake, osready, Goto, vmlock
    <3>2. pc'[p] = "acqblock" /\ \A q \in Procs \ {p} : pc'[q] = pc[q] BY <2>1, <3>1
    <3>3. \A q \in Procs : sem[q] > 0 => sem'[q] > 0
      <4>1. CASE UNCHANGED sem BY <4>1
      <4>2. CASE irend \in Procs /\ sem' = [sem EXCEPT ![irend] = @ + 1] BY SMT, <2>1, <4>2
      <4> QED BY <3>1, <4>1, <4>2
    <3>4. pc[p] \notin Handing /\ pc[p] \in VMBlocked BY <3>1 DEF Handing, VMBlocked
    <3>5. \/ p \in Elements(vmq) \cup Elements(idlevmq) \/ sem[p] > 0
          \/ \E r \in Procs : pc[r] \in Handing /\ handoff[r] = p
      BY <3>4 DEF WaitInv
    <3> QED BY <3>1, <3>2, <3>3, <3>4, <3>5, <1>WaitStep
  <2>6. CASE ReleaseReady(p) \/ YieldReady(p)
    <3>1. /\ UNCHANGED <<vmq, idlevmq>> /\ pc[p] \in {"relready", "yieldready"}
          /\ handoff' = [handoff EXCEPT ![p] = None]
          /\ sem' = [sem EXCEPT ![handoff[p]] = @ + 1]
          /\ \/ pc[p] = "relready" /\ pc' = [pc EXCEPT ![p] = "released"]
             \/ pc[p] = "yieldready" /\ pc' = [pc EXCEPT ![p] = "yieldblock"]
      BY <2>6 DEF ReleaseReady, YieldReady, osready, Goto, vmlock, Set
    <3>2. /\ \A q \in Procs \ {p} : pc'[q] = pc[q] /\ handoff'[q] = handoff[q]
          /\ pc'[p] \in {"released", "yieldblock"} /\ (pc'[p] = "yieldblock" => pc[p] = "yieldready")
      BY <2>1, <3>1
    <3>3. pc[p] \in Handing BY <3>1 DEF Handing
    <3>4. handoff[p] \in Procs /\ handoff[p] # p
      BY <2>1, <3>1, <3>3 DEF HandoffInv, VMBlocked
    <3>5. (\A q \in Procs : sem[q] > 0 => sem'[q] > 0) /\ sem'[handoff[p]] > 0
      BY SMTT(30), <2>1, <3>1, <3>4
    <3>6. pc[p] = "yieldready" =>
            \/ p \in Elements(vmq) \cup Elements(idlevmq) \/ sem[p] > 0
            \/ \E r \in Procs : pc[r] \in Handing /\ handoff[r] = p
      BY DEF WaitInv
    <3>7. pc'[p] \in VMBlocked \cup {"yieldready"} => pc[p] = "yieldready"
      BY <3>2 DEF VMBlocked
    <3>8. pc'[p] \in VMBlocked \cup {"yieldready"} =>
            \/ p \in Elements(vmq') \cup Elements(idlevmq') \/ sem'[p] > 0
            \/ \E r \in Procs \ {p} : pc[r] \in Handing /\ handoff[r] = p
      BY <3>1, <3>4, <3>5, <3>6, <3>7
    <3> QED BY <3>1, <3>2, <3>3, <3>5, <3>8, <1>WaitStep
  <2> QED BY <2>2, <2>3, <2>4, <2>5, <2>6

(* A step inside the machine, or into it with what osblock took.           *)
<1>InsideWait.
     ASSUME IInv, WaitInv, NEW p \in Procs,
            \/ AcquireGo(p) \/ StartupGo(p) \/ ExecAtIdle(p) \/ EndFinalize(p) \/ EndGC(p)
            \/ IdleSleep(p) \/ IdleWoken(p) \/ Run(p) \/ YieldGo(p) \/ EndSlice(p)
            \/ Delprog(p) \/ BusyGC(p) \/ Block(p) \/ Exception(p) \/ Broken(p)
            \/ \E x \in Progs : Addrun(p, x)
     PROVE  WaitInv'
  <2> USE <1>InsideWait
  <2>1. pc \in [Procs -> Labels] /\ sem \in [Procs -> Nat] BY Parts DEF ProtocolType
  <2>2. CASE AcquireGo(p) \/ StartupGo(p) \/ IdleWoken(p) \/ YieldGo(p)
    <3>1. /\ UNCHANGED <<vmq, idlevmq, handoff>> /\ sem' = [sem EXCEPT ![p] = @ - 1]
          /\ pc[p] \in {"acqblock", "startblock", "idleblk", "yieldblock"}
      BY <2>2 DEF AcquireGo, StartupGo, IdleWoken, YieldGo, osblock, vmlock
    <3>2. \E l \in {"loop", "xec", "gc", Back(p)} : pc' = [pc EXCEPT ![p] = l]
      <4>1. CASE AcquireGo(p) BY <4>1 DEF AcquireGo, Enter, Goto
      <4>2. CASE StartupGo(p) \/ IdleWoken(p) BY <4>2 DEF StartupGo, IdleWoken, Goto
      <4>3. CASE YieldGo(p) BY <4>3 DEF YieldGo, RunHead, Goto
      <4> QED BY <2>2, <4>1, <4>2, <4>3
    <3>3. \A l \in {"loop", "xec", "gc", Back(p)} : l \notin VMBlocked \cup {"yieldready"}
      BY DEF VMBlocked, Back
    <3>4. \A q \in Procs \ {p} : sem'[q] = sem[q] BY <2>1, <3>1
    <3>5. pc[p] \notin Handing BY <3>1 DEF Handing
    <3> QED BY <3>1, <3>2, <3>3, <3>4, <3>5, <1>WaitAside
  <2>3. CASE \E x \in Progs : Addrun(p, x)
    <3>1. UNCHANGED <<vmq, idlevmq, handoff, sem, pc>> /\ pc[p] \in {"xec", "kwork"}
      BY <2>3 DEF Addrun, vmlock, block
    <3>2. pc' = [pc EXCEPT ![p] = pc[p]] BY <2>1, <3>1
    <3>3. pc[p] \notin Handing /\ pc[p] \notin VMBlocked \cup {"yieldready"}
      BY <3>1 DEF Handing, VMBlocked
    <3> QED BY <3>1, <3>2, <3>3, <1>WaitAside
  <2>4. CASE \/ ExecAtIdle(p) \/ EndFinalize(p) \/ EndGC(p) \/ IdleSleep(p) \/ Run(p)
             \/ EndSlice(p) \/ Delprog(p) \/ BusyGC(p) \/ Block(p) \/ Exception(p) \/ Broken(p)
    <3>1. UNCHANGED <<vmq, idlevmq, handoff, sem>> /\ pc[p] \in InVM
      BY <2>4 DEF ExecAtIdle, EndFinalize, EndGC, IdleSleep, Run, EndSlice, Delprog, BusyGC,
                  Block, Exception, Broken, vmlock, block, InVM
    <3>2. \E l \in InVM : pc' = [pc EXCEPT ![p] = l]
      <4>1. \A l \in {"loop", "idlegc", "sleep", "idleblk", "xec", "gc", "busygc", "cleanexit"} : l \in InVM
        BY DEF InVM
      <4>2. CASE ExecAtIdle(p) \/ EndFinalize(p) \/ EndGC(p) \/ IdleSleep(p)
        BY <4>1, <4>2 DEF ExecAtIdle, EndFinalize, EndGC, IdleSleep, Goto
      <4>3. CASE Run(p) \/ EndSlice(p) \/ Delprog(p)
        BY <4>1, <4>3 DEF Run, RunHead, EndSlice, Delprog, Goto
      <4>4. CASE BusyGC(p) \/ Block(p) \/ Exception(p) \/ Broken(p)
        BY <4>1, <4>4 DEF BusyGC, Block, Exception, Broken, Goto
      <4> QED BY <2>4, <4>2, <4>3, <4>4
    <3>3. pc[p] \notin Handing /\ \A l \in InVM : l \notin VMBlocked \cup {"yieldready"}
      BY <3>1 DEF InVM, Handing, VMBlocked
    <3> QED BY <3>1, <3>2, <3>3, <1>WaitAside
  <2> QED BY <2>2, <2>3, <2>4

<1> SUFFICES ASSUME IInv, WaitInv, [Next]_vars PROVE WaitInv' BY SMT
<1>1. CASE UNCHANGED vars
  <2>1. UNCHANGED <<vmq, idlevmq, handoff, sem, pc>> BY <1>1 DEF vars, vmlock, block
  <2> QED BY <2>1 DEF WaitInv, Elements
<1>2. ASSUME NEW p \in Procs, Step(p) \/ Choice(p) PROVE WaitInv'
  <2>1. CASE \/ Syscall(p) \/ KprocRelease(p) \/ Exit(p) \/ Finalize(p)
    BY <2>1, <1>ReleaseWait DEF Syscall, KprocRelease, Exit, Finalize
  <2>2. ASSUME NEW n \in Interps, ReleaseKproc(p, n) PROVE WaitInv'
    <3>1. /\ n \in Procs /\ pc[n] = "none" /\ pc[p] = "relkproc" /\ pc \in [Procs -> Labels]
          /\ pc' = [pc EXCEPT ![p] = "released", ![n] = "startup"]
          /\ UNCHANGED <<vmq, idlevmq, handoff, sem>>
      BY <2>2, Parts DEF ReleaseKproc, Procs, vmlock, block
    <3>2. pc'[p] = "released" /\ pc'[n] = "startup" /\ \A q \in Procs \ {p, n} : pc'[q] = pc[q]
      BY <3>1
    <3>3. \A q \in Procs : /\ pc'[q] \in VMBlocked \cup {"yieldready"} => pc'[q] = pc[q]
                           /\ pc[q] \in Handing => pc'[q] = pc[q]
      BY <3>1, <3>2 DEF VMBlocked, Handing
    <3> QED BY SMT, <3>1, <3>3 DEF WaitInv, Elements
  <2>3. ASSUME NEW k \in Kprocs, Rptproc(p, k) PROVE WaitInv'
    <3>1. /\ k \in Procs /\ pc[k] = "none" /\ pc' = [pc EXCEPT ![k] = "released"]
          /\ UNCHANGED <<vmq, idlevmq, handoff, sem>>
      BY <2>3 DEF Rptproc, Procs, Goto, vmlock, block
    <3>2. pc[k] \notin Handing /\ "released" \notin VMBlocked \cup {"yieldready"}
      BY <3>1 DEF Handing, VMBlocked
    <3> QED BY <3>1, <3>2, <1>WaitAside
  <2> QED BY <1>2, <2>1, <2>2, <2>3, <1>YieldWait, <1>QueueWait, <1>InsideWait DEF Step, Choice
<1> QED BY <1>1, <1>2 DEF Next

-----------------------------------------------------------------------------
(* How many interpreters there can be.                                     *)

(* Interpreters that are all out hold a Prog each, but for the collector's.*)
AllOut == \A p \in Alive : pc[p] \in Out
OutBound == IsFiniteSet(Alive) /\ Cardinality(Alive) <= Limit - 1

\* With all of them out, the interpreters are bounded by the Progs.
LEMMA OutBounded == IInv /\ AccInv /\ GcInv /\ AllOut => OutBound
<1> SUFFICES ASSUME IInv, AccInv, GcInv, AllOut PROVE OutBound BY SMT
<1> DEFINE A == {p \in Alive : utype[p] = "Interp"}
           B == {p \in Alive : Finalizing(p)}
           f == [p \in A |-> iprog[p]]
<1>1. Alive \subseteq Procs /\ Alive \subseteq Interps BY DEF Alive, Procs
<1>2. \A p \in A : iprog[p] \in Progs /\ \A q \in A : iprog[p] = iprog[q] => p = q
  BY SMT, <1>1 DEF AccInv, HeldInv, AllOut
<1>3. f \in [A -> Progs] /\ \A p, q \in A : f[p] = f[q] => p = q BY <1>2
<1>4. f \in Injection(A, Progs) BY <1>3 DEF Injection, IsInjective
<1>6. IsFiniteSet(A) /\ Cardinality(A) <= Cardinality(Progs)
  <2> HIDE DEF A, f
  <2> QED BY <1>4, ProgsFinite, FS_Injection
<1>7. IsFiniteSet(B) /\ Cardinality(B) <= (IF Finalizers THEN 1 ELSE 0)
  <2>1. CASE B = {} BY SMTT(30), <2>1, FS_EmptySet
  <2>2. ASSUME NEW b \in B PROVE B = {b} /\ Finalizers
    BY <1>1, <2>2 DEF GcInv, CollectorAlone, Finalizing
  <2>3. ASSUME NEW b \in B PROVE IsFiniteSet(B) /\ Cardinality(B) = 1
    <3>1. IsFiniteSet({b}) /\ Cardinality({b}) = 1 BY FS_Singleton
    <3> QED BY <2>2, <2>3, <3>1
  <2> QED BY SMTT(30), <2>1, <2>2, <2>3
<1>8. Alive = A \cup B
  <2>1. ASSUME NEW p \in Alive PROVE utype[p] = "Interp" \/ Finalizing(p)
    <3>1. pc[p] \in Out /\ pc[p] \notin {"idlegc", "busygc"} BY DEF AllOut, Out
    <3>2. utype[p] # "Kproc" BY <1>1, IschedAssumption DEF AccInv, WorkInv
    <3>3. utype[p] \in Types BY <1>1, Parts DEF DataType
    <3> QED BY <3>1, <3>2, <3>3 DEF Finalizing, Types
  <2> QED BY <2>1
<1>9. IsFiniteSet(A \cup B)
      /\ Cardinality(A \cup B) = Cardinality(A) + Cardinality(B) - Cardinality(A \cap B)
  BY <1>6, <1>7, FS_Union
<1>10. IsFiniteSet(A \cap B) BY <1>6, FS_Subset
<1>11. /\ Cardinality(A \cap B) \in Nat /\ Cardinality(A) \in Nat /\ Cardinality(B) \in Nat
       /\ Cardinality(Progs) \in Nat
  BY <1>6, <1>7, <1>10, ProgsFinite, FS_CardinalityType
<1> HIDE DEF A, B
<1> QED BY SMTT(30), <1>6, <1>7, <1>8, <1>9, <1>11 DEF OutBound, Limit

(* Initially there is the first interpreter.                               *)
LEMMA InitCreate == Init => CreateInv
<1> SUFFICES ASSUME Init PROVE CreateInv BY SMT
<1>1. \A q \in Procs : pc[q] = IF q = Boot THEN "startup" ELSE "none" BY DEF Init
<1>2. Boot \in Interps /\ Boot \in Procs BY IschedAssumption DEF Procs
<1>3. Alive = {Boot} BY <1>1, <1>2 DEF Alive, Procs
<1>4. Creators = {} BY <1>1 DEF Creators
<1>5. IsFiniteSet({Boot}) /\ Cardinality({Boot}) = 1 BY FS_Singleton
<1>6. IsFiniteSet({}) /\ Cardinality({}) = 0 BY FS_EmptySet
<1>7. Limit \in Nat /\ Limit >= 1
  <2>1. Cardinality(Progs) \in Nat BY ProgsFinite, FS_CardinalityType
  <2> QED BY SMT, <2>1 DEF Limit
<1>8. \A q \in Procs : pc[q] \in Coming => q = Boot BY <1>1 DEF Coming
<1> QED BY SMTT(30), <1>1, <1>3, <1>4, <1>5, <1>6, <1>7, <1>8 DEF CreateInv

(* Every step keeps the bound.                                             *)
LEMMA NextCreate ==
  IInv /\ IInv' /\ AccInv' /\ GcInv' /\ WaitInv /\ CreateInv /\ [Next]_vars => CreateInv'

(* The step of a thread inside the machine, or waiting for it, that        *)
(* creates nothing; it may start a kernel thread.                          *)
<1>CreateAside.
     ASSUME IInv, CreateInv, NEW p \in Procs, pc[p] \notin Coming \cup {"none"},
            pc'[p] \notin Coming \cup {"none"}, creating => creating',
            \A q \in Procs \ {p} : \/ pc'[q] = pc[q]
                                   \/ q \in Kprocs /\ pc[q] = "none" /\ pc'[q] = "released"
     PROVE  CreateInv'
  <2> USE <1>CreateAside
  <2>1. \A q \in Procs : pc'[q] \in Coming <=> pc[q] \in Coming BY DEF Coming
  <2>2. Alive' = Alive
    <3>1. \A q \in Interps : q \in Procs /\ q \notin Kprocs BY IschedAssumption DEF Procs
    <3>2. \A q \in Interps : pc'[q] # "none" <=> pc[q] # "none" BY <3>1
    <3> QED BY <3>2 DEF Alive
  <2>3. Creators' = Creators
    <3>1. \A q \in Procs : pc'[q] = "relkproc" <=> pc[q] = "relkproc" BY DEF Coming
    <3> QED BY <3>1 DEF Creators
  <2>4. creating \/ \A q \in Procs : pc[q] \notin Coming BY DEF CreateInv, Coming
  <2>5. creating' \/ \A q \in Procs : pc'[q] \notin Coming BY <2>1, <2>4
  <2>6. Limit' = Limit BY DEF Limit
  <2>7. \A r, q \in Procs : pc'[r] \in Coming /\ pc'[q] \in Coming => r = q BY <2>1 DEF CreateInv
  <2>8. /\ IsFiniteSet(Alive') /\ IsFiniteSet(Creators')
        /\ Cardinality(Alive') + Cardinality(Creators') <= Limit'
    BY <2>2, <2>3, <2>6 DEF CreateInv
  <2> QED BY <2>5, <2>7, <2>8 DEF CreateInv

(* release creates an interpreter only when all of them are out.           *)
<1>ReleaseAllOut.
     ASSUME IInv, WaitInv, CreateInv, NEW p \in Procs, ~creating,
            pc[p] \in {"xec", "idlegc", "busygc", "kwork"}, vmq = <<>>, idlevmq = <<>>,
            pc' = [pc EXCEPT ![p] = "relkproc"]
     PROVE  /\ \A q \in Procs : pc[q] \notin Coming
            /\ AllOut'
  <2> USE <1>ReleaseAllOut
  <2>1. pc \in [Procs -> Labels] /\ TokenInv BY Parts
  <2>2. HasToken(p) /\ \A q \in Procs : HasToken(q) => q = p
    BY <2>1 DEF TokenInv, HasToken, InVM
  <2>3. \A q \in Procs : pc[q] \notin Coming BY DEF CreateInv, Coming
  <2>4. Elements(vmq) = {} /\ Elements(idlevmq) = {} BY SMT DEF Elements
  <2>5. ASSUME NEW q \in Procs, q # p PROVE pc[q] \in {"released", "none"}
    <3>1. pc[q] \notin InVM \cup Handing BY <2>2, <2>5 DEF HasToken
    <3>2. pc[q] \notin VMBlocked
      <4>1. ASSUME pc[q] \in VMBlocked PROVE FALSE
        <5>1. ~(sem[q] > 0) BY <2>2, <2>5, <4>1 DEF HasToken
        <5>2. PICK r \in Procs : pc[r] \in Handing /\ handoff[r] = q
          BY <2>4, <4>1, <5>1 DEF WaitInv
        <5>3. r = p BY <2>2, <5>2 DEF HasToken
        <5> QED BY <5>2, <5>3 DEF Handing
      <4> QED BY <4>1
    <3>3. pc[q] \in Labels BY <2>1
    <3> QED BY <2>3, <3>1, <3>2, <3>3 DEF Labels, Outside, Coming
  <2>6. ASSUME NEW q \in Procs PROVE pc'[q] \in Out \cup {"none"}
    <3>1. CASE q = p BY <2>1, <3>1 DEF Out
    <3>2. CASE q # p
      <4>1. pc'[q] = pc[q] BY <2>1, <3>2
      <4> QED BY <2>5, <3>2, <4>1 DEF Out
    <3> QED BY <3>1, <3>2
  <2>7. AllOut'
    <3>1. \A q \in Interps : q \in Procs BY DEF Procs
    <3> QED BY <2>6, <3>1 DEF AllOut, Alive
  <2> QED BY <2>3, <2>7

(* The release that decides to create an interpreter keeps the bound.      *)
<1>CreateRelease.
     ASSUME IInv, AccInv', GcInv', IInv', WaitInv, CreateInv, NEW p \in Procs, ~creating,
            pc[p] \in {"xec", "idlegc", "busygc", "kwork"}, vmq = <<>>, idlevmq = <<>>,
            creating', pc' = [pc EXCEPT ![p] = "relkproc"]
     PROVE  CreateInv'
  <2> USE <1>CreateRelease
  <2>1. pc \in [Procs -> Labels] BY Parts
  <2>2. (\A q \in Procs : pc[q] \notin Coming) /\ AllOut' BY <1>ReleaseAllOut
  <2>3. OutBound'
    <3>1. (IInv /\ AccInv /\ GcInv /\ AllOut)' => OutBound' BY OutBounded, PTL
    <3> QED BY <2>2, <3>1
  <2>4. pc'[p] = "relkproc" /\ \A q \in Procs \ {p} : pc'[q] = pc[q] BY <2>1
  <2>5. \A q \in Procs : pc'[q] \in Coming => q = p BY <2>2, <2>4
  <2>6. Creators' = {p} BY <2>4, <2>5 DEF Creators, Coming
  <2>7. IsFiniteSet({p}) /\ Cardinality({p}) = 1 BY FS_Singleton
  <2>8. /\ IsFiniteSet(Alive') /\ Cardinality(Alive') <= Limit' - 1
        /\ IsFiniteSet(Creators') /\ Cardinality(Creators') = 1
    BY <2>3, <2>6, <2>7 DEF OutBound
  <2>9. Limit' \in Int /\ Cardinality(Alive') \in Int
    <3>1. Cardinality(Progs) \in Nat /\ Cardinality(Alive') \in Nat
      BY <2>8, ProgsFinite, FS_CardinalityType
    <3> QED BY SMT, <3>1 DEF Limit
  <2>10. Cardinality(Alive') + Cardinality(Creators') <= Limit' BY SMT, <2>8, <2>9
  <2>11. \A r, q \in Procs : pc'[r] \in Coming /\ pc'[q] \in Coming => r = q BY <2>5
  <2> QED BY <2>8, <2>10, <2>11 DEF CreateInv

(* The interpreter that was announced is created.                          *)
<1>CreateKproc.
     ASSUME IInv, CreateInv, NEW p \in Procs, NEW n \in Interps, ReleaseKproc(p, n)
     PROVE  CreateInv'
  <2> USE <1>CreateKproc
  <2>1. /\ n \in Procs /\ n # p /\ pc[n] = "none" /\ pc[p] = "relkproc" /\ creating' = creating
        /\ pc \in [Procs -> Labels] /\ pc' = [pc EXCEPT ![p] = "released", ![n] = "startup"]
    BY Parts DEF ReleaseKproc, Procs, vmlock
  <2>2. pc'[p] = "released" /\ pc'[n] = "startup" /\ \A q \in Procs \ {p, n} : pc'[q] = pc[q]
    BY <2>1
  <2>3. \A q \in Procs : pc[q] \in Coming <=> q = p BY <2>1 DEF CreateInv, Coming
  <2>4. \A q \in Procs : pc'[q] \in Coming <=> q = n BY <2>1, <2>2, <2>3 DEF Coming
  <2>5. creating' BY <2>1, <2>3 DEF CreateInv
  <2>6. Creators = {p} /\ Creators' = {}
    <3>1. \A q \in Procs : (pc[q] = "relkproc" <=> q = p) /\ pc'[q] # "relkproc"
      BY <2>1, <2>2, <2>3, <2>4 DEF Coming
    <3> QED BY <3>1 DEF Creators
  <2>7. n \notin Alive /\ Alive' = Alive \cup {n}
    <3>1. Interps \subseteq Procs BY DEF Procs
    <3>2. \A q \in Interps : pc'[q] # "none" <=> pc[q] # "none" \/ q = n BY <2>1, <2>2, <3>1
    <3> QED BY <2>1, <3>2 DEF Alive
  <2>8. /\ IsFiniteSet(Alive) /\ Cardinality(Alive) + Cardinality(Creators) <= Limit
        /\ Limit' = Limit
    BY DEF CreateInv, Limit
  <2>9. IsFiniteSet(Alive \cup {n}) /\ Cardinality(Alive \cup {n}) = Cardinality(Alive) + 1
    BY <2>7, <2>8, FS_AddElement
  <2>10. /\ Cardinality(Creators) = 1 /\ IsFiniteSet(Creators') /\ Cardinality(Creators') = 0
    <3>1. Cardinality({p}) = 1 BY FS_Singleton
    <3>2. IsFiniteSet({}) /\ Cardinality({}) = 0 BY FS_EmptySet
    <3> QED BY <2>6, <3>1, <3>2
  <2>11. /\ IsFiniteSet(Alive')
         /\ Cardinality(Alive') + Cardinality(Creators') <= Limit'
    <3>1. Cardinality(Alive) \in Nat BY <2>8, FS_CardinalityType
    <3>2. IsFiniteSet(Alive') /\ Cardinality(Alive') = Cardinality(Alive) + 1 BY <2>7, <2>9
    <3> QED BY SMTT(30), <2>8, <2>10, <3>1, <3>2
  <2>12. \A r, q \in Procs : pc'[r] \in Coming /\ pc'[q] \in Coming => r = q BY <2>4
  <2> QED BY <2>5, <2>10, <2>11, <2>12 DEF CreateInv

(* The new interpreter has arrived.                                        *)
<1>CreateStartup.
     ASSUME IInv, CreateInv, NEW p \in Procs, Startup(p)
     PROVE  CreateInv'
  <2> USE <1>CreateStartup
  <2>1. /\ pc[p] = "startup" /\ pc \in [Procs -> Labels]
        /\ \E m \in {"loop", "startblock"} : pc' = [pc EXCEPT ![p] = m]
    BY Parts DEF Startup, Goto
  <2>2. pc'[p] \in {"loop", "startblock"} /\ \A q \in Procs \ {p} : pc'[q] = pc[q]
    BY <2>1
  <2>3. \A q \in Procs : pc[q] \in Coming => q = p BY <2>1 DEF CreateInv, Coming
  <2>4. \A q \in Procs : pc'[q] \notin Coming BY <2>2, <2>3 DEF Coming
  <2>5. Alive' = Alive
    <3>1. \A q \in Interps : pc'[q] # "none" <=> pc[q] # "none" BY <2>1, <2>2 DEF Procs
    <3> QED BY <3>1 DEF Alive
  <2>6. Creators' = Creators
    <3>1. \A q \in Procs : pc'[q] # "relkproc" BY <2>4 DEF Coming
    <3>2. \A q \in Procs : pc[q] # "relkproc" BY <2>1, <2>3 DEF Coming
    <3> QED BY <3>1, <3>2 DEF Creators
  <2>7. Limit' = Limit BY DEF Limit
  <2>8. /\ IsFiniteSet(Alive') /\ IsFiniteSet(Creators')
        /\ Cardinality(Alive') + Cardinality(Creators') <= Limit'
    BY <2>5, <2>6, <2>7 DEF CreateInv
  <2> QED BY <2>4, <2>8 DEF CreateInv

(* A release, whichever way it goes.                                       *)
<1>CreateOnRelease.
     ASSUME IInv, IInv', AccInv', GcInv', WaitInv, CreateInv, NEW p \in Procs, Release(p),
            pc[p] \in {"xec", "idlegc", "busygc", "kwork"}
     PROVE  CreateInv'
  <2> USE <1>CreateOnRelease
  <2>1. pc \in [Procs -> Labels] BY Parts
  <2>2. CASE vmq = <<>> /\ idlevmq = <<>> /\ ~creating
    <3>1. creating' /\ pc' = [pc EXCEPT ![p] = "relkproc"] BY <2>2 DEF Release, AfterIdling, Goto
    <3> QED BY <2>2, <3>1, <1>CreateRelease
  <2>3. CASE vmq # <<>> \/ idlevmq # <<>> \/ creating
    <3>1. creating => creating' BY DEF Release
    <3>2. \E m \in {"released", "relready"} : pc' = [pc EXCEPT ![p] = m]
      <4>1. CASE vmq # <<>> \/ idlevmq # <<>>
        BY <4>1 DEF Release, Goto
      <4>2. CASE vmq = <<>> /\ idlevmq = <<>> /\ creating
        BY <4>2 DEF Release, AfterIdling, Goto
      <4> QED BY <2>3, <4>1, <4>2
    <3>3. pc'[p] \in {"released", "relready"} /\ \A q \in Procs \ {p} : pc'[q] = pc[q]
      BY <2>1, <3>2
    <3> QED BY <3>1, <3>3, <1>CreateAside DEF Coming
  <2> QED BY <2>2, <2>3

<1> SUFFICES ASSUME IInv, IInv', AccInv', GcInv', WaitInv, CreateInv, [Next]_vars
             PROVE  CreateInv'
  BY SMT
<1>1. pc \in [Procs -> Labels] BY Parts
<1>2. CASE UNCHANGED vars
  <2>1. UNCHANGED <<pc, creating>> BY <1>2 DEF vars, vmlock
  <2>2. Alive' = Alive /\ Creators' = Creators /\ Limit' = Limit
    BY <2>1 DEF Alive, Creators, Limit
  <2>3. /\ IsFiniteSet(Alive') /\ IsFiniteSet(Creators')
        /\ Cardinality(Alive') + Cardinality(Creators') <= Limit'
    BY <2>2 DEF CreateInv
  <2> QED BY <2>1, <2>3 DEF CreateInv
<1>3. ASSUME NEW p \in Procs, Step(p) \/ Choice(p) PROVE CreateInv'
  <2>1. CASE Syscall(p) \/ KprocRelease(p) \/ Exit(p) \/ Finalize(p)
    BY <2>1, <1>CreateOnRelease DEF Syscall, KprocRelease, Exit, Finalize
  <2>2. ASSUME NEW m \in Labels, pc' = [pc EXCEPT ![p] = m], m \notin Coming \cup {"none"},
               pc[p] \notin Coming \cup {"none"}, UNCHANGED creating
        PROVE  CreateInv'
    <3>1. pc'[p] = m /\ \A q \in Procs \ {p} : pc'[q] = pc[q] BY <1>1, <2>2
    <3> QED BY <2>2, <3>1, <1>CreateAside
  <2>3. \A m \in {"loop", "idlegc", "sleep", "idleblk", "xec", "gc", "busygc", "cleanexit", "kwork",
                  "exit", "finalized", "released", "acqwake", "acqblock", "yieldready",
                  "yieldblock"} : m \in Labels /\ m \notin Coming \cup {"none"}
    BY DEF Labels, InVM, Handing, VMBlocked, Outside, Coming
  <2>4. CASE AcquireWake(p) \/ ReleaseReady(p) \/ YieldReady(p) \/ Yield(p)
    <3>1. /\ pc[p] \notin Coming \cup {"none"} /\ UNCHANGED creating
          /\ \E m \in {"acqblock", "released", "yieldblock", "yieldready"} : pc' = [pc EXCEPT ![p] = m]
      BY <2>4 DEF AcquireWake, ReleaseReady, YieldReady, Yield, Goto, vmlock, Coming
    <3> QED BY <2>2, <2>3, <3>1
  <2>5. CASE Return(p) \/ AcquireGo(p)
    <3>1. pc[p] \notin Coming \cup {"none"} /\ UNCHANGED creating
      BY <2>5 DEF Return, AcquireGo, Acquire, vmlock, Coming
    <3>2. \E m \in {"acqblock", "acqwake", Back(p)} : pc' = [pc EXCEPT ![p] = m]
      BY <2>5 DEF Return, AcquireGo, Acquire, Enter, AfterQueueing, Goto
    <3>3. Back(p) \in {"kwork", "exit", "xec", "finalized"} BY DEF Back
    <3> QED BY <2>2, <2>3, <3>1, <3>2, <3>3
  <2>6. CASE StartupGo(p) \/ IdleSleep(p) \/ IdleWoken(p) \/ Run(p) \/ YieldGo(p)
    <3>1. pc[p] \notin Coming \cup {"none"} /\ UNCHANGED creating
      BY <2>6 DEF StartupGo, IdleSleep, IdleWoken, Run, YieldGo, vmlock, Coming
    <3>2. \E m \in {"loop", "idleblk", "xec", "gc"} : pc' = [pc EXCEPT ![p] = m]
      BY <2>6 DEF StartupGo, IdleSleep, IdleWoken, Run, YieldGo, RunHead, Goto
    <3> QED BY <2>2, <2>3, <3>1, <3>2
  <2>7. CASE ExecAtIdle(p) \/ EndFinalize(p) \/ EndGC(p) \/ BusyGC(p)
    <3>1. pc[p] \notin Coming \cup {"none"} /\ UNCHANGED creating
      BY <2>7 DEF ExecAtIdle, EndFinalize, EndGC, BusyGC, vmlock, Coming
    <3>2. \E m \in {"loop", "idlegc", "busygc", "sleep"} : pc' = [pc EXCEPT ![p] = m]
      BY <2>7 DEF ExecAtIdle, EndFinalize, EndGC, BusyGC, Goto
    <3> QED BY <2>2, <2>3, <3>1, <3>2
  <2>8. CASE EndSlice(p) \/ Delprog(p) \/ Block(p) \/ Exception(p) \/ Broken(p)
    <3>1. pc[p] \notin Coming \cup {"none"} /\ UNCHANGED creating
      BY <2>8 DEF EndSlice, Delprog, Block, Exception, Broken, vmlock, Coming
    <3>2. \E m \in {"gc", "loop", "cleanexit"} : pc' = [pc EXCEPT ![p] = m]
      BY <2>8 DEF EndSlice, Delprog, Block, Exception, Broken, Goto
    <3> QED BY <2>2, <2>3, <3>1, <3>2
  <2>9. CASE \E x \in Progs : Addrun(p, x)
    <3>1. pc[p] \notin Coming \cup {"none"} /\ UNCHANGED <<pc, creating>>
      BY <2>9 DEF Addrun, vmlock, Coming
    <3> QED BY <3>1, <1>CreateAside
  <2>10. ASSUME NEW k \in Kprocs, Rptproc(p, k) PROVE CreateInv'
    <3>1. /\ k \in Procs /\ pc[k] = "none" /\ pc[p] = "xec" /\ UNCHANGED creating
          /\ pc' = [pc EXCEPT ![k] = "released"]
      BY <2>10 DEF Rptproc, Procs, Goto, vmlock
    <3>2. pc'[k] = "released" /\ \A q \in Procs \ {k} : pc'[q] = pc[q] BY <1>1, <3>1
    <3> QED BY <3>1, <3>2, <1>CreateAside DEF Coming
  <2> QED BY <1>3, <2>1, <2>4, <2>5, <2>6, <2>7, <2>8, <2>9, <2>10, <1>CreateKproc, <1>CreateStartup DEF Step, Choice
<1> QED BY <1>2, <1>3 DEF Next

(* The demand for interpreters is bounded: release creates one only when   *)
(* every other is out with a Prog of its own (or with the collector's      *)
(* finalizer), so there are never more than Progs and one or two.          *)
THEOREM InterpretersBounded == Spec => []InterpsBounded
<1>1. CreateInv => InterpsBounded BY DEF CreateInv, InterpsBounded, Alive, Creators, Limit
<1> QED BY Zenon, <1>1, InitIInv, NextIInv, InitAcc, NextAcc, InitGc, NextGc, InitWait, NextWait,
           InitCreate, NextCreate, PTL DEF Spec

=============================================================================
