--------------------------- MODULE MountRpcProofs ---------------------------
(***************************************************************************)
(* Proofs about MountRpc, for any set of processes, any number of tags and *)
(* any number of interruptions.                                            *)
(***************************************************************************)
EXTENDS MountRpc, TLAPS

\* Not in a call; and at the end of one, after the last wait.
Quiet == {"idle", "vlock", "vwrite", "vread"}
Ending == {"flushfree", "unanswered", "qrm", "return"}

\* In a call whose last request has been sent.
Sent == Waiting \ {"write", "flushalloc"}

Fates == {"idle", "open", "answered", "cancelled", "ok", "interrupted", "failed", "mismatch"}

\* Who may read the connection.
ReadInv ==
  /\ \A p \in Procs : pc[p] \in {"read", "wake"} <=> rip = p
  /\ \A p \in Procs : pc[p] \in {"vwrite", "vread"} <=> umq = p
  /\ umq # None => ~mux
  /\ \A p \in Procs : pc[p] \notin Quiet => mux
  /\ \A t \in Tags : rp[t] # None => pc[rp[t]] = "blocked" /\ r[rp[t]] = t
  /\ \A p \in Procs : swi[p] => nintr[p] >= 1
  /\ \A p \in Procs : failed[p] => down /\ pc[p] \in Ending

\* The headers.  Those of a call form a chain by flushed, from r[p] to the
\* request itself.
HeaderInv ==
  /\ \A p \in Procs : r[p] = NoTag <=> pc[p] \in Quiet
  /\ \A p \in Procs : r[p] # NoTag => InUse(r[p]) /\ rpc[r[p]].req.call = p
  /\ \A t \in Tags : InUse(t) => rpc[t].req.tag = t /\ rpc[t].req.call \in Procs
  /\ \A t \in Tags : IF ~InUse(t) THEN rpc[t].flushed = NoTag
                     ELSE rpc[t].flushed = NoTag <=> rpc[t].req.old = NoTag

ChainInv ==
  /\ \A t \in Tags : LET u == rpc[t].flushed
                     IN  u # NoTag => /\ InUse(u) /\ rpc[u].req.call = rpc[t].req.call
                                      /\ \A p \in Procs : r[p] # u
                                      /\ rpc[t].req.old = IF rpc[u].req.old = NoTag THEN u
                                                          ELSE rpc[u].req.old
  /\ \A t, u \in Tags : rpc[t].flushed = rpc[u].flushed /\ rpc[t].flushed # NoTag => t = u

FreeInv ==
  /\ \A i, j \in DOMAIN rpcfree : rpcfree[i] = rpcfree[j] => i = j
  /\ \A i \in DOMAIN rpcfree : rpcfree[i] \in tags /\ ~InUse(rpcfree[i])
  /\ \A t \in Tags : InUse(t) => t \in tags

\* The request a call began with.
Orig(p) == IF rpc[r[p]].req.old = NoTag THEN r[p] ELSE rpc[r[p]].req.old

OrigInv ==
  \A p \in Procs : r[p] # NoTag =>
    /\ Orig(p) \in Tags /\ InUse(Orig(p)) 
    /\ rpc[Orig(p)].req.call = p /\ rpc[Orig(p)].req.old = NoTag

-----------------------------------------------------------------------------
(* Lists.                                                                  *)

\* t consists of the elements of s at the indices K, in their order.
Selected(t, s, K) ==
  \E g \in [DOMAIN t -> K] : Orders(g, K) /\ \A i \in DOMAIN t : t[i] = s[g[i]]

-----------------------------------------------------------------------------
(* Steps of one process, the one they may wake, and the types.             *)

USE MountAssumption DEF Tags, NoTag

\* p goes to l; a sleeper may be woken.
Moves(p, l) ==
  /\ pc' \in [Procs -> Labels] /\ pc'[p] = l
  /\ \A q \in Procs \ {p} : pc'[q] = pc[q] \/ (pc[q] = "blocked" /\ pc'[q] = "woken")

\* Whoever is known to a Rendez still sleeps on it.
Sleepers ==
  /\ rp' \in [Tags -> Procs \cup {None}]
  /\ \A t \in Tags : rp'[t] # None => pc'[rp'[t]] = "blocked" /\ r[rp'[t]] = t

USE ZenonT(30)

\* Goto is such a step of one process, and wakes nobody.
LEMMA GotoMoves ==
  ASSUME TypeOK, NEW p \in Procs, NEW l \in Labels, Goto(p, l)
  PROVE  Moves(p, l) /\ \A q \in Procs \ {p} : pc'[q] = pc[q]
BY DEF TypeOK, Goto, Moves

-----------------------------------------------------------------------------
(* Headers and tags.                                                       *)

HInv == HeaderInv /\ ChainInv /\ FreeInv /\ OrigInv

\* The request of p's call that is being waited for, and its header.
LEMMA OwnHeader ==
  ASSUME TypeOK, HInv, NEW p \in Procs, pc[p] \notin Quiet
  PROVE  /\ r[p] \in Tags /\ InUse(r[p]) /\ rpc[r[p]].req \in Message
         /\ rpc[r[p]].req.call = p /\ rpc[r[p]].req.tag = r[p]
         /\ rpc[r[p]].flushed \in 0 .. NTags
         /\ rpc[r[p]].flushed = NoTag <=> rpc[r[p]].req.old = NoTag
<1>1. r[p] \in Tags BY SMT DEF TypeOK, HInv, HeaderInv
<1>2. InUse(r[p]) /\ rpc[r[p]].req.call = p BY <1>1 DEF HInv, HeaderInv
<1>3. rpc[r[p]].req \in Message BY <1>1, <1>2 DEF TypeOK, InUse
<1>4. rpc[r[p]].flushed \in 0 .. NTags BY <1>1 DEF TypeOK
<1> QED BY <1>1, <1>2, <1>3, <1>4 DEF HInv, HeaderInv

\* A header that is allocated was not in use.
LEMMA RallocFree ==
  ASSUME TypeOK, HInv, NEW t \in Tags, Ralloc(t)
  PROVE  /\ ~InUse(t) /\ t \in tags' /\ tags \subseteq tags'
         /\ rpcfree' \in Seq(Tags) /\ Len(rpcfree') <= MaxFree /\ tags' \subseteq Tags
         /\ \A i, j \in DOMAIN rpcfree' : rpcfree'[i] = rpcfree'[j] => i = j
         /\ \A i \in DOMAIN rpcfree' : rpcfree'[i] \in tags' /\ ~InUse(rpcfree'[i]) /\ rpcfree'[i] # t
<1>0. rpcfree \in Seq(Tags) /\ Len(rpcfree) \in Nat /\ Len(rpcfree) <= MaxFree /\ tags \subseteq Tags
  BY SMTT(30) DEF TypeOK
<1>1. /\ \A i, j \in DOMAIN rpcfree : rpcfree[i] = rpcfree[j] => i = j
      /\ \A i \in DOMAIN rpcfree : rpcfree[i] \in tags /\ ~InUse(rpcfree[i])
      /\ \A u \in Tags : InUse(u) => u \in tags
  BY DEF HInv, FreeInv
<1>2. CASE rpcfree # <<>>
  <2>1. t = Head(rpcfree) /\ rpcfree' = Tail(rpcfree) /\ tags' = tags BY <1>2 DEF Ralloc
  <2>2. /\ Head(rpcfree) = rpcfree[1] /\ 1 \in DOMAIN rpcfree
        /\ Tail(rpcfree) \in Seq(Tags) /\ Len(Tail(rpcfree)) = Len(rpcfree) - 1
        /\ \A i \in DOMAIN Tail(rpcfree) :
             /\ Tail(rpcfree)[i] = rpcfree[i + 1] /\ i + 1 \in DOMAIN rpcfree /\ i + 1 # 1
             /\ i \in Nat
    BY SMT, <1>0, <1>2
  <2>3. ~InUse(t) /\ t \in tags BY SMT, <1>1, <2>1, <2>2
  <2>4. Len(rpcfree') <= MaxFree BY SMT, <1>0, <2>1, <2>2
  <2>5. ASSUME NEW i \in DOMAIN rpcfree'
        PROVE  rpcfree'[i] \in tags' /\ ~InUse(rpcfree'[i]) /\ rpcfree'[i] # t
    <3>1. rpcfree'[i] = rpcfree[i + 1] /\ i + 1 \in DOMAIN rpcfree /\ i + 1 # 1 BY <2>1, <2>2, <2>5
    <3> QED BY <1>1, <2>1, <2>2, <3>1
  <2>6. ASSUME NEW i \in DOMAIN rpcfree', NEW j \in DOMAIN rpcfree', rpcfree'[i] = rpcfree'[j]
        PROVE  i = j
    <3>1. i + 1 = j + 1 BY SMT, <1>1, <2>1, <2>2, <2>6
    <3> QED BY SMT, <2>1, <2>2, <3>1
  <2> QED BY <1>0, <2>1, <2>2, <2>3, <2>4, <2>5, <2>6
<1>3. CASE rpcfree = <<>>
  <2>1. t \notin tags /\ tags' = tags \cup {t} /\ rpcfree' = rpcfree BY <1>3 DEF Ralloc
  <2>2. DOMAIN rpcfree = {} BY SMT, <1>3
  <2> QED BY <1>0, <1>1, <2>1, <2>2
<1> QED BY <1>2, <1>3

\* A header that is freed: its tag stays taken only on the free list.
LEMMA FreeFree ==
  ASSUME TypeOK, HInv, NEW t \in Tags, InUse(t), Free(t)
  PROVE  /\ rpcfree' \in Seq(Tags) /\ Len(rpcfree') <= MaxFree /\ tags' \subseteq Tags
         /\ \A i, j \in DOMAIN rpcfree' : rpcfree'[i] = rpcfree'[j] => i = j
         /\ \A i \in DOMAIN rpcfree' :
              rpcfree'[i] \in tags' /\ (~InUse(rpcfree'[i]) \/ rpcfree'[i] = t)
         /\ \A u \in Tags \ {t} : InUse(u) => u \in tags'
<1>0. rpcfree \in Seq(Tags) /\ Len(rpcfree) \in Nat /\ Len(rpcfree) <= MaxFree /\ tags \subseteq Tags
  BY SMTT(30) DEF TypeOK
<1>1. /\ \A i, j \in DOMAIN rpcfree : rpcfree[i] = rpcfree[j] => i = j
      /\ \A i \in DOMAIN rpcfree : rpcfree[i] \in tags /\ ~InUse(rpcfree[i])
      /\ \A u \in Tags : InUse(u) => u \in tags
  BY DEF HInv, FreeInv
<1>2. CASE Len(rpcfree) >= MaxFree
  <2>1. tags' = tags \ {t} /\ rpcfree' = rpcfree BY <1>2 DEF Free
  <2> QED BY <1>0, <1>1, <2>1
<1>3. CASE ~(Len(rpcfree) >= MaxFree)
  <2>1. rpcfree' = <<t>> \o rpcfree /\ tags' = tags BY <1>3 DEF Free
  <2>2. /\ <<t>> \o rpcfree \in Seq(Tags) /\ Len(<<t>> \o rpcfree) = Len(rpcfree) + 1
        /\ (<<t>> \o rpcfree)[1] = t
        /\ \A i \in DOMAIN (<<t>> \o rpcfree) :
             i # 1 => /\ (<<t>> \o rpcfree)[i] = rpcfree[i - 1] /\ i - 1 \in DOMAIN rpcfree
    BY SMT, <1>0
  <2>3. Len(rpcfree') <= MaxFree BY SMT, <1>0, <1>3, <2>1, <2>2
  <2>4. ASSUME NEW i \in DOMAIN rpcfree'
        PROVE  rpcfree'[i] \in tags' /\ (~InUse(rpcfree'[i]) \/ rpcfree'[i] = t)
    BY <1>1, <2>1, <2>2
  <2>5. ASSUME NEW i \in DOMAIN rpcfree', NEW j \in DOMAIN rpcfree', rpcfree'[i] = rpcfree'[j]
        PROVE  i = j
    <3>1. i \in Nat /\ j \in Nat BY SMT, <2>1, <2>2
    <3>2. i # 1 => rpcfree'[i] # t BY SMT, <1>1, <2>1, <2>2
    <3>3. j # 1 => rpcfree'[j] # t BY SMT, <1>1, <2>1, <2>2
    <3>4. i # 1 /\ j # 1 => i - 1 = j - 1 BY SMT, <1>1, <2>1, <2>2, <2>5
    <3> QED BY SMT, <2>1, <2>2, <2>5, <3>1, <3>2, <3>3, <3>4
  <2> QED BY <1>0, <1>1, <2>1, <2>2, <2>3, <2>4, <2>5
<1> QED BY <1>2, <1>3

\* A header is put into the queue: what is new.
Enqueued(p, fl, old, t) ==
  /\ ~InUse(t)
  /\ rpc'[t].req = [tag |-> t, old |-> old, call |-> p]
  /\ rpc'[t].done = FALSE /\ rpc'[t].flushed = fl /\ rpc'[t].reply = None
  /\ \A u \in Tags \ {t} : rpc'[u] = rpc[u]
  /\ r'[p] = t /\ \A q \in Procs \ {p} : r'[q] = r[q]
  /\ pc'[p] = "write" /\ \A q \in Procs \ {p} : pc'[q] = pc[q]
  /\ queue' = <<t>> \o queue

\* The header that is allocated was free.
LEMMA EnqueueFacts ==
  ASSUME TypeOK, HInv, NEW p \in Procs, NEW fl \in 0 .. NTags, NEW old \in 0 .. NTags,
         Enqueue(p, fl, old)
  PROVE  /\ \E t \in Tags : Ralloc(t) /\ Enqueued(p, fl, old, t)
         /\ pc' \in [Procs -> Labels] /\ r' \in [Procs -> 0 .. NTags] /\ queue' \in Seq(Tags)
         /\ rpc' \in [Tags -> [done : BOOLEAN, flushed : 0 .. NTags,
                               req : Message \cup {None}, reply : Message \cup {None}]]
         /\ rpcfree' \in Seq(Tags) /\ Len(rpcfree') <= MaxFree /\ tags' \subseteq Tags
<1>1. PICK t \in Tags :
        /\ Ralloc(t)
        /\ rpc' = [rpc EXCEPT ![t] =
             [NoRpc EXCEPT !.flushed = fl, !.req = [tag |-> t, old |-> old, call |-> p]]]
        /\ r' = [r EXCEPT ![p] = t]
        /\ queue' = <<t>> \o queue
  BY DEF Enqueue
<1> DEFINE m == [tag |-> t, old |-> old, call |-> p]
           h == [NoRpc EXCEPT !.flushed = fl, !.req = m]
<1>2. m \in Message BY SMT DEF Message
<1>3. h.done = FALSE /\ h.flushed = fl /\ h.req = m /\ h.reply = None BY DEF NoRpc
<1>4. h \in [done : BOOLEAN, flushed : 0 .. NTags, req : Message \cup {None},
             reply : Message \cup {None}]
  BY <1>2 DEF NoRpc
<1>5. rpc' = [rpc EXCEPT ![t] = h] BY <1>1
<1> HIDE DEF h
<1>6. rpc'[t] = h /\ \A u \in Tags \ {t} : rpc'[u] = rpc[u] BY <1>5 DEF TypeOK
<1>7. rpc' \in [Tags -> [done : BOOLEAN, flushed : 0 .. NTags,
                         req : Message \cup {None}, reply : Message \cup {None}]]
  BY <1>4, <1>5 DEF TypeOK
<1>8. ~InUse(t) /\ rpcfree' \in Seq(Tags) /\ Len(rpcfree') <= MaxFree /\ tags' \subseteq Tags
  BY <1>1, RallocFree
<1>9. Goto(p, "write") BY DEF Enqueue
<1>10. "write" \in Labels BY DEF Labels
<1>11. Moves(p, "write") /\ \A q \in Procs \ {p} : pc'[q] = pc[q] BY <1>9, <1>10, GotoMoves
<1>12. pc' \in [Procs -> Labels] /\ pc'[p] = "write" BY <1>11 DEF Moves
<1>13. /\ r'[p] = t /\ \A q \in Procs \ {p} : r'[q] = r[q]
       /\ r' \in [Procs -> 0 .. NTags]
  BY SMTT(30), <1>1 DEF TypeOK
<1>14. queue' = <<t>> \o queue /\ queue' \in Seq(Tags) BY SMT, <1>1 DEF TypeOK
<1>15. Enqueued(p, fl, old, t)
  BY <1>3, <1>6, <1>8, <1>11, <1>12, <1>13, <1>14 DEF Enqueued
<1> QED BY <1>1, <1>7, <1>8, <1>12, <1>13, <1>14, <1>15

\* Only r->done and r->reply of headers change.
SameHeaders ==
  /\ r' = r /\ tags' = tags /\ rpcfree' = rpcfree
  /\ \A t \in Tags : rpc'[t].req = rpc[t].req /\ rpc'[t].flushed = rpc[t].flushed

\* A header at the end of its chain is freed, and the one it flushed is next.
Unchained(p, u) ==
  /\ u # NoTag /\ u = rpc[r[p]].flushed
  /\ Free(r[p])
  /\ rpc'[r[p]] = NoRpc
  /\ \A t \in Tags \ {r[p]} : rpc'[t] = rpc[t]
  /\ r'[p] = u /\ \A q \in Procs \ {p} : r'[q] = r[q]

\* Only the last header of a chain is freed here: the chain stays one.
LEMMA UnchainHInv ==
  ASSUME TypeOK, HInv, NEW p \in Procs, NEW u \in 0 .. NTags, Unchained(p, u),
         pc[p] \notin Quiet, pc'[p] \notin Quiet, \A q \in Procs \ {p} : pc'[q] = pc[q]
  PROVE  HInv' /\ Orig(p)' = Orig(p) /\ rpc[r[p]].req.old = Orig(p) /\ Orig(p) # r[p] /\ u # r[p]
<1>0. PICK t : t = r[p] OBVIOUS
<1>1. t \in Tags /\ InUse(t) /\ rpc[t].req.call = p /\ rpc[t].req.old # NoTag
  BY <1>0, OwnHeader DEF Unchained
<1>2. /\ u \in Tags /\ InUse(u) /\ rpc[u].req.call = p /\ u # t /\ \A q \in Procs : r[q] # u
      /\ rpc[t].req.old = IF rpc[u].req.old = NoTag THEN u ELSE rpc[u].req.old
  BY SMT, <1>0, <1>1 DEF Unchained, HInv, ChainInv
<1>3. /\ Free(t) /\ rpc'[t] = NoRpc
      /\ \A v \in Tags \ {t} : rpc'[v] = rpc[v]
      /\ r'[p] = u /\ \A q \in Procs \ {p} : r'[q] = r[q]
      /\ u = rpc[t].flushed
  BY <1>0 DEF Unchained
<1>4. NoRpc.req = None /\ NoRpc.flushed = NoTag BY DEF NoRpc
<1>5. ~InUse(t)' /\ \A v \in Tags \ {t} : InUse(v)' <=> InUse(v) BY <1>3, <1>4 DEF InUse
<1>6. \A q \in Procs \ {p} : r[q] # NoTag =>
        r[q] \in Tags \ {t} /\ rpc'[r[q]] = rpc[r[q]] /\ InUse(r[q]) /\ rpc[r[q]].req.call = q
  <2>1. \A q \in Procs : r[q] \in 0 .. NTags BY DEF TypeOK
  <2>2. \A q \in Procs : r[q] # NoTag => InUse(r[q]) /\ rpc[r[q]].req.call = q
    BY DEF HInv, HeaderInv
  <2> QED BY SMT, <1>1, <1>3, <2>1, <2>2
<1>7. \A v \in Tags : rpc[v].flushed # NoTag => rpc[v].flushed \in Tags \ {t}
  <2>1. \A v \in Tags : rpc[v].flushed \in 0 .. NTags BY DEF TypeOK
  <2>2. \A v \in Tags : rpc[v].flushed # NoTag => rpc[v].flushed # t BY <1>0 DEF HInv, ChainInv
  <2> QED BY SMT, <2>1, <2>2
<1>8. /\ Orig(p) = rpc[t].req.old
      /\ Orig(p) \in Tags /\ InUse(Orig(p)) /\ Orig(p) # t
      /\ rpc[Orig(p)].req.call = p /\ rpc[Orig(p)].req.old = NoTag
  <2>1. Orig(p) = rpc[t].req.old BY <1>0, <1>1 DEF Orig
  <2>2. /\ Orig(p) \in Tags /\ InUse(Orig(p))
        /\ rpc[Orig(p)].req.call = p /\ rpc[Orig(p)].req.old = NoTag
    BY SMT, <1>0, <1>1 DEF HInv, OrigInv
  <2> QED BY <1>1, <2>1, <2>2
<1>9. HeaderInv'
  <2>1. \A q \in Procs : r'[q] = NoTag <=> pc'[q] \in Quiet
    BY SMT, <1>2, <1>3 DEF HInv, HeaderInv
  <2>2. \A q \in Procs : r'[q] # NoTag => rpc'[r'[q]].req # None /\ rpc'[r'[q]].req.call = q
    BY SMT, <1>2, <1>3, <1>6 DEF InUse
  <2>3. \A v \in Tags : InUse(v)' => rpc'[v].req.tag = v /\ rpc'[v].req.call \in Procs
    BY SMT, <1>3, <1>5 DEF HInv, HeaderInv
  <2>4. \A v \in Tags : IF ~InUse(v)' THEN rpc'[v].flushed = NoTag
                        ELSE rpc'[v].flushed = NoTag <=> rpc'[v].req.old = NoTag
    BY SMT, <1>3, <1>4, <1>5 DEF HInv, HeaderInv
  <2> QED BY <2>1, <2>2, <2>3, <2>4 DEF HeaderInv, InUse
<1>10. ChainInv'
  <2>1. ASSUME NEW v \in Tags, rpc'[v].flushed # NoTag
        PROVE  LET w == rpc'[v].flushed
               IN  /\ rpc'[w].req # None /\ rpc'[w].req.call = rpc'[v].req.call
                   /\ \A q \in Procs : r'[q] # w
                   /\ rpc'[v].req.old = IF rpc'[w].req.old = NoTag THEN w ELSE rpc'[w].req.old
    <3>1. v # t /\ rpc'[v] = rpc[v] BY <1>3, <1>4, <2>1
    <3>2. rpc[v].flushed \in Tags \ {t} /\ rpc'[rpc[v].flushed] = rpc[rpc[v].flushed]
      BY <1>3, <1>7, <2>1, <3>1
    <3>3. rpc[v].flushed # u BY <1>1, <1>2, <1>3, <2>1, <3>1 DEF HInv, ChainInv
    <3> QED BY SMT, <1>3, <2>1, <3>1, <3>2, <3>3 DEF HInv, ChainInv, InUse
  <2>2. ASSUME NEW v \in Tags, NEW w \in Tags,
               rpc'[v].flushed = rpc'[w].flushed, rpc'[v].flushed # NoTag
        PROVE  v = w
    BY SMT, <1>3, <1>4, <2>2 DEF HInv, ChainInv
  <2> QED BY <2>1, <2>2 DEF ChainInv, InUse
<1>11. FreeInv'
  <2>1. /\ \A i, j \in DOMAIN rpcfree' : rpcfree'[i] = rpcfree'[j] => i = j
        /\ rpcfree' \in Seq(Tags)
        /\ \A i \in DOMAIN rpcfree' :
             rpcfree'[i] \in tags' /\ (~InUse(rpcfree'[i]) \/ rpcfree'[i] = t)
        /\ \A v \in Tags \ {t} : InUse(v) => v \in tags'
    BY <1>1, <1>3, FreeFree
  <2>2. \A i \in DOMAIN rpcfree' : rpcfree'[i] \in Tags BY SMT, <2>1
  <2>3. \A i \in DOMAIN rpcfree' : rpc'[rpcfree'[i]].req = None BY <1>3, <1>4, <2>1, <2>2 DEF InUse
  <2>4. \A v \in Tags : InUse(v)' => v \in tags' BY <1>5, <2>1
  <2> QED BY <2>1, <2>3, <2>4 DEF FreeInv, InUse
<1>12. Orig(p)' = Orig(p)
  <2>1. r'[p] = u /\ rpc'[u] = rpc[u] BY <1>2, <1>3
  <2>2. Orig(p)' = IF rpc'[r'[p]].req.old = NoTag THEN r'[p] ELSE rpc'[r'[p]].req.old
    BY DEF Orig
  <2>3. Orig(p)' = IF rpc[u].req.old = NoTag THEN u ELSE rpc[u].req.old BY <2>1, <2>2
  <2> QED BY <1>2, <1>8, <2>3
<1>13. OrigInv'
  <2> SUFFICES ASSUME NEW q \in Procs, r'[q] # NoTag
               PROVE  /\ Orig(q)' \in Tags /\ InUse(Orig(q))'
                      /\ rpc'[Orig(q)'].req.call = q /\ rpc'[Orig(q)'].req.old = NoTag
    BY DEF OrigInv, InUse
  <2>1. CASE q = p BY SMT, <1>3, <1>8, <1>12, <2>1 DEF InUse
  <2>2. CASE q # p
    <3>1. r'[q] = r[q] /\ r[q] # NoTag /\ rpc'[r[q]] = rpc[r[q]] BY <1>3, <1>6, <2>2
    <3>2. Orig(q)' = Orig(q) BY <3>1 DEF Orig
    <3>3. /\ Orig(q) \in Tags /\ InUse(Orig(q)) 
          /\ rpc[Orig(q)].req.call = q /\ rpc[Orig(q)].req.old = NoTag
      BY <3>1 DEF HInv, OrigInv
    <3>4. Orig(q) # t BY <1>1, <2>2, <3>3
    <3> QED BY <1>3, <3>2, <3>3, <3>4 DEF InUse
  <2> QED BY <2>1, <2>2
<1> QED BY <1>0, <1>2, <1>8, <1>9, <1>10, <1>11, <1>12, <1>13 DEF HInv

\* The call is over and its header free.
Finished(p) ==
  /\ Free(r[p])
  /\ rpc'[r[p]] = NoRpc
  /\ \A t \in Tags \ {r[p]} : rpc'[t] = rpc[t]
  /\ r'[p] = NoTag /\ \A q \in Procs \ {p} : r'[q] = r[q]

-----------------------------------------------------------------------------
(* Types, the reader and the headers together.                             *)

BaseInv == TypeOK /\ ReadInv /\ HInv

\* What the rest of the driver sees of a version exchange.
QuietStep(p) ==
  /\ pc[p] \in Quiet /\ pc'[p] \in Quiet /\ \A q \in Procs \ {p} : pc'[q] = pc[q]
  /\ UNCHANGED <<r, rpc, queue, failed, fate, down>>
  /\ \/ UNCHANGED <<pending, wire>> \/ Server!Receive(VersionMsg)
     \/ Server!Take /\ pc[p] = "vread"

\* What the rest of the driver sees of a process that waits for its reply.
WaitStep(p) ==
  /\ pc[p] \in Waiting /\ pc'[p] \in Waiting \cup {"flushfree"}
  /\ \A q \in Procs \ {p} : pc'[q] = pc[q] \/ (pc[q] = "blocked" /\ pc'[q] = "woken")
  /\ \A q \in Procs \ {p} : failed'[q] = failed[q]
  /\ UNCHANGED <<r, rpc, queue, fate, down>>
  /\ pc'[p] = "flushfree" =>
       failed'[p] \/ (rpc[r[p]].done /\ pc[p] \in Sent /\ UNCHANGED <<pending, wire>>)
  /\ pc'[p] = "write" => pc[p] = "write" /\ UNCHANGED <<pending, wire>>
  /\ pc'[p] \in Sent => pc[p] \in Sent \/ (pc[p] = "write" /\ ~down)
  /\ \/ UNCHANGED <<pending, wire>>
     \/ pc[p] = "write" /\ Server!Receive(rpc[r[p]].req)

\* A request, and a Tflush for the request a call began with, are queued.
CallStep(p) ==
  /\ pc[p] \in Quiet /\ Enqueue(p, NoTag, NoTag)
  /\ \A q \in Procs : fate'[q] = IF q = p THEN "open" ELSE fate[q]
  /\ UNCHANGED <<failed, down, pending, wire>>

FlushStep(p) ==
  /\ pc[p] = "flushalloc" /\ Enqueue(p, r[p], Orig(p))
  /\ r[p] \in 0 .. NTags /\ Orig(p) \in 0 .. NTags
  /\ UNCHANGED <<failed, fate, down, pending, wire>>

\* A message is read, and is that of a header in the queue or is dropped.
ReadStep(p) ==
  /\ pc[p] = "read" /\ pc'[p] \in {"read", "wake"} /\ \A q \in Procs \ {p} : pc'[q] = pc[q]
  /\ wire # <<>> /\ wire' = Tail(wire) /\ pending' = pending
  /\ UNCHANGED <<r, failed, fate, down>>
  /\ \/ Head(wire).tag \notin Elements(queue) /\ UNCHANGED <<queue, rpc>>
     \/ \E t \in Tags :
          /\ t = Head(wire).tag /\ t \in Elements(queue)
          /\ Elements(queue') = Elements(queue) \ {t}
          /\ rpc'[t].req = rpc[t].req /\ rpc'[t].flushed = rpc[t].flushed
          /\ rpc'[t].done = TRUE /\ rpc'[t].reply = Head(wire)
          /\ \A u \in Tags \ {t} : rpc'[u] = rpc[u]

\* Nothing of these changes in mntflushfree.
EndSame == UNCHANGED <<failed, down, pending, wire>>

\* mntflushfree finds the header unanswered, and says so.
MarkStep(p) ==
  /\ \A q \in Procs \ {p} : pc'[q] = pc[q]
  /\ EndSame /\ UNCHANGED <<r, queue, fate>>
  /\ \/ pc[p] = "flushfree" /\ pc'[p] = "unanswered" /\ ~rpc[r[p]].done /\ rpc' = rpc
     \/ /\ pc[p] = "unanswered" /\ pc'[p] = "qrm"
        /\ rpc'[r[p]].reply = Rflush /\ rpc'[r[p]].done = rpc[r[p]].done
        /\ rpc'[r[p]].req = rpc[r[p]].req /\ rpc'[r[p]].flushed = rpc[r[p]].flushed
        /\ \A t \in Tags \ {r[p]} : rpc'[t] = rpc[t]

\* It leaves the queue, if it is still in it ...
Leaves(p) ==
  \/ pc[p] = "flushfree" /\ rpc[r[p]].done /\ queue' = queue
  \/ pc[p] = "qrm" /\ Elements(queue') = Elements(queue) \ {r[p]}

\* ... and the next in the chain follows, or the call is over.
UnchainStep(p) ==
  /\ pc'[p] = "flushfree" /\ \A q \in Procs \ {p} : pc'[q] = pc[q]
  /\ \E u \in 0 .. NTags : Unchained(p, u)
  /\ Leaves(p) /\ EndSame /\ fate' = fate

LastStep(p) ==
  /\ pc'[p] = "return" /\ \A q \in Procs \ {p} : pc'[q] = pc[q]
  /\ rpc[r[p]].flushed = NoTag /\ r' = r
  /\ rpc'[r[p]].done = TRUE /\ rpc'[r[p]].reply = rpc[r[p]].reply
  /\ rpc'[r[p]].req = rpc[r[p]].req /\ rpc'[r[p]].flushed = rpc[r[p]].flushed
  /\ \A t \in Tags \ {r[p]} : rpc'[t] = rpc[t]
  /\ Leaves(p) /\ EndSame
  /\ fate' = [fate EXCEPT ![p] = Outcome(p, rpc'[r[p]])]

\* The call is over: its messages are nobody's.
FinishStep(p) ==
  /\ pc[p] = "return" /\ pc'[p] = "idle" /\ \A q \in Procs \ {p} : pc'[q] = pc[q]
  /\ Finished(p) /\ fate' = [fate EXCEPT ![p] = "idle"]
  /\ ~failed'[p] /\ \A q \in Procs \ {p} : failed'[q] = failed[q]
  /\ UNCHANGED <<queue, down>>
  /\ pending' = Disown(pending, p) /\ wire' = Disown(wire, p)

\* Disown changes the owner of messages and nothing else.
LEMMA DisownType ==
  ASSUME NEW s \in Seq(Message), NEW p
  PROVE  /\ Disown(s, p) \in Seq(Message) /\ DOMAIN Disown(s, p) = DOMAIN s
         /\ \A i \in DOMAIN s :
              /\ s[i] \in Message
              /\ s[i].call # p => Disown(s, p)[i] = s[i]
              /\ s[i].call = p => /\ Disown(s, p)[i].call = None
                                  /\ Disown(s, p)[i].tag = s[i].tag /\ Disown(s, p)[i].old = s[i].old
<1>1. DOMAIN Disown(s, p) = DOMAIN s
      /\ \A i \in DOMAIN s :
           Disown(s, p)[i] = IF s[i].call = p THEN [s[i] EXCEPT !.call = None] ELSE s[i]
  BY DEF Disown
<1>2. \A i \in DOMAIN s : s[i] \in Message BY SMT
<1>3. \A m \in Message : LET n == [m EXCEPT !.call = None]
                         IN  n \in Message /\ n.call = None /\ n.tag = m.tag /\ n.old = m.old
  BY DEF Message
<1>4. \A i \in DOMAIN s : Disown(s, p)[i] \in Message BY <1>1, <1>2, <1>3
<1>5. DOMAIN s = 1 .. Len(s) /\ Len(s) \in Nat BY SMT
<1>6. Disown(s, p) = [i \in 1 .. Len(s) |-> Disown(s, p)[i]] BY <1>1, <1>5 DEF Disown
<1>7. Disown(s, p) \in Seq(Message) BY SMT, <1>4, <1>5, <1>6
<1>8. ASSUME NEW i \in DOMAIN s
      PROVE  /\ s[i] \in Message
             /\ s[i].call # p => Disown(s, p)[i] = s[i]
             /\ s[i].call = p => /\ Disown(s, p)[i].call = None
                                 /\ Disown(s, p)[i].tag = s[i].tag /\ Disown(s, p)[i].old = s[i].old
  <2>1. s[i] \in Message BY <1>2
  <2> QED BY <1>1, <1>3, <2>1
<1> QED BY <1>1, <1>7, <1>8

\* The server answers pending[i]: it keeps others among the pending.
ServeStep(i) ==
  /\ i \in DOMAIN pending /\ UNCHANGED <<pc, r, rpc, queue, failed, down>>
  /\ wire' = Append(wire, pending[i])
  /\ \E K \in SUBSET (DOMAIN pending \ {i}) :
       /\ Selected(pending', pending, K)
       /\ pending[i].old # NoTag => \A j \in K : j < i => /\ pending[j].old # pending[i].old
                                                          /\ pending[j].tag # pending[i].old
  /\ Decide(pending[i])

HangupStep ==
  /\ ~down /\ down' = TRUE /\ pending' = <<>>
  /\ UNCHANGED <<pc, r, rpc, queue, failed, fate, wire>>

-----------------------------------------------------------------------------
(* Every step of the driver and of the server is one of those above.       *)

Inv == BaseInv /\ fate \in [Procs -> Fates]

ProcStep(p) ==
  \/ QuietStep(p) \/ CallStep(p) \/ FlushStep(p) \/ WaitStep(p) \/ ReadStep(p)
  \/ MarkStep(p) \/ UnchainStep(p) \/ LastStep(p) \/ FinishStep(p)

\* The invariant holds at the start.
LEMMA InitBase == Init => Inv
<1> SUFFICES ASSUME Init PROVE Inv BY SMT
<1> USE DEF Init
<1>1. /\ pc = [p \in Procs |-> "idle"] /\ r = [p \in Procs |-> NoTag]
      /\ rpc = [t \in Tags |-> NoRpc] /\ rp = [t \in Tags |-> None]
      /\ failed = [p \in Procs |-> FALSE] /\ swi = [p \in Procs |-> FALSE]
      /\ pending = <<>> /\ wire = <<>> /\ down = FALSE
  BY DEF Server!StyxInit
<1>2. NoRpc \in [done : BOOLEAN, flushed : 0 .. NTags,
                 req : Message \cup {None}, reply : Message \cup {None}]
      /\ NoRpc.req = None /\ NoRpc.flushed = NoTag
  BY SMT DEF NoRpc
<1>3. failed \in [Procs -> BOOLEAN] /\ swi \in [Procs -> BOOLEAN] BY <1>1
<1>4. \A p \in Procs : ~failed[p] /\ ~swi[p] BY <1>1
<1>5. TypeOK
  <2>1. /\ pc \in [Procs -> Labels] /\ r \in [Procs -> 0 .. NTags]
        /\ rp \in [Tags -> Procs \cup {None}] /\ queue \in Seq(Tags) /\ rip \in Procs \cup {None}
        /\ rpcfree \in Seq(Tags) /\ Len(rpcfree) <= MaxFree /\ tags \subseteq Tags
    BY SMT DEF Labels
  <2>2. rpc \in [Tags -> [done : BOOLEAN, flushed : 0 .. NTags,
                          req : Message \cup {None}, reply : Message \cup {None}]]
    BY SMT, <1>1, <1>2
  <2>3. mux = FALSE /\ down = FALSE /\ umq \in Procs \cup {None} /\ target \in [Procs -> 0 .. NTags]
    BY SMT, <1>1
  <2>4. nintr \in [Procs -> Nat] /\ \A p \in Procs : nintr[p] = 0 BY SMT
  <2>5. \A p \in Procs : nintr[p] <= MaxIntr[p] BY SMT, <2>4
  <2>6. pending \in Seq(Message) /\ wire \in Seq(Message) BY SMT, <1>1
  <2> QED BY <1>3, <2>1, <2>2, <2>3, <2>4, <2>5, <2>6 DEF TypeOK
<1>6. ReadInv BY <1>1, <1>4 DEF ReadInv, Quiet
<1>7. \A t \in Tags : rpc[t].req = None /\ rpc[t].flushed = NoTag BY <1>1, <1>2
<1>8. \A p \in Procs : r[p] = NoTag /\ pc[p] \in Quiet BY <1>1 DEF Quiet
<1>9. DOMAIN rpcfree = {} BY SMT
<1>10. HInv BY <1>7, <1>8, <1>9 DEF HInv, HeaderInv, ChainInv, FreeInv, OrigInv, InUse
<1>11. fate \in [Procs -> Fates] BY DEF Fates
<1> QED BY <1>5, <1>6, <1>10, <1>11 DEF Inv, BaseInv

\* Every step keeps the invariant, and is one of the steps above.
LEMMA NextSteps ==
  ASSUME Inv, [Next]_vars
  PROVE  /\ Inv'
         /\ \/ \E p \in Procs : ProcStep(p)
            \/ \E i \in DOMAIN pending : ServeStep(i)
            \/ HangupStep
            \/ UNCHANGED vars

\* What is kept of a list are the elements at the given indices, in order.
<1>KeptFacts.
     ASSUME NEW S, NEW s \in Seq(S), NEW K \in SUBSET DOMAIN s, NEW t \in Kept(s, K)
     PROVE  t \in Seq(S) /\ Selected(t, s, K)
  <2> USE <1>KeptFacts
  <2>1. PICK g \in {f \in UNION {[1 .. n -> K] : n \in (0 .. Len(s)) \cap {Cardinality(K)}} : Orders(f, K)} :
          t = [i \in DOMAIN g |-> s[g[i]]]
    BY DEF Kept
  <2>g. PICK n \in 0 .. Len(s) : g \in [1 .. n -> K] BY <2>1
  <2>2. DOMAIN t = 1 .. n /\ DOMAIN g = 1 .. n /\ \A i \in 1 .. n : t[i] = s[g[i]] BY <2>1, <2>g
  <2>3. \A i \in 1 .. n : s[g[i]] \in S
    <3>1. \A k \in DOMAIN s : s[k] \in S BY SMT
    <3> QED BY <2>g, <3>1
  <2>4. t \in Seq(S)
    <3>1. n \in Nat BY SMT
    <3>2. t = [i \in 1 .. n |-> s[g[i]]] BY <2>1, <2>2
    <3> QED BY SMT, <2>3, <3>1, <3>2
  <2>5. Orders(g, K) BY <2>1
  <2> QED BY <2>g, <2>2, <2>4, <2>5 DEF Selected

\* So is what is left when one element is unlinked.
<1>WithoutFacts.
     ASSUME NEW S, NEW s \in Seq(S), NEW i \in DOMAIN s
     PROVE  Without(s, i) \in Seq(S) /\ Selected(Without(s, i), s, DOMAIN s \ {i})
  <2> USE <1>WithoutFacts
  <2>1. PICK n \in Nat : n = Len(s) /\ DOMAIN s = 1 .. n BY SMT
  <2>2. PICK g : g = [j \in 1 .. n - 1 |-> IF j < i THEN j ELSE j + 1] OBVIOUS
  <2>3. /\ i \in 1 .. n /\ n - 1 \in Nat /\ g \in [1 .. n - 1 -> 1 .. n \ {i}]
        /\ \A j, k \in 1 .. n - 1 : j < k => g[j] < g[k]
    BY SMT, <2>1, <2>2
  <2>4. /\ Without(s, i) = [j \in 1 .. n - 1 |-> s[IF j < i THEN j ELSE j + 1]]
        /\ DOMAIN Without(s, i) = 1 .. n - 1
    BY <2>1 DEF Without
  <2>5. \A j \in 1 .. n - 1 : Without(s, i)[j] = s[g[j]] BY <2>2, <2>4
  <2>6. \A j \in 1 .. n - 1 : s[g[j]] \in S BY SMT, <2>1, <2>3
  <2>7. Without(s, i) \in Seq(S)
    <3>1. PICK m \in Nat : m = n - 1 BY <2>3
    <3>2. Without(s, i) = [j \in 1 .. m |-> s[g[j]]] BY <2>2, <2>4, <3>1
    <3>3. \A j \in 1 .. m : s[g[j]] \in S BY <2>6, <3>1
    <3> QED BY SMT, <3>2, <3>3
  <2>8. ASSUME NEW k \in 1 .. n \ {i} PROVE \E j \in 1 .. n - 1 : g[j] = k
    <3>1. CASE k < i BY SMT, <2>1, <2>2, <2>3, <3>1
    <3>2. CASE k > i
      <4>1. k - 1 \in 1 .. n - 1 /\ g[k - 1] = k BY SMT, <2>1, <2>2, <2>3, <3>2
      <4> QED BY <4>1
    <3> QED BY SMT, <2>1, <2>3, <3>1, <3>2
  <2>9. Orders(g, DOMAIN s \ {i}) BY <2>1, <2>3, <2>8 DEF Orders
  <2> QED BY <2>1, <2>3, <2>4, <2>5, <2>7, <2>9 DEF Selected

\* A Goto of a process that does not sleep, without a wakeup.
<1>GotoSleepers.
     ASSUME TypeOK, ReadInv, NEW p \in Procs, NEW l \in Labels, Goto(p, l),
            pc[p] # "blocked", rp' = rp
     PROVE  Sleepers
  <2> USE <1>GotoSleepers
  <2>1. \A q \in Procs \ {p} : pc'[q] = pc[q] BY GotoMoves
  <2>2. \A t \in Tags : rp[t] # None => rp[t] \in Procs /\ pc[rp[t]] = "blocked" /\ r[rp[t]] = t
    BY SMT DEF TypeOK, ReadInv
  <2>3. \A t \in Tags : rp[t] # None => rp[t] \in Procs \ {p} BY <2>2
  <2> QED BY <2>1, <2>2, <2>3 DEF Sleepers, TypeOK

\* Wakeup of the sleeper on a header, as a part of a step of p.
<1>WokeMoves.
     ASSUME TypeOK, ReadInv, NEW p \in Procs, NEW l \in Labels, NEW t \in 0 .. NTags,
            pc[p] # "blocked",
            pc' = Woke(t, [pc EXCEPT ![p] = l]), rp' = Unslept(t)
     PROVE  Moves(p, l) /\ Sleepers
  <2> USE <1>WokeMoves
  <2>1. \A u \in Tags : rp[u] # None => rp[u] \in Procs \ {p} /\ pc[rp[u]] = "blocked" /\ r[rp[u]] = u
    BY SMT DEF TypeOK, ReadInv
  <2>2. CASE t = NoTag \/ rp[t] = None
    <3>1. Wakes(t) = None BY <2>2 DEF Wakes
    <3>2. pc' = [pc EXCEPT ![p] = l] BY <3>1 DEF Woke
    <3>3. rp' = rp BY <2>2 DEF Unslept, TypeOK
    <3>4. Goto(p, l) BY <3>2 DEF Goto
    <3> QED BY <3>3, <3>4, GotoMoves, <1>GotoSleepers
  <2>3. CASE t # NoTag /\ rp[t] # None
    <3>1. t \in Tags BY SMT, <2>3
    <3>2. PICK w \in Procs \ {p} : w = rp[t] /\ pc[w] = "blocked" /\ r[w] = t BY <2>1, <2>3, <3>1
    <3>3. Wakes(t) = w /\ w # None BY <2>3, <3>2 DEF Wakes
    <3>4. pc' = [[pc EXCEPT ![p] = l] EXCEPT ![w] = "woken"] BY <3>3 DEF Woke
    <3>5. pc' \in [Procs -> Labels] /\ pc'[p] = l /\ pc'[w] = "woken"
          /\ \A q \in Procs \ {p, w} : pc'[q] = pc[q]
      <4>1. [pc EXCEPT ![p] = l] \in [Procs -> Labels] /\ [pc EXCEPT ![p] = l][p] = l
            /\ \A q \in Procs \ {p} : [pc EXCEPT ![p] = l][q] = pc[q]
        BY DEF TypeOK
      <4>2. "woken" \in Labels BY DEF Labels
      <4>3. PICK f : f = [pc EXCEPT ![p] = l] OBVIOUS
      <4>4. pc' = [f EXCEPT ![w] = "woken"] /\ f \in [Procs -> Labels] /\ f[p] = l /\ \A q \in Procs \ {p} : f[q] = pc[q]
        BY <3>4, <4>1, <4>3
      <4>5. w \in Procs /\ p \in Procs /\ w # p BY <3>2
      <4>6. pc'[w] = "woken" /\ \A q \in Procs \ {w} : pc'[q] = f[q] BY <4>4, <4>5
      <4>7. pc' \in [Procs -> Labels] BY <4>2, <4>4
      <4> QED BY <4>4, <4>5, <4>6, <4>7
    <3>6. Moves(p, l) BY <3>2, <3>5 DEF Moves
    <3>7. rp' = [rp EXCEPT ![t] = None] BY <2>3 DEF Unslept
    <3>8. rp' \in [Tags -> Procs \cup {None}] /\ rp'[t] = None
          /\ \A u \in Tags \ {t} : rp'[u] = rp[u]
      BY <3>1, <3>7 DEF TypeOK
    <3>9. ASSUME NEW u \in Tags, rp'[u] # None
          PROVE  pc'[rp'[u]] = "blocked" /\ r[rp'[u]] = u
      <4>1. u # t /\ rp'[u] = rp[u] BY <3>8, <3>9
      <4>2. rp[u] \in Procs \ {p} /\ pc[rp[u]] = "blocked" /\ r[rp[u]] = u BY <2>1, <3>9, <4>1
      <4>3. rp[u] # w BY <3>2, <4>1, <4>2
      <4> QED BY <3>5, <4>1, <4>2, <4>3
    <3> QED BY <3>6, <3>8, <3>9 DEF Sleepers
  <2> QED BY <2>2, <2>3

\* mntgate wakes at most one sleeper.
<1>GateTargetType.
     ASSUME TypeOK, NEW t \in GateTargets
     PROVE  t \in 0 .. NTags
  <2> USE <1>GateTargetType
  <2> DEFINE ready == {i \in DOMAIN queue : ~rpc[queue[i]].done /\ rp[queue[i]] # None}
  <2>1. \A i \in DOMAIN queue : queue[i] \in Tags
    <3>1. queue \in Seq(Tags) BY DEF TypeOK
    <3> QED BY SMT, <3>1
  <2>2. GateTargets = IF ready = {} THEN {NoTag}
                      ELSE {queue[i] : i \in {i \in ready : \A j \in ready : i <= j}}
    BY DEF GateTargets
  <2>3. ready \subseteq DOMAIN queue OBVIOUS
  <2> HIDE DEF ready
  <2>4. t = NoTag \/ \E i \in ready : t = queue[i] BY <2>2
  <2>5. t = NoTag \/ t \in Tags BY <2>1, <2>3, <2>4
  <2> QED BY SMT, <2>5

\* mntgate gives up reading and wakes at most one sleeper.
<1>MntgateMoves.
     ASSUME TypeOK, ReadInv, NEW p \in Procs, NEW l \in Labels, pc[p] # "blocked", Mntgate(p, l)
     PROVE  Moves(p, l) /\ Sleepers /\ rip' = None
  <2> USE <1>MntgateMoves
  <2>1. PICK t \in GateTargets : /\ rip' = None /\ pc' = Woke(t, [pc EXCEPT ![p] = l])
                                /\ rp' = Unslept(t)
    BY DEF Mntgate
  <2>2. t \in 0 .. NTags BY <1>GateTargetType
  <2> QED BY <2>1, <2>2, <1>WokeMoves

\* error() in mountio: the same if p was the reader.
<1>ErrorMoves.
     ASSUME TypeOK, ReadInv, NEW p \in Procs, NEW l \in Labels, pc[p] # "blocked", Error(p, l)
     PROVE  Moves(p, l) /\ Sleepers /\ rip' = IF rip = p THEN None ELSE rip
  <2> USE <1>ErrorMoves
  <2>1. CASE rip = p BY <2>1, <1>MntgateMoves DEF Error
  <2>2. CASE rip # p
    <3>1. Goto(p, l) /\ rip' = rip /\ rp' = rp BY <2>2 DEF Error
    <3> QED BY <2>2, <3>1, GotoMoves, <1>GotoSleepers
  <2> QED BY <2>1, <2>2

\* A new header extends the chain of its call, or begins one.
<1>EnqueueHInv.
     ASSUME TypeOK, HInv, NEW p \in Procs, NEW fl \in 0 .. NTags, NEW old \in 0 .. NTags,
            Enqueue(p, fl, old),
            \/ pc[p] \in Quiet /\ fl = NoTag /\ old = NoTag
            \/ pc[p] \notin Quiet /\ fl = r[p] /\ old = Orig(p)
     PROVE  HInv'
  <2> USE <1>EnqueueHInv
  <2>1. PICK t \in Tags : Ralloc(t) /\ Enqueued(p, fl, old, t) BY EnqueueFacts
  <2>2. /\ ~InUse(t) /\ t # NoTag
        /\ rpc'[t].flushed = fl
        /\ rpc'[t].req = [tag |-> t, old |-> old, call |-> p]
        /\ \A u \in Tags \ {t} : rpc'[u] = rpc[u]
        /\ r'[p] = t /\ \A q \in Procs \ {p} : r'[q] = r[q]
        /\ pc'[p] = "write" /\ \A q \in Procs \ {p} : pc'[q] = pc[q]
    BY SMT, <2>1 DEF Enqueued
  <2>3. /\ rpc'[t].req.tag = t /\ rpc'[t].req.old = old /\ rpc'[t].req.call = p
        /\ rpc'[t].req # None
    <3>1. [tag |-> t, old |-> old, call |-> p] \in Message BY SMT DEF Message
    <3> QED BY SMT, <2>2, <3>1, NoMessage
  <2>4. /\ InUse(t)' /\ \A u \in Tags \ {t} : InUse(u)' = InUse(u)
    BY <2>2, <2>3 DEF InUse
  <2>5. \A q \in Procs : r[q] # NoTag => r[q] \in Tags \ {t}
    <3>1. \A q \in Procs : r[q] \in 0 .. NTags BY DEF TypeOK
    <3>2. \A q \in Procs : r[q] # NoTag => InUse(r[q]) BY DEF HInv, HeaderInv
    <3> QED BY SMT, <2>2, <3>1, <3>2
  <2>6. \A u \in Tags : rpc[u].flushed # NoTag => InUse(u) /\ u # t /\ rpc[u].flushed \in Tags \ {t}
    <3>1. \A u \in Tags : rpc[u].flushed \in 0 .. NTags BY DEF TypeOK
    <3>2. \A u \in Tags : rpc[u].flushed # NoTag => InUse(u) /\ InUse(rpc[u].flushed)
      BY DEF HInv, HeaderInv, ChainInv
    <3> QED BY SMT, <2>2, <3>1, <3>2
  <2>7. HeaderInv'
    <3>1. \A q \in Procs : r'[q] = NoTag <=> pc'[q] \in Quiet
      BY SMT, <2>2 DEF HInv, HeaderInv, Quiet
    <3>2. \A q \in Procs : r'[q] # NoTag => rpc'[r'[q]].req # None /\ rpc'[r'[q]].req.call = q
      BY SMT, <2>2, <2>3, <2>5 DEF HInv, HeaderInv, InUse
    <3>3. \A u \in Tags : InUse(u)' => rpc'[u].req.tag = u /\ rpc'[u].req.call \in Procs
      BY SMT, <2>2, <2>3, <2>4 DEF HInv, HeaderInv
    <3>4. pc[p] \notin Quiet => Orig(p) # NoTag BY SMT DEF HInv, HeaderInv, OrigInv
    <3>5. fl = NoTag <=> old = NoTag BY <3>4 DEF HInv, HeaderInv
    <3>6. \A u \in Tags : IF ~InUse(u)' THEN rpc'[u].flushed = NoTag
                          ELSE rpc'[u].flushed = NoTag <=> rpc'[u].req.old = NoTag
      BY SMT, <2>2, <2>3, <2>4, <3>5 DEF HInv, HeaderInv
    <3> QED BY <3>1, <3>2, <3>3, <3>6 DEF HeaderInv, InUse
  <2>8. ChainInv'
    <3>1. ASSUME NEW u \in Tags, rpc'[u].flushed # NoTag
          PROVE  LET v == rpc'[u].flushed
                 IN  /\ rpc'[v].req # None /\ rpc'[v].req.call = rpc'[u].req.call
                     /\ \A q \in Procs : r'[q] # v
                     /\ rpc'[u].req.old = IF rpc'[v].req.old = NoTag THEN v ELSE rpc'[v].req.old
      <4>1. CASE u # t
        <5>1. rpc'[u] = rpc[u] /\ rpc[u].flushed \in Tags \ {t} BY <2>2, <2>6, <3>1, <4>1
        <5>2. rpc'[rpc[u].flushed] = rpc[rpc[u].flushed] BY <2>2, <5>1
        <5> QED BY SMT, <2>2, <3>1, <5>1, <5>2 DEF HInv, ChainInv, InUse
      <4>2. CASE u = t
        <5>1. fl = r[p] /\ old = Orig(p) /\ pc[p] \notin Quiet /\ r[p] \in Tags \ {t}
          BY <2>2, <2>5, <3>1, <4>2
        <5>2. rpc'[r[p]] = rpc[r[p]] /\ InUse(r[p]) /\ rpc[r[p]].req.call = p
          BY <2>2, <5>1 DEF HInv, HeaderInv
        <5>3. \A q \in Procs : r'[q] # r[p] BY SMT, <2>2, <5>1, <5>2 DEF HInv, HeaderInv
        <5>4. old = IF rpc[r[p]].req.old = NoTag THEN r[p] ELSE rpc[r[p]].req.old
          BY <5>1 DEF Orig
        <5> QED BY SMT, <2>2, <2>3, <4>2, <5>1, <5>2, <5>3, <5>4 DEF InUse
      <4> QED BY <4>1, <4>2
    <3>2. ASSUME NEW u \in Tags, NEW v \in Tags,
                 rpc'[u].flushed = rpc'[v].flushed, rpc'[u].flushed # NoTag
          PROVE  u = v
      <4>1. \A x \in Tags : rpc[x].flushed # NoTag => \A q \in Procs : rpc[x].flushed # r[q]
        BY DEF HInv, ChainInv
      <4>2. fl # NoTag => fl = r[p] BY <2>2
      <4> QED BY SMT, <2>2, <3>2, <4>1, <4>2 DEF HInv, ChainInv
    <3> QED BY <3>1, <3>2 DEF ChainInv, InUse
  <2>9. FreeInv'
    <3>1. /\ t \in tags' /\ tags \subseteq tags'
          /\ \A i, j \in DOMAIN rpcfree' : rpcfree'[i] = rpcfree'[j] => i = j
          /\ rpcfree' \in Seq(Tags)
          /\ \A i \in DOMAIN rpcfree' :
               rpcfree'[i] \in tags' /\ ~InUse(rpcfree'[i]) /\ rpcfree'[i] # t
      BY <2>1, RallocFree
    <3>2. \A i \in DOMAIN rpcfree' : rpcfree'[i] \in Tags \ {t} BY SMT, <3>1
    <3>3. \A i \in DOMAIN rpcfree' : rpc'[rpcfree'[i]].req = None BY <2>4, <3>1, <3>2 DEF InUse
    <3>4. \A u \in Tags : InUse(u)' => u \in tags' BY <2>4, <3>1 DEF HInv, FreeInv
    <3> QED BY <3>1, <3>3, <3>4 DEF FreeInv, InUse
  <2>10. OrigInv'
    <3> SUFFICES ASSUME NEW q \in Procs, r'[q] # NoTag
                 PROVE  /\ Orig(q)' \in Tags /\ InUse(Orig(q))'
                        /\ rpc'[Orig(q)'].req.call = q /\ rpc'[Orig(q)'].req.old = NoTag
      BY DEF OrigInv, InUse
    <3>1. ASSUME NEW o \in Tags, InUse(o), rpc[o].req.call = q, rpc[o].req.old = NoTag, Orig(q)' = o
          PROVE  /\ Orig(q)' \in Tags /\ InUse(Orig(q))'
                 /\ rpc'[Orig(q)'].req.call = q /\ rpc'[Orig(q)'].req.old = NoTag
      BY SMT, <2>2, <3>1 DEF InUse
    <3>2. CASE q # p
      <4>1. r'[q] = r[q] /\ r[q] \in Tags \ {t} /\ rpc'[r[q]] = rpc[r[q]] BY <2>2, <2>5, <3>2
      <4>2. Orig(q)' = Orig(q) BY <4>1 DEF Orig
      <4> QED BY <3>1, <4>1, <4>2 DEF HInv, OrigInv
    <3>3. CASE q = p /\ pc[p] \in Quiet
      <4>1. old = NoTag BY <3>3 DEF Quiet
      <4>2. Orig(q)' = t BY <2>2, <2>3, <3>3, <4>1 DEF Orig
      <4> QED BY <2>2, <2>3, <2>4, <3>3, <4>1, <4>2 DEF InUse
    <3>4. CASE q = p /\ pc[p] \notin Quiet
      <4>1. old = Orig(p) /\ r[p] # NoTag BY <3>4 DEF HInv, HeaderInv
      <4>2. /\ Orig(p) \in Tags /\ InUse(Orig(p)) 
            /\ rpc[Orig(p)].req.call = p /\ rpc[Orig(p)].req.old = NoTag
        BY <4>1 DEF HInv, OrigInv
      <4>3. Orig(q)' = Orig(p) BY <2>2, <2>3, <3>4, <4>1, <4>2 DEF Orig
      <4> QED BY <3>1, <3>4, <4>2, <4>3
    <3> QED BY <3>2, <3>3, <3>4
  <2> QED BY <2>7, <2>8, <2>9, <2>10 DEF HInv

\* Replies change nothing about which headers are in use.
<1>SameHInv.
     ASSUME TypeOK, HInv, SameHeaders, \A p \in Procs : pc'[p] \in Quiet <=> pc[p] \in Quiet
     PROVE  HInv'
  <2> USE <1>SameHInv
  <2>0. \A t \in Tags : InUse(t)' <=> InUse(t) BY DEF SameHeaders, InUse
  <2>1. \A p \in Procs : r[p] # NoTag => r[p] \in Tags /\ InUse(r[p]) /\ rpc'[r[p]].req = rpc[r[p]].req
    <3>1. \A p \in Procs : r[p] \in 0 .. NTags BY DEF TypeOK
    <3> QED BY SMT, <3>1 DEF HInv, HeaderInv, SameHeaders
  <2>2. \A t \in Tags : rpc[t].flushed # NoTag =>
          rpc[t].flushed \in Tags /\ rpc'[rpc[t].flushed].req = rpc[rpc[t].flushed].req
    <3>1. \A t \in Tags : rpc[t].flushed \in 0 .. NTags BY DEF TypeOK
    <3> QED BY SMT, <3>1 DEF SameHeaders
  <2>3. HeaderInv' BY SMT, <2>1 DEF HInv, HeaderInv, SameHeaders, InUse
  <2>4. ChainInv'
    <3>1. ASSUME NEW t \in Tags, rpc'[t].flushed # NoTag
          PROVE  LET u == rpc'[t].flushed
                 IN  /\ rpc'[u].req # None /\ rpc'[u].req.call = rpc'[t].req.call
                     /\ \A p \in Procs : r'[p] # u
                     /\ rpc'[t].req.old = IF rpc'[u].req.old = NoTag THEN u ELSE rpc'[u].req.old
      <4>1. rpc'[t].flushed = rpc[t].flushed /\ rpc'[t].req = rpc[t].req /\ r' = r
        BY DEF SameHeaders
      <4>2. rpc'[rpc[t].flushed].req = rpc[rpc[t].flushed].req BY <2>2, <3>1, <4>1
      <4> QED BY <3>1, <4>1, <4>2 DEF HInv, ChainInv, InUse
    <3>2. \A t, u \in Tags : rpc'[t].flushed = rpc'[u].flushed /\ rpc'[t].flushed # NoTag => t = u
      BY DEF HInv, ChainInv, SameHeaders
    <3> QED BY <3>1, <3>2 DEF ChainInv, InUse
  <2>5. FreeInv'
    <3>0. rpcfree \in Seq(Tags) BY DEF TypeOK
    <3>1. \A i \in DOMAIN rpcfree : rpcfree[i] \in Tags BY SMT, <3>0
    <3> QED BY <2>0, <3>1 DEF HInv, FreeInv, SameHeaders, InUse
  <2>6. \A p \in Procs : r[p] # NoTag => Orig(p)' = Orig(p) BY <2>1 DEF Orig, SameHeaders
  <2>7. OrigInv' BY SMT, <2>6 DEF HInv, OrigInv, SameHeaders, InUse
  <2> QED BY <2>3, <2>4, <2>5, <2>7 DEF HInv

\* The last header of a call is freed.
<1>FinishHInv.
     ASSUME TypeOK, HInv, NEW p \in Procs, Finished(p),
            pc[p] \notin Quiet, pc'[p] \in Quiet, \A q \in Procs \ {p} : pc'[q] = pc[q]
     PROVE  HInv'
  <2> USE <1>FinishHInv
  <2>0. PICK t : t = r[p] OBVIOUS
  <2>1. t \in Tags /\ InUse(t) /\ rpc[t].req.call = p
    BY <2>0, OwnHeader
  <2>3. /\ Free(t) /\ rpc'[t] = NoRpc
        /\ \A v \in Tags \ {t} : rpc'[v] = rpc[v]
        /\ r'[p] = NoTag /\ \A q \in Procs \ {p} : r'[q] = r[q]
    BY <2>0 DEF Finished
  <2>4. NoRpc.req = None /\ NoRpc.flushed = NoTag BY DEF NoRpc
  <2>5. ~InUse(t)' /\ \A v \in Tags \ {t} : InUse(v)' <=> InUse(v) BY <2>3, <2>4 DEF InUse
  <2>6. \A q \in Procs \ {p} : r[q] # NoTag =>
          r[q] \in Tags \ {t} /\ rpc'[r[q]] = rpc[r[q]] /\ InUse(r[q]) /\ rpc[r[q]].req.call = q
    <3>1. \A q \in Procs : r[q] \in 0 .. NTags BY DEF TypeOK
    <3>2. \A q \in Procs : r[q] # NoTag => InUse(r[q]) /\ rpc[r[q]].req.call = q
      BY DEF HInv, HeaderInv
    <3> QED BY SMT, <2>1, <2>3, <3>1, <3>2
  <2>7. \A v \in Tags : rpc[v].flushed # NoTag => rpc[v].flushed \in Tags \ {t}
    <3>1. \A v \in Tags : rpc[v].flushed \in 0 .. NTags BY DEF TypeOK
    <3>2. \A v \in Tags : rpc[v].flushed # NoTag => rpc[v].flushed # t BY <2>0 DEF HInv, ChainInv
    <3> QED BY SMT, <3>1, <3>2
  <2>9. HeaderInv'
    <3>1. \A q \in Procs : r'[q] = NoTag <=> pc'[q] \in Quiet
      BY <2>3 DEF HInv, HeaderInv
    <3>2. \A q \in Procs : r'[q] # NoTag => rpc'[r'[q]].req # None /\ rpc'[r'[q]].req.call = q
      BY SMT, <2>3, <2>6 DEF InUse
    <3>3. \A v \in Tags : InUse(v)' => rpc'[v].req.tag = v /\ rpc'[v].req.call \in Procs
      BY SMT, <2>3, <2>5 DEF HInv, HeaderInv
    <3>4. \A v \in Tags : IF ~InUse(v)' THEN rpc'[v].flushed = NoTag
                          ELSE rpc'[v].flushed = NoTag <=> rpc'[v].req.old = NoTag
      BY SMT, <2>3, <2>4, <2>5 DEF HInv, HeaderInv
    <3> QED BY <3>1, <3>2, <3>3, <3>4 DEF HeaderInv, InUse
  <2>10. ChainInv'
    <3>1. ASSUME NEW v \in Tags, rpc'[v].flushed # NoTag
          PROVE  LET w == rpc'[v].flushed
                 IN  /\ rpc'[w].req # None /\ rpc'[w].req.call = rpc'[v].req.call
                     /\ \A q \in Procs : r'[q] # w
                     /\ rpc'[v].req.old = IF rpc'[w].req.old = NoTag THEN w ELSE rpc'[w].req.old
      <4>1. v # t /\ rpc'[v] = rpc[v] BY <2>3, <2>4, <3>1
      <4>2. rpc[v].flushed \in Tags \ {t} /\ rpc'[rpc[v].flushed] = rpc[rpc[v].flushed]
        BY <2>3, <2>7, <3>1, <4>1
      <4> QED BY SMT, <2>3, <3>1, <4>1, <4>2 DEF HInv, ChainInv, InUse
    <3>2. ASSUME NEW v \in Tags, NEW w \in Tags,
                 rpc'[v].flushed = rpc'[w].flushed, rpc'[v].flushed # NoTag
          PROVE  v = w
      BY <2>3, <2>4, <3>2 DEF HInv, ChainInv
    <3> QED BY <3>1, <3>2 DEF ChainInv, InUse
  <2>11. FreeInv'
    <3>1. /\ \A i, j \in DOMAIN rpcfree' : rpcfree'[i] = rpcfree'[j] => i = j
          /\ rpcfree' \in Seq(Tags)
          /\ \A i \in DOMAIN rpcfree' :
               rpcfree'[i] \in tags' /\ (~InUse(rpcfree'[i]) \/ rpcfree'[i] = t)
          /\ \A v \in Tags \ {t} : InUse(v) => v \in tags'
      BY <2>1, <2>3, FreeFree
    <3>2. \A i \in DOMAIN rpcfree' : rpcfree'[i] \in Tags BY SMT, <3>1
    <3>3. \A i \in DOMAIN rpcfree' : rpc'[rpcfree'[i]].req = None BY <2>3, <2>4, <3>1, <3>2 DEF InUse
    <3>4. \A v \in Tags : InUse(v)' => v \in tags' BY <2>5, <3>1
    <3> QED BY <3>1, <3>3, <3>4 DEF FreeInv, InUse
  <2>13. OrigInv'
    <3> SUFFICES ASSUME NEW q \in Procs \ {p}, r'[q] # NoTag
                 PROVE  /\ Orig(q)' \in Tags /\ InUse(Orig(q))'
                        /\ rpc'[Orig(q)'].req.call = q /\ rpc'[Orig(q)'].req.old = NoTag
      BY <2>3 DEF OrigInv, InUse
    <3>1. r'[q] = r[q] /\ r[q] # NoTag /\ rpc'[r[q]] = rpc[r[q]] BY <2>3, <2>6
    <3>2. Orig(q)' = Orig(q) BY <3>1 DEF Orig
    <3>3. /\ Orig(q) \in Tags /\ InUse(Orig(q))
          /\ rpc[Orig(q)].req.call = q /\ rpc[Orig(q)].req.old = NoTag
      BY <3>1 DEF HInv, OrigInv
    <3>4. Orig(q) # t BY <2>1, <3>3
    <3> QED BY <2>3, <3>2, <3>3, <3>4 DEF InUse
  <2> QED BY <2>9, <2>10, <2>11, <2>13 DEF HInv

\* What a step of p must do for the reader to remain one.
<1>ReadInvStep.
     ASSUME TypeOK, ReadInv, NEW p \in Procs, NEW l \in Labels, Moves(p, l),
            \A t \in Tags : rp'[t] # None => pc'[rp'[t]] = "blocked" /\ r'[rp'[t]] = t,
            l \in {"read", "wake"} <=> rip' = p,
            \A q \in Procs \ {p} : rip' = q <=> rip = q,
            l \in {"vwrite", "vread"} <=> umq' = p,
            \A q \in Procs \ {p} : umq' = q <=> umq = q,
            umq' # None => ~mux', mux => mux', l \notin Quiet => mux',
            \A q \in Procs : swi'[q] => nintr'[q] >= 1,
            \A q \in Procs : failed'[q] => down' /\ pc'[q] \in Ending
     PROVE  ReadInv'
  <2> USE <1>ReadInvStep
  <2>1. /\ pc'[p] = l
        /\ \A q \in Procs \ {p} : pc'[q] = pc[q] \/ (pc[q] = "blocked" /\ pc'[q] = "woken")
    BY DEF Moves
  <2>2. \A q \in Procs : pc'[q] \in {"read", "wake"} <=> rip' = q
    <3>1. ASSUME NEW q \in Procs \ {p} PROVE pc'[q] \in {"read", "wake"} <=> pc[q] \in {"read", "wake"}
      BY <2>1
    <3> QED BY SMT, <2>1, <3>1 DEF ReadInv
  <2>3. \A q \in Procs : pc'[q] \in {"vwrite", "vread"} <=> umq' = q
    <3>1. ASSUME NEW q \in Procs \ {p}
          PROVE  pc'[q] \in {"vwrite", "vread"} <=> pc[q] \in {"vwrite", "vread"}
      BY <2>1
    <3> QED BY SMT, <2>1, <3>1 DEF ReadInv
  <2>4. \A q \in Procs : pc'[q] \notin Quiet => mux'
    <3>1. ASSUME NEW q \in Procs \ {p} PROVE pc'[q] \notin Quiet => pc[q] \notin Quiet
      BY <2>1 DEF Quiet
    <3> QED BY <2>1, <3>1 DEF ReadInv
  <2> QED BY <2>2, <2>3, <2>4 DEF ReadInv

\* A step inside a call that changes no header.
<1>WaitBase.
     ASSUME BaseInv, NEW p \in Procs, NEW l \in Labels, l \notin Quiet, pc[p] \notin Quiet,
            Moves(p, l), Sleepers,
            UNCHANGED <<r, rpc, queue, rpcfree, tags, mux, umq, down>>,
            rip' \in Procs \cup {None}, l \in {"read", "wake"} <=> rip' = p,
            \A q \in Procs \ {p} : rip' = q <=> rip = q,
            failed' \in [Procs -> BOOLEAN],
            \A q \in Procs \ {p} : failed'[q] => failed[q],
            failed'[p] => down /\ l \in Ending,
            target' \in [Procs -> 0 .. NTags],
            swi' \in [Procs -> BOOLEAN], nintr' \in [Procs -> Nat],
            \A q \in Procs : nintr'[q] <= MaxIntr[q],
            \A q \in Procs : swi'[q] => nintr'[q] >= 1,
            pending' \in Seq(Message), wire' \in Seq(Message)
     PROVE  BaseInv'
  <2> USE <1>WaitBase
  <2> USE DEF BaseInv
  <2>1. TypeOK' BY DEF TypeOK, Moves, Sleepers
  <2>2. /\ pc'[p] = l
        /\ \A q \in Procs \ {p} : pc'[q] = pc[q] \/ (pc[q] = "blocked" /\ pc'[q] = "woken")
    BY DEF Moves
  <2>3. \A q \in Procs : pc'[q] \in Quiet <=> pc[q] \in Quiet BY <2>2 DEF Quiet
  <2>4. HInv' BY <2>3, <1>SameHInv DEF SameHeaders
  <2>5. \A t \in Tags : rp'[t] # None => pc'[rp'[t]] = "blocked" /\ r'[rp'[t]] = t BY DEF Sleepers
  <2>6. l \in {"vwrite", "vread"} <=> umq' = p
    <3>1. pc[p] \in {"vwrite", "vread"} <=> umq = p BY DEF ReadInv
    <3> QED BY <3>1 DEF Quiet
  <2>7. umq' # None => ~mux' BY DEF ReadInv
  <2>8. mux /\ mux' BY DEF ReadInv
  <2>9. \A q \in Procs : failed'[q] => down' /\ pc'[q] \in Ending
    <3>1. ASSUME NEW q \in Procs \ {p}, failed'[q] PROVE down' /\ pc'[q] \in Ending
      <4>1. failed[q] BY <3>1
      <4>2. down /\ pc[q] \in Ending BY <4>1 DEF ReadInv
      <4>3. pc'[q] \in Ending BY <2>2, <4>2 DEF Ending
      <4> QED BY <4>2, <4>3
    <3>2. failed'[p] => down' /\ pc'[p] \in Ending BY <2>2
    <3> QED BY <3>1, <3>2
  <2>10. ReadInv' BY <2>5, <2>6, <2>7, <2>8, <2>9, <1>ReadInvStep
  <2> QED BY <2>1, <2>4, <2>10

\* Before the multiplexer exists.
<1>QuietBase.
     ASSUME BaseInv, NEW p \in Procs, NEW l \in Quiet, pc[p] \in Quiet, Goto(p, l),
            UNCHANGED <<r, rpc, rp, queue, rip, rpcfree, tags, failed, target, swi, nintr, down>>,
            umq' \in Procs \cup {None}, mux' \in BOOLEAN,
            l \in {"vwrite", "vread"} <=> umq' = p,
            \A q \in Procs \ {p} : umq' = q <=> umq = q,
            umq' # None => ~mux', mux => mux',
            pending' \in Seq(Message), wire' \in Seq(Message)
     PROVE  BaseInv' /\ Moves(p, l) /\ \A q \in Procs \ {p} : pc'[q] = pc[q]
  <2> USE <1>QuietBase
  <2> USE DEF BaseInv
  <2>0. l \in Labels BY DEF Quiet, Labels
  <2>1. Moves(p, l) /\ \A q \in Procs \ {p} : pc'[q] = pc[q] BY <2>0, GotoMoves
  <2>2. pc'[p] = l /\ pc' \in [Procs -> Labels] BY <2>1 DEF Moves
  <2>3. pc[p] # "blocked" BY DEF Quiet
  <2>4. Sleepers BY <2>0, <2>3, <1>GotoSleepers
  <2>5. TypeOK' BY <2>2 DEF TypeOK
  <2>6. HInv' BY <2>1, <2>2, <1>SameHInv DEF SameHeaders
  <2>7. \A t \in Tags : rp'[t] # None => pc'[rp'[t]] = "blocked" /\ r'[rp'[t]] = t
    BY <2>4 DEF Sleepers
  <2>8. l \in {"read", "wake"} <=> rip' = p BY DEF ReadInv, Quiet
  <2>9. \A q \in Procs : failed'[q] => down' /\ pc'[q] \in Ending
    <3>1. failed[p] => FALSE BY DEF ReadInv, Quiet, Ending
    <3> QED BY SMT, <2>1, <3>1 DEF ReadInv
  <2>10. \A q \in Procs : swi'[q] => nintr'[q] >= 1 BY DEF ReadInv
  <2>11. ReadInv' BY <2>0, <2>1, <2>7, <2>8, <2>9, <2>10, <1>ReadInvStep
  <2> QED BY <2>1, <2>5, <2>6, <2>11

\* mntversion.
<1>QuietSteps.
     ASSUME BaseInv, NEW p \in Procs,
            \/ VersionStart(p) \/ VersionLock(p) \/ VersionWrite(p) \/ VersionRead(p) \/ VersionFail(p)
     PROVE  BaseInv' /\ QuietStep(p)
  <2> USE <1>QuietSteps
  <2>1. /\ umq \in Procs \cup {None} /\ mux \in BOOLEAN
        /\ pending \in Seq(Message) /\ wire \in Seq(Message)
        /\ Append(pending, VersionMsg) \in Seq(Message)
        /\ wire # <<>> => Tail(wire) \in Seq(Message)
    <3>1. VersionMsg \in Message BY SMT DEF VersionMsg, Message
    <3> QED BY SMT, <3>1 DEF BaseInv, TypeOK
  <2>2. /\ pc[p] \in {"vwrite", "vread"} <=> umq = p
        /\ umq # None => ~mux
    BY DEF BaseInv, ReadInv
  <2> USE DEF At, mvars, vvars, srv, Quiet
  <2>3. CASE VersionStart(p)
    <3>1. /\ pc[p] = "idle" /\ Goto(p, "vlock")
          /\ UNCHANGED <<r, rpc, rp, queue, rip, rpcfree, tags, mux, umq, failed, target, swi,
                         nintr, fate, down, pending, wire>>
      BY <2>3 DEF VersionStart
    <3>2. BaseInv' /\ Moves(p, "vlock") /\ \A q \in Procs \ {p} : pc'[q] = pc[q]
      BY <2>1, <2>2, <3>1, <1>QuietBase
    <3> QED BY <3>1, <3>2 DEF QuietStep, Moves
  <2>4. CASE VersionLock(p) /\ mux
    <3>1. /\ pc[p] = "vlock" /\ Goto(p, "idle")
          /\ UNCHANGED <<r, rpc, rp, queue, rip, rpcfree, tags, mux, umq, failed, target, swi,
                         nintr, fate, down, pending, wire>>
      BY <2>4 DEF VersionLock
    <3>2. BaseInv' /\ Moves(p, "idle") /\ \A q \in Procs \ {p} : pc'[q] = pc[q]
      BY <2>1, <2>2, <3>1, <1>QuietBase
    <3> QED BY <3>1, <3>2 DEF QuietStep, Moves
  <2>5. CASE VersionLock(p) /\ ~mux
    <3>1. /\ pc[p] = "vlock" /\ umq = None /\ Goto(p, "vwrite") /\ umq' = p
          /\ UNCHANGED <<r, rpc, rp, queue, rip, rpcfree, tags, mux, failed, target, swi,
                         nintr, fate, down, pending, wire>>
      BY <2>5 DEF VersionLock
    <3>2. BaseInv' /\ Moves(p, "vwrite") /\ \A q \in Procs \ {p} : pc'[q] = pc[q]
      BY <2>1, <2>2, <2>5, <3>1, <1>QuietBase
    <3> QED BY <3>1, <3>2 DEF QuietStep, Moves
  <2>6. CASE VersionWrite(p)
    <3>1. /\ pc[p] = "vwrite" /\ Goto(p, "vread") /\ Server!Receive(VersionMsg)
          /\ UNCHANGED <<r, rpc, rp, queue, rip, rpcfree, tags, mux, umq, failed, target, swi,
                         nintr, fate, down>>
      BY <2>6 DEF VersionWrite
    <3>2. pending' = Append(pending, VersionMsg) /\ wire' = wire BY <3>1 DEF Server!Receive
    <3>3. BaseInv' /\ Moves(p, "vread") /\ \A q \in Procs \ {p} : pc'[q] = pc[q]
      BY <2>1, <2>2, <3>1, <3>2, <1>QuietBase
    <3> QED BY <3>1, <3>3 DEF QuietStep, Moves
  <2>7. CASE VersionRead(p)
    <3>1. /\ pc[p] = "vread" /\ Goto(p, "idle") /\ Server!Take /\ mux' = TRUE /\ umq' = None
          /\ UNCHANGED <<r, rpc, rp, queue, rip, rpcfree, tags, failed, target, swi,
                         nintr, fate, down>>
      BY <2>7 DEF VersionRead
    <3>2. pending' = pending /\ wire' = Tail(wire) /\ wire # <<>> BY <3>1 DEF Server!Take
    <3>3. BaseInv' /\ Moves(p, "idle") /\ \A q \in Procs \ {p} : pc'[q] = pc[q]
      BY <2>1, <2>2, <3>1, <3>2, <1>QuietBase
    <3> QED BY <3>1, <3>3 DEF QuietStep, Moves
  <2>8. CASE VersionFail(p)
    <3>1. /\ pc[p] \in {"vwrite", "vread"} /\ Goto(p, "idle") /\ umq' = None
          /\ UNCHANGED <<pending, wire>> \/ (Server!Take /\ pc[p] = "vread")
          /\ UNCHANGED <<r, rpc, rp, queue, rip, rpcfree, tags, mux, failed, target, swi,
                         nintr, fate, down>>
      BY <2>8 DEF VersionFail
    <3>2. pending' = pending /\ (wire' = wire \/ (wire' = Tail(wire) /\ wire # <<>>))
      BY <3>1 DEF Server!Take
    <3>3. pending' \in Seq(Message) /\ wire' \in Seq(Message) BY <2>1, <3>2
    <3>4. BaseInv' /\ Moves(p, "idle") /\ \A q \in Procs \ {p} : pc'[q] = pc[q]
      BY <2>1, <2>2, <3>1, <3>3, <1>QuietBase
    <3> QED BY <3>1, <3>4 DEF QuietStep, Moves
  <2> QED BY <2>3, <2>4, <2>5, <2>6, <2>7, <2>8

\* error() in mountio leaves a reader's duty and waits no more.
<1>EintrWait.
     ASSUME BaseInv, NEW p \in Procs, pc[p] \in Waiting \ {"blocked"}, Eintr(p),
            UNCHANGED <<r, rpc, queue, rpcfree, tags, mux, umq, target, nintr, fate, down>>,
            pending' \in Seq(Message), wire' \in Seq(Message),
            \/ UNCHANGED <<pending, wire>>
            \/ pc[p] = "write" /\ Server!Receive(rpc[r[p]].req)
     PROVE  BaseInv' /\ WaitStep(p)
  <2> USE <1>EintrWait
  <2>1. Error(p, "flushalloc") /\ swi' = [swi EXCEPT ![p] = FALSE] /\ failed' = failed
    BY DEF Eintr
  <2>2. "flushalloc" \in Labels /\ "flushalloc" \in Waiting /\ "flushalloc" \notin Sent
        /\ "flushalloc" \notin Quiet
    BY DEF Labels, Waiting, Sent, Quiet
  <2>3. TypeOK /\ ReadInv BY DEF BaseInv
  <2>4. Moves(p, "flushalloc") /\ Sleepers /\ rip' = IF rip = p THEN None ELSE rip
    BY <2>1, <2>2, <2>3, <1>ErrorMoves
  <2>5. rip' \in Procs \cup {None} /\ rip' # p /\ \A q \in Procs \ {p} : rip' = q <=> rip = q
    BY <2>3, <2>4 DEF TypeOK
  <2>6. pc[p] \notin Quiet BY DEF Waiting, Quiet
  <2>7. failed' \in [Procs -> BOOLEAN] /\ \A q \in Procs \ {p} : failed'[q] = failed[q]
    BY <2>1, <2>3 DEF TypeOK
  <2>8. ~failed[p] BY <2>3 DEF ReadInv, Waiting, Ending
  <2>9. swi' \in [Procs -> BOOLEAN] BY <2>1, <2>3 DEF TypeOK
  <2>10. \A q \in Procs : swi'[q] => swi[q] BY <2>1, <2>3 DEF TypeOK
  <2>11. \A q \in Procs : swi'[q] => nintr'[q] >= 1 BY <2>3, <2>10 DEF ReadInv
  <2>12. target' \in [Procs -> 0 .. NTags] /\ nintr' \in [Procs -> Nat]
         /\ \A q \in Procs : nintr'[q] <= MaxIntr[q]
    BY <2>3 DEF TypeOK
  <2>13. BaseInv'
    BY <2>1, <2>2, <2>4, <2>5, <2>6, <2>7, <2>8, <2>9, <2>11, <2>12, <1>WaitBase
  <2>14. WaitStep(p) BY <2>2, <2>4, <2>7 DEF WaitStep, Moves
  <2> QED BY <2>13, <2>14

\* The connection is found broken.
<1>EmountrpcWait.
     ASSUME BaseInv, NEW p \in Procs, pc[p] \in Waiting \ {"blocked"}, Emountrpc(p),
            UNCHANGED <<r, rpc, queue, rpcfree, tags, mux, umq, target, nintr, fate, down,
                        pending, wire>>
     PROVE  BaseInv' /\ WaitStep(p)
  <2> USE <1>EmountrpcWait
  <2>1. Error(p, "flushfree") /\ failed' = [failed EXCEPT ![p] = TRUE] /\ swi' = swi /\ down
    BY DEF Emountrpc
  <2>2. "flushfree" \in Labels /\ "flushfree" \notin Waiting /\ "flushfree" \in Ending
        /\ "flushfree" \notin Quiet /\ "flushfree" \notin Sent
    BY DEF Labels, Waiting, Ending, Quiet, Sent
  <2>3. TypeOK /\ ReadInv BY DEF BaseInv
  <2>4. Moves(p, "flushfree") /\ Sleepers /\ rip' = IF rip = p THEN None ELSE rip
    BY <2>1, <2>2, <2>3, <1>ErrorMoves
  <2>5. rip' \in Procs \cup {None} /\ rip' # p /\ \A q \in Procs \ {p} : rip' = q <=> rip = q
    BY <2>3, <2>4 DEF TypeOK
  <2>6. pc[p] \notin Quiet BY DEF Waiting, Quiet
  <2>7. failed' \in [Procs -> BOOLEAN] BY <2>1, <2>3 DEF TypeOK
  <2>8. \A q \in Procs \ {p} : failed'[q] = failed[q] BY <2>1, <2>3 DEF TypeOK
  <2>9. failed'[p] = TRUE BY <2>1, <2>3 DEF TypeOK
  <2>11. \A q \in Procs : swi'[q] => nintr'[q] >= 1 BY <2>1, <2>3 DEF ReadInv
  <2>12. target' \in [Procs -> 0 .. NTags] /\ nintr' \in [Procs -> Nat]
         /\ \A q \in Procs : nintr'[q] <= MaxIntr[q] /\ swi' \in [Procs -> BOOLEAN]
         /\ pending' \in Seq(Message) /\ wire' \in Seq(Message)
    BY <2>1, <2>3 DEF TypeOK
  <2>13. BaseInv'
    BY <2>1, <2>2, <2>4, <2>5, <2>6, <2>7, <2>8, <2>11, <2>12, <1>WaitBase
  <2>14. WaitStep(p) BY <2>2, <2>4, <2>8, <2>9 DEF WaitStep, Moves
  <2> QED BY <2>13, <2>14

\* The other steps of a waiting process: it goes to l.
<1>PlainWait.
     ASSUME BaseInv, NEW p \in Procs, NEW l \in Labels, pc[p] \in Waiting, 
            l \in Waiting \cup {"flushfree"},
            Moves(p, l), Sleepers,
            UNCHANGED <<r, rpc, queue, rpcfree, tags, mux, umq, failed, fate, down>>,
            rip' \in Procs \cup {None}, l \in {"read", "wake"} <=> rip' = p,
            \A q \in Procs \ {p} : rip' = q <=> rip = q,
            target' \in [Procs -> 0 .. NTags],
            swi' \in [Procs -> BOOLEAN], nintr' \in [Procs -> Nat],
            \A q \in Procs : nintr'[q] <= MaxIntr[q],
            \A q \in Procs : swi'[q] => nintr'[q] >= 1,
            pending' \in Seq(Message), wire' \in Seq(Message),
            l = "flushfree" => rpc[r[p]].done /\ pc[p] \in Sent /\ UNCHANGED <<pending, wire>>,
            l = "write" => pc[p] = "write" /\ UNCHANGED <<pending, wire>>,
            l \in Sent => pc[p] \in Sent \/ (pc[p] = "write" /\ ~down),
            \/ UNCHANGED <<pending, wire>>
            \/ pc[p] = "write" /\ Server!Receive(rpc[r[p]].req)
     PROVE  BaseInv' /\ WaitStep(p)
  <2> USE <1>PlainWait
  <2>1. TypeOK /\ ReadInv BY DEF BaseInv
  <2>2. l \notin Quiet /\ pc[p] \notin Quiet BY DEF Waiting, Quiet
  <2>3. failed' \in [Procs -> BOOLEAN] /\ \A q \in Procs : failed'[q] = failed[q] BY <2>1 DEF TypeOK
  <2>4. ~failed[p] BY <2>1 DEF ReadInv, Waiting, Ending
  <2>5. BaseInv' BY <2>2, <2>3, <2>4, <1>WaitBase
  <2>6. pc'[p] = l
        /\ \A q \in Procs \ {p} : pc'[q] = pc[q] \/ (pc[q] = "blocked" /\ pc'[q] = "woken")
    BY DEF Moves
  <2>7. WaitStep(p) BY <2>3, <2>6 DEF WaitStep
  <2> QED BY <2>5, <2>7

\* mountio, but for the reading of a message.
<1>WaitSteps.
     ASSUME BaseInv, NEW p \in Procs,
            \/ Write(p) \/ Gate(p) \/ Sleep(p) \/ SleepReturn(p) \/ Wake(p) \/ ReadError(p)
            \/ Leave(p) \/ Swiproc(p)
     PROVE  BaseInv' /\ WaitStep(p)
  <2> USE <1>WaitSteps
  <2> USE DEF mvars, vvars, srv, At
  <2>1. TypeOK /\ ReadInv /\ HInv BY DEF BaseInv
  <2>2. /\ rip \in Procs \cup {None} /\ pc[p] \in Labels
        /\ target \in [Procs -> 0 .. NTags]
        /\ swi \in [Procs -> BOOLEAN] /\ nintr \in [Procs -> Nat]
        /\ \A q \in Procs : nintr[q] <= MaxIntr[q]
        /\ pending \in Seq(Message) /\ wire \in Seq(Message)
    BY <2>1 DEF TypeOK
  <2>3. /\ \A q \in Procs : swi[q] => nintr[q] >= 1
        /\ pc[p] \in {"read", "wake"} <=> rip = p
    BY <2>1 DEF ReadInv
  <2>4. CASE Write(p)
    <3>1. /\ pc[p] = "write"
          /\ UNCHANGED <<r, rpc, queue, rpcfree, tags, mux, umq, target, nintr, fate, down>>
      BY <2>4 DEF Write
    <3>2. pc[p] \in Waiting \ {"blocked"} /\ pc[p] \notin Quiet BY <3>1 DEF Waiting, Quiet
    <3>3. rpc[r[p]].req \in Message BY <2>1, <3>2, OwnHeader
    <3>4. Server!Receive(rpc[r[p]].req) =>
            pending' \in Seq(Message) /\ wire' \in Seq(Message) /\ ~down
      BY SMT, <2>2, <3>3 DEF Server!Receive
    <3>5. CASE Server!Receive(rpc[r[p]].req) /\ Goto(p, "gate") /\ UNCHANGED <<rip, rp, failed, swi>>
      <4>1. "gate" \in Labels /\ "gate" \in Waiting BY DEF Labels, Waiting
      <4>2. Moves(p, "gate") /\ Sleepers BY <2>1, <3>2, <3>5, <4>1, GotoMoves, <1>GotoSleepers
      <4> QED BY <2>2, <2>3, <3>1, <3>2, <3>4, <3>5, <4>1, <4>2, <1>PlainWait
    <3>6. CASE Eintr(p) /\ UNCHANGED <<pending, wire>>
      BY <2>2, <3>1, <3>2, <3>6, <1>EintrWait
    <3>7. CASE Eintr(p) /\ Server!Receive(rpc[r[p]].req)
      BY <3>1, <3>2, <3>4, <3>7, <1>EintrWait
    <3>8. CASE Emountrpc(p) /\ UNCHANGED <<pending, wire>>
      BY <3>1, <3>2, <3>8, <1>EmountrpcWait
    <3> QED BY <2>4, <3>5, <3>6, <3>7, <3>8 DEF Write
  <2>5. CASE Gate(p)
    <3>1. /\ pc[p] = "gate"
          /\ UNCHANGED <<r, rpc, rp, queue, rpcfree, tags, mux, umq, failed, target, swi,
                         nintr, fate, down, pending, wire>>
      BY <2>5 DEF Gate
    <3>2. /\ pc[p] \in Waiting /\ pc[p] \in Sent /\ pc[p] # "blocked" /\ rip # p
          /\ {"read", "sleep"} \subseteq Labels /\ {"read", "sleep"} \subseteq Waiting
      BY <2>3, <3>1 DEF Waiting, Sent, Labels
    <3>3. CASE rip = None
      <4>1. rip' = p /\ Goto(p, "read") BY <2>5, <3>3 DEF Gate
      <4>2. Moves(p, "read") /\ Sleepers BY <2>1, <3>1, <3>2, <4>1, GotoMoves, <1>GotoSleepers
      <4> QED BY <2>2, <2>3, <3>1, <3>2, <3>3, <4>1, <4>2, <1>PlainWait
    <3>4. CASE rip # None
      <4>1. rip' = rip /\ Goto(p, "sleep") BY <2>5, <3>4 DEF Gate
      <4>2. Moves(p, "sleep") /\ Sleepers BY <2>1, <3>1, <3>2, <4>1, GotoMoves, <1>GotoSleepers
      <4> QED BY <2>2, <2>3, <3>1, <3>2, <4>1, <4>2, <1>PlainWait
    <3> QED BY <3>3, <3>4
  <2>6. CASE Sleep(p)
    <3>1. /\ pc[p] = "sleep"
          /\ UNCHANGED <<r, rpc, queue, rip, rpcfree, tags, mux, umq, failed, target, swi,
                         nintr, fate, down, pending, wire>>
      BY <2>6 DEF Sleep
    <3>2. /\ pc[p] \in Waiting /\ pc[p] \in Sent /\ pc[p] # "blocked" /\ rip # p /\ pc[p] \notin Quiet
          /\ {"woken", "blocked"} \subseteq Labels /\ {"woken", "blocked"} \subseteq Waiting
      BY <2>3, <3>1 DEF Waiting, Sent, Labels, Quiet
    <3>3. CASE Goto(p, "woken") /\ rp' = rp
      <4>1. Moves(p, "woken") /\ Sleepers BY <2>1, <3>2, <3>3, GotoMoves, <1>GotoSleepers
      <4> QED BY <2>2, <2>3, <3>1, <3>2, <4>1, <1>PlainWait
    <3>4. CASE Goto(p, "blocked") /\ rp' = [rp EXCEPT ![r[p]] = p]
      <4>1. Moves(p, "blocked") /\ \A q \in Procs \ {p} : pc'[q] = pc[q]
        BY <2>1, <3>2, <3>4, GotoMoves
      <4>2. r[p] \in Tags BY <2>1, <3>2, OwnHeader
      <4>3. /\ rp' \in [Tags -> Procs \cup {None}] /\ rp'[r[p]] = p
            /\ \A t \in Tags \ {r[p]} : rp'[t] = rp[t]
        BY <2>1, <3>4, <4>2 DEF TypeOK
      <4>4. \A t \in Tags : rp[t] # None => rp[t] \in Procs \ {p} /\ pc[rp[t]] = "blocked" /\ r[rp[t]] = t
        BY SMT, <2>1, <3>2 DEF TypeOK, ReadInv
      <4>5. Sleepers
        <5>1. ASSUME NEW t \in Tags, rp'[t] # None PROVE pc'[rp'[t]] = "blocked" /\ r[rp'[t]] = t
          <6>1. CASE t = r[p] BY <4>1, <4>3, <6>1 DEF Moves
          <6>2. CASE t # r[p]
            <7>1. rp'[t] = rp[t] BY <4>3, <6>2
            <7>2. rp[t] \in Procs \ {p} /\ pc[rp[t]] = "blocked" /\ r[rp[t]] = t BY <4>4, <5>1, <7>1
            <7> QED BY <4>1, <7>1, <7>2
          <6> QED BY <6>1, <6>2
        <5> QED BY <4>3, <5>1 DEF Sleepers
      <4> QED BY <2>2, <2>3, <3>1, <3>2, <4>1, <4>5, <1>PlainWait
    <3> QED BY <2>6, <3>3, <3>4 DEF Sleep
  <2>7. CASE SleepReturn(p)
    <3>1. /\ pc[p] = "woken"
          /\ UNCHANGED <<r, rpc, queue, rpcfree, tags, mux, umq, target, nintr, fate, down,
                         pending, wire>>
      BY <2>7 DEF SleepReturn
    <3>2. /\ pc[p] \in Waiting \ {"blocked"} /\ pc[p] \in Sent /\ rip # p
          /\ {"flushfree", "gate"} \subseteq Labels /\ "gate" \in Waiting
          /\ "flushfree" \notin Sent
      BY <2>3, <3>1 DEF Waiting, Sent, Labels
    <3>3. CASE Eintr(p) BY <2>2, <3>1, <3>2, <3>3, <1>EintrWait
    <3>4. CASE /\ Goto(p, IF rpc[r[p]].done THEN "flushfree" ELSE "gate")
               /\ UNCHANGED <<rip, rp, failed, swi>>
      <4>1. PICK l \in {"flushfree", "gate"} : Goto(p, l) /\ (l = "flushfree" => rpc[r[p]].done)
        BY <3>4
      <4>2. Moves(p, l) /\ Sleepers BY <2>1, <3>2, <3>4, <4>1, GotoMoves, <1>GotoSleepers
      <4>3. l \in Labels /\ l \in Waiting \cup {"flushfree"} BY <3>2
      <4>4. l \notin {"read", "wake", "write"} BY SMT
      <4> QED BY <2>2, <2>3, <3>1, <3>2, <3>4, <4>1, <4>2, <4>3, <4>4, <1>PlainWait
    <3> QED BY <2>7, <3>3, <3>4 DEF SleepReturn
  <2>8. CASE Wake(p)
    <3>1. /\ pc[p] = "wake"
          /\ pc' = Woke(target[p], [pc EXCEPT ![p] = "read"]) /\ rp' = Unslept(target[p])
          /\ target' = [target EXCEPT ![p] = NoTag]
          /\ UNCHANGED <<r, rpc, queue, rip, rpcfree, tags, mux, umq, failed, swi, nintr,
                         fate, down, pending, wire>>
      BY <2>8 DEF Wake
    <3>2. /\ pc[p] \in Waiting /\ pc[p] \in Sent /\ pc[p] # "blocked" /\ rip = p
          /\ "read" \in Labels /\ "read" \in Waiting
      BY <2>3, <3>1 DEF Waiting, Sent, Labels
    <3>3. target[p] \in 0 .. NTags /\ target' \in [Procs -> 0 .. NTags] BY SMT, <2>2, <3>1
    <3>4. Moves(p, "read") /\ Sleepers BY <2>1, <3>1, <3>2, <3>3, <1>WokeMoves
    <3> QED BY <2>2, <2>3, <3>1, <3>2, <3>3, <3>4, <1>PlainWait
  <2>9. CASE ReadError(p)
    <3>1. /\ pc[p] = "read" /\ (Eintr(p) \/ Emountrpc(p))
          /\ UNCHANGED <<r, rpc, queue, rpcfree, tags, mux, umq, target, nintr, fate, down,
                         pending, wire>>
      BY <2>9 DEF ReadError
    <3>2. pc[p] \in Waiting \ {"blocked"} BY <3>1 DEF Waiting
    <3> QED BY <2>2, <3>1, <3>2, <1>EintrWait, <1>EmountrpcWait
  <2>10. CASE Leave(p)
    <3>1. /\ pc[p] = "read" /\ rpc[r[p]].done /\ Mntgate(p, "flushfree")
          /\ UNCHANGED <<r, rpc, queue, rpcfree, tags, mux, umq, failed, target, swi, nintr,
                         fate, down, pending, wire>>
      BY <2>10 DEF Leave
    <3>2. /\ pc[p] \in Waiting /\ pc[p] \in Sent /\ pc[p] # "blocked" /\ rip = p
          /\ "flushfree" \in Labels /\ "flushfree" \notin Sent
      BY <2>3, <3>1 DEF Waiting, Sent, Labels
    <3>3. Moves(p, "flushfree") /\ Sleepers /\ rip' = None BY <2>1, <3>1, <3>2, <1>MntgateMoves
    <3>4. rip' # p /\ \A q \in Procs \ {p} : rip' = q <=> rip = q BY <3>2, <3>3
    <3> QED BY <2>2, <2>3, <3>1, <3>2, <3>3, <3>4, <1>PlainWait
  <2>11. CASE Swiproc(p)
    <3>1. /\ pc[p] \in Waiting /\ nintr[p] < MaxIntr[p]
          /\ swi' = [swi EXCEPT ![p] = TRUE] /\ nintr' = [nintr EXCEPT ![p] = @ + 1]
          /\ UNCHANGED <<r, rpc, queue, rip, rpcfree, tags, mux, umq, failed, target,
                         fate, down, pending, wire>>
      BY <2>11 DEF Swiproc
    <3>2. swi' \in [Procs -> BOOLEAN] BY <2>2, <3>1
    <3>3. \A q \in Procs \ {p} : swi'[q] = swi[q] BY <2>2, <3>1
    <3>4. /\ nintr' \in [Procs -> Nat] /\ nintr'[p] = nintr[p] + 1
          /\ \A q \in Procs \ {p} : nintr'[q] = nintr[q]
      BY SMTT(30), <2>2, <3>1
    <3>5. \A q \in Procs : nintr'[q] <= MaxIntr[q]
      <4>1. nintr[p] \in Nat /\ MaxIntr[p] \in Nat BY <2>2
      <4> QED BY SMT, <2>2, <3>1, <3>4, <4>1
    <3>6. \A q \in Procs : swi'[q] => nintr'[q] >= 1
      <4>1. nintr[p] \in Nat BY <2>2
      <4> QED BY SMTT(30), <2>3, <3>3, <3>4, <4>1
    <3>7. pc[p] \in Labels BY <2>2
    <3>8. CASE pc[p] = "blocked"
      <4>1. Goto(p, "woken") /\ rp' = [rp EXCEPT ![r[p]] = None] BY <2>11, <3>8 DEF Swiproc
      <4>2. /\ "woken" \in Labels /\ "woken" \in Waiting /\ pc[p] \in Sent /\ rip # p
            /\ pc[p] \notin Quiet
        BY <2>3, <3>8 DEF Labels, Waiting, Sent, Quiet
      <4>3. Moves(p, "woken") /\ \A q \in Procs \ {p} : pc'[q] = pc[q] BY <2>1, <4>1, <4>2, GotoMoves
      <4>4. r[p] \in Tags BY <2>1, <4>2, OwnHeader
      <4>5. /\ rp' \in [Tags -> Procs \cup {None}] /\ rp'[r[p]] = None
            /\ \A t \in Tags \ {r[p]} : rp'[t] = rp[t]
        BY <2>1, <4>1, <4>4 DEF TypeOK
      <4>6. \A t \in Tags : rp[t] # None => rp[t] \in Procs /\ pc[rp[t]] = "blocked" /\ r[rp[t]] = t
        BY SMTT(30), <2>1 DEF TypeOK, ReadInv
      <4>7. Sleepers BY SMT, <4>3, <4>5, <4>6 DEF Sleepers
      <4> QED BY <2>2, <2>3, <3>1, <3>2, <3>4, <3>5, <3>6, <4>2, <4>3, <4>7, <1>PlainWait
    <3>9. CASE pc[p] # "blocked"
      <4>1. pc' = pc /\ rp' = rp BY <2>11, <3>9 DEF Swiproc
      <4>2. Moves(p, pc[p]) BY <2>1, <4>1 DEF Moves, TypeOK
      <4>3. Sleepers BY <2>1, <4>1 DEF Sleepers, TypeOK, ReadInv
      <4>4. pc[p] # "flushfree" BY <3>1 DEF Waiting
      <4>5. BaseInv'
        <5>1. pc[p] \notin Quiet BY <3>1 DEF Waiting, Quiet
        <5>2. failed' \in [Procs -> BOOLEAN] /\ \A q \in Procs : failed'[q] = failed[q]
          BY <2>1, <3>1 DEF TypeOK
        <5>3. ~failed[p] BY <2>1, <3>1 DEF ReadInv, Waiting, Ending
        <5> QED BY <2>2, <2>3, <3>1, <3>2, <3>4, <3>5, <3>6, <4>2, <4>3, <5>1, <5>2, <5>3, <1>WaitBase
      <4>6. WaitStep(p) BY <3>1, <4>1, <4>4 DEF WaitStep
      <4> QED BY <4>5, <4>6
    <3> QED BY <3>8, <3>9
  <2> QED BY <2>4, <2>5, <2>6, <2>7, <2>8, <2>9, <2>10, <2>11

\* A header is queued: everything but the messages.
<1>EnqueueBase.
     ASSUME BaseInv, NEW p \in Procs, NEW fl \in 0 .. NTags, NEW old \in 0 .. NTags,
            Enqueue(p, fl, old),
            \/ pc[p] \in Quiet \ {"vwrite", "vread"} /\ fl = NoTag /\ old = NoTag
            \/ pc[p] = "flushalloc" /\ fl = r[p] /\ old = Orig(p),
            mux, UNCHANGED <<rp, rip, mux, umq, failed, target, swi, nintr, down, pending, wire>>
     PROVE  BaseInv'
  <2> USE <1>EnqueueBase
  <2>1. TypeOK /\ ReadInv /\ HInv BY DEF BaseInv
  <2>2. /\ \E t \in Tags : Ralloc(t) /\ Enqueued(p, fl, old, t)
        /\ pc' \in [Procs -> Labels] /\ r' \in [Procs -> 0 .. NTags] /\ queue' \in Seq(Tags)
        /\ rpc' \in [Tags -> [done : BOOLEAN, flushed : 0 .. NTags,
                              req : Message \cup {None}, reply : Message \cup {None}]]
        /\ rpcfree' \in Seq(Tags) /\ Len(rpcfree') <= MaxFree /\ tags' \subseteq Tags
    BY <2>1, EnqueueFacts
  <2>3. TypeOK' BY <2>1, <2>2 DEF TypeOK
  <2>4. HInv' BY <2>1, <1>EnqueueHInv DEF Quiet
  <2>5. PICK t \in Tags :
          /\ r'[p] = t /\ \A q \in Procs \ {p} : r'[q] = r[q]
          /\ pc'[p] = "write" /\ \A q \in Procs \ {p} : pc'[q] = pc[q]
    BY <2>2 DEF Enqueued
  <2>6. Moves(p, "write") BY <2>2, <2>5 DEF Moves
  <2>7. pc[p] # "blocked" /\ pc[p] \notin {"read", "wake", "vwrite", "vread"} /\ pc[p] \notin Ending
    BY DEF Quiet, Ending
  <2>8. \A u \in Tags : rp[u] # None => rp[u] \in Procs \ {p} /\ pc[rp[u]] = "blocked" /\ r[rp[u]] = u
    BY SMT, <2>1, <2>7 DEF TypeOK, ReadInv
  <2>9. ASSUME NEW u \in Tags, rp'[u] # None
        PROVE  pc'[rp'[u]] = "blocked" /\ r'[rp'[u]] = u
    <3>1. PICK v : v = rp[u] /\ rp'[u] = v BY <2>1
    <3>2. v \in Procs \ {p} /\ pc[v] = "blocked" /\ r[v] = u BY <2>8, <2>9, <3>1
    <3>3. pc'[v] = pc[v] /\ r'[v] = r[v] BY <2>5, <3>2
    <3> QED BY <3>1, <3>2, <3>3
  <2>10. "write" \in Labels /\ "write" \notin {"read", "wake"} /\ "write" \notin {"vwrite", "vread"}
    BY DEF Labels
  <2>11. rip' # p /\ umq' # p BY <2>1, <2>7 DEF ReadInv
  <2>12. umq' # None => ~mux' BY <2>1 DEF ReadInv
  <2>13. \A q \in Procs : swi'[q] => nintr'[q] >= 1 BY <2>1 DEF ReadInv
  <2>14. \A q \in Procs : failed'[q] => down' /\ pc'[q] \in Ending
    BY <2>1, <2>5, <2>7 DEF ReadInv
  <2>15. ReadInv'
    BY <2>1, <2>6, <2>9, <2>10, <2>11, <2>12, <2>13, <2>14, <1>ReadInvStep
  <2> QED BY <2>3, <2>4, <2>15 DEF BaseInv

\* A call begins.
<1>CallSteps.
     ASSUME BaseInv, NEW p \in Procs, Call(p), fate \in [Procs -> Fates]
     PROVE  BaseInv' /\ CallStep(p)
  <2> USE <1>CallSteps
  <2>1. /\ pc[p] = "idle" /\ mux /\ Enqueue(p, NoTag, NoTag)
        /\ fate' = [fate EXCEPT ![p] = "open"]
        /\ UNCHANGED <<rp, rip, mux, umq, failed, target, swi, nintr, down, pending, wire>>
    BY DEF Call, At, vvars, srv
  <2>2. pc[p] \in Quiet \ {"vwrite", "vread"} BY <2>1 DEF Quiet
  <2>3. NoTag \in 0 .. NTags BY SMT
  <2>4. BaseInv' BY <2>1, <2>2, <2>3, <1>EnqueueBase
  <2>5. \A q \in Procs : fate'[q] = IF q = p THEN "open" ELSE fate[q] BY <2>1
  <2> QED BY <2>1, <2>2, <2>4, <2>5 DEF CallStep

\* mntflushalloc.
<1>FlushSteps.
     ASSUME BaseInv, NEW p \in Procs, Flushalloc(p)
     PROVE  BaseInv' /\ FlushStep(p)
  <2> USE <1>FlushSteps
  <2>1. TypeOK /\ ReadInv /\ HInv BY DEF BaseInv
  <2>2. /\ pc[p] = "flushalloc"
        /\ LET old == rpc[r[p]].req
           IN  Enqueue(p, r[p], IF Server!IsFlush(old) THEN old.old ELSE old.tag)
        /\ UNCHANGED <<rp, rip, mux, umq, failed, target, swi, nintr, fate, down, pending, wire>>
    BY DEF Flushalloc, At, vvars, srv
  <2>3. pc[p] \notin Quiet BY <2>2 DEF Quiet
  <2>4. r[p] \in Tags /\ rpc[r[p]].req.tag = r[p] BY <2>1, <2>3, OwnHeader
  <2>5. Orig(p) \in Tags BY SMT, <2>1, <2>4 DEF HInv, OrigInv
  <2>6. Orig(p) = IF Server!IsFlush(rpc[r[p]].req) THEN rpc[r[p]].req.old ELSE rpc[r[p]].req.tag
    BY <2>4 DEF Orig, Server!IsFlush, Server!NoTag
  <2>7. Enqueue(p, r[p], Orig(p)) BY <2>2, <2>6
  <2>8. mux BY <2>1, <2>3 DEF ReadInv
  <2>9. r[p] \in 0 .. NTags /\ Orig(p) \in 0 .. NTags BY SMT, <2>4, <2>5
  <2>10. BaseInv' BY <2>2, <2>7, <2>8, <2>9, <1>EnqueueBase
  <2> QED BY <2>2, <2>7, <2>9, <2>10 DEF FlushStep

\* A header taken off the queue.
<1>UnqueuedFacts.
     ASSUME TypeOK, NEW t, NEW q \in Unqueued(t)
     PROVE  q \in Seq(Tags) /\ Elements(q) = Elements(queue) \ {t}
  <2> USE <1>UnqueuedFacts
  <2>1. PICK K : K = {i \in DOMAIN queue : queue[i] # t} OBVIOUS
  <2>2. queue \in Seq(Tags) /\ K \in SUBSET DOMAIN queue BY <2>1 DEF TypeOK
  <2>3. q \in Kept(queue, K) BY <2>1 DEF Unqueued
  <2>4. q \in Seq(Tags) /\ Selected(q, queue, K) BY <2>2, <2>3, <1>KeptFacts
  <2>5. PICK g \in [DOMAIN q -> K] : Orders(g, K) /\ \A i \in DOMAIN q : q[i] = queue[g[i]]
    BY <2>4 DEF Selected
  <2>6. \A i \in DOMAIN q : q[i] \in Elements(queue) \ {t}
    <3>1. \A i \in DOMAIN q : g[i] \in DOMAIN queue /\ queue[g[i]] # t BY <2>1, <2>5
    <3> QED BY <2>5, <3>1 DEF Elements
  <2>7. ASSUME NEW x \in Elements(queue) \ {t} PROVE \E i \in DOMAIN q : q[i] = x
    <3>1. PICK k \in K : queue[k] = x BY <2>1 DEF Elements
    <3>2. PICK i \in DOMAIN q : g[i] = k BY <2>5 DEF Orders
    <3> QED BY <2>5, <3>1, <3>2
  <2>8. Elements(q) = {q[i] : i \in DOMAIN q} BY DEF Elements
  <2>9. Elements(q) = Elements(queue) \ {t}
    <3> HIDE DEF Elements
    <3> QED BY <2>6, <2>7, <2>8
  <2> QED BY <2>4, <2>9

\* mntrpcread and mountmux.
<1>ReadSteps.
     ASSUME BaseInv, NEW p \in Procs, Read(p)
     PROVE  BaseInv' /\ ReadStep(p)
  <2> USE <1>ReadSteps
  <2>1. TypeOK /\ ReadInv /\ HInv BY DEF BaseInv
  <2>2. /\ pc[p] = "read" /\ wire # <<>> /\ wire' = Tail(wire) /\ pending' = pending
        /\ UNCHANGED <<r, rp, rip, rpcfree, tags, mux, umq, failed, swi, nintr, fate, down>>
    BY DEF Read, At, vvars, Server!Take
  <2>3. pc[p] # "blocked" /\ pc[p] \notin Quiet /\ pc[p] \notin Ending /\ rip = p
        /\ "read" \in Labels /\ "wake" \in Labels
    BY <2>1, <2>2 DEF Quiet, Ending, ReadInv, Labels
  <2>4. wire \in Seq(Message) /\ Head(wire) \in Message /\ Tail(wire) \in Seq(Message)
    BY SMT, <2>1, <2>2 DEF TypeOK
  <2>5. PICK m \in Message : m = Head(wire) BY <2>4
  <2>6. \/ m.tag \notin Elements(queue) /\ UNCHANGED <<queue, rpc, pc, target>>
        \/ /\ m.tag \in Elements(queue) /\ queue' \in Unqueued(m.tag)
           /\ rpc' = [rpc EXCEPT ![m.tag].done = TRUE, ![m.tag].reply = m]
           /\ \/ UNCHANGED <<pc, target>>
              \/ Goto(p, "wake") /\ target' = [target EXCEPT ![p] = m.tag]
    BY <2>5 DEF Read
  <2>7. \A q \in Procs : swi'[q] => nintr'[q] >= 1 BY <2>1, <2>2 DEF ReadInv
  <2>8. Elements(queue) \subseteq Tags
    <3>1. queue \in Seq(Tags) BY <2>1 DEF TypeOK
    <3> QED BY SMT, <3>1 DEF Elements
  <2>9. Sleepers /\ \E l \in {"read", "wake"} : Moves(p, l) /\ \A q \in Procs \ {p} : pc'[q] = pc[q]
    <3>1. CASE pc' = pc
      <4>1. Moves(p, "read") BY <2>1, <2>2, <3>1 DEF Moves, TypeOK
      <4>2. Sleepers BY <2>1, <2>2, <3>1 DEF Sleepers, TypeOK, ReadInv
      <4> QED BY <3>1, <4>1, <4>2
    <3>2. CASE Goto(p, "wake")
      BY <2>1, <2>2, <2>3, <3>2, GotoMoves, <1>GotoSleepers
    <3> QED BY <2>6, <3>1, <3>2
  <2>10. PICK l \in {"read", "wake"} : Moves(p, l) /\ \A q \in Procs \ {p} : pc'[q] = pc[q] BY <2>9
  <2>11. pc' \in [Procs -> Labels] /\ pc'[p] = l BY <2>10 DEF Moves
  <2>12. \A q \in Procs : pc'[q] \in Quiet <=> pc[q] \in Quiet BY <2>3, <2>10, <2>11 DEF Quiet
  <2>13. \A u \in Tags : rp'[u] # None => pc'[rp'[u]] = "blocked" /\ r'[rp'[u]] = u
    BY <2>2, <2>9 DEF Sleepers
  <2>14. \A q \in Procs : failed'[q] => down' /\ pc'[q] \in Ending
    BY <2>1, <2>2, <2>3, <2>10 DEF ReadInv
  <2>15. /\ l \in {"read", "wake"} <=> rip' = p
         /\ l \in {"vwrite", "vread"} <=> umq' = p
         /\ umq' # None => ~mux'
         /\ mux' /\ mux
    BY <2>1, <2>2, <2>3 DEF ReadInv, Quiet
  <2>16. ReadInv' BY <2>1, <2>2, <2>3, <2>7, <2>10, <2>13, <2>14, <2>15, <1>ReadInvStep
  <2>17. CASE m.tag \notin Elements(queue) /\ UNCHANGED <<queue, rpc, pc, target>>
    <3>1. TypeOK' BY <2>1, <2>2, <2>4, <2>17 DEF TypeOK
    <3>2. HInv' BY <2>1, <2>2, <2>12, <2>17, <1>SameHInv DEF SameHeaders
    <3>3. ReadStep(p) BY <2>2, <2>5, <2>17 DEF ReadStep
    <3> QED BY <2>16, <3>1, <3>2, <3>3 DEF BaseInv
  <2>18. CASE /\ m.tag \in Elements(queue) /\ queue' \in Unqueued(m.tag)
              /\ rpc' = [rpc EXCEPT ![m.tag].done = TRUE, ![m.tag].reply = m]
              /\ \/ UNCHANGED <<pc, target>>
                 \/ Goto(p, "wake") /\ target' = [target EXCEPT ![p] = m.tag]
    <3>1. PICK t \in Tags : t = m.tag /\ t \in Elements(queue) BY <2>8, <2>18
    <3>2. queue' \in Seq(Tags) /\ Elements(queue') = Elements(queue) \ {t}
      BY <2>1, <2>18, <3>1, <1>UnqueuedFacts
    <3>3. rpc' = [rpc EXCEPT ![t].done = TRUE, ![t].reply = m] BY <2>18, <3>1
    <3>4. rpc[t] \in [done : BOOLEAN, flushed : 0 .. NTags, req : Message \cup {None},
                      reply : Message \cup {None}]
      BY <2>1 DEF TypeOK
    <3>5. /\ rpc'[t].req = rpc[t].req /\ rpc'[t].flushed = rpc[t].flushed
          /\ rpc'[t].done = TRUE /\ rpc'[t].reply = m
          /\ \A u \in Tags \ {t} : rpc'[u] = rpc[u]
      BY <2>1, <3>3, <3>4 DEF TypeOK
    <3>6. rpc' \in [Tags -> [done : BOOLEAN, flushed : 0 .. NTags, req : Message \cup {None},
                             reply : Message \cup {None}]]
      BY <2>1, <3>3, <3>4 DEF TypeOK
    <3>7. target' \in [Procs -> 0 .. NTags]
      <4>1. target \in [Procs -> 0 .. NTags] /\ t \in 0 .. NTags BY SMT, <2>1 DEF TypeOK
      <4>2. target' = target \/ target' = [target EXCEPT ![p] = t] BY <2>18, <3>1
      <4> QED BY <4>1, <4>2
    <3>8. TypeOK' BY <2>1, <2>2, <2>4, <2>11, <3>2, <3>6, <3>7 DEF TypeOK
    <3>9. SameHeaders BY <2>2, <3>5 DEF SameHeaders
    <3>10. HInv' BY <2>1, <2>12, <3>9, <1>SameHInv
    <3>11. ReadStep(p) BY <2>2, <2>5, <2>10, <2>11, <3>1, <3>2, <3>5 DEF ReadStep
    <3> QED BY <2>16, <3>8, <3>10, <3>11 DEF BaseInv
  <2> QED BY <2>6, <2>17, <2>18

\* A step at the end of a call.
<1>EndBase.
     ASSUME BaseInv, NEW p \in Procs, NEW l \in Labels, pc[p] \in Ending, l \in Ending \cup {"idle"},
            Goto(p, l), \A q \in Procs \ {p} : r'[q] = r[q], HInv',
            r' \in [Procs -> 0 .. NTags], queue' \in Seq(Tags),
            rpc' \in [Tags -> [done : BOOLEAN, flushed : 0 .. NTags,
                               req : Message \cup {None}, reply : Message \cup {None}]],
            rpcfree' \in Seq(Tags), Len(rpcfree') <= MaxFree, tags' \subseteq Tags,
            UNCHANGED <<rp, rip, mux, umq, target, swi, down>>,
            failed' \in [Procs -> BOOLEAN], \A q \in Procs \ {p} : failed'[q] = failed[q],
            failed'[p] => failed[p] /\ l \in Ending,
            nintr' \in [Procs -> Nat], \A q \in Procs : nintr'[q] <= MaxIntr[q],
            \A q \in Procs : swi[q] => nintr'[q] >= 1,
            pending' \in Seq(Message), wire' \in Seq(Message)
     PROVE  BaseInv' /\ pc'[p] = l /\ \A q \in Procs \ {p} : pc'[q] = pc[q]
  <2> USE <1>EndBase
  <2> TypeOK /\ ReadInv /\ HInv BY DEF BaseInv
  <2> pc[p] # "blocked" /\ pc[p] \notin {"read", "wake", "vwrite", "vread"} /\ pc[p] \notin Quiet
    BY DEF Ending, Quiet
  <2>1. Moves(p, l) /\ \A q \in Procs \ {p} : pc'[q] = pc[q] BY GotoMoves
  <2>2. pc' \in [Procs -> Labels] /\ pc'[p] = l BY <2>1 DEF Moves
  <2>3. TypeOK' BY <2>2 DEF TypeOK
  <2>4. Sleepers BY <1>GotoSleepers
  <2>5. \A t \in Tags : rp'[t] # None => pc'[rp'[t]] = "blocked" /\ r'[rp'[t]] = t
    <3>1. \A t \in Tags : rp[t] # None => rp[t] \in Procs \ {p} /\ r[rp[t]] = t
      BY SMT DEF TypeOK, ReadInv
    <3> QED BY <2>4, <3>1 DEF Sleepers
  <2>6. /\ l \in {"read", "wake"} <=> rip' = p
        /\ l \in {"vwrite", "vread"} <=> umq' = p
        /\ umq' # None => ~mux'
        /\ mux' /\ mux
        /\ \A q \in Procs : swi'[q] => nintr'[q] >= 1
    BY DEF ReadInv, Ending
  <2>7. \A q \in Procs : failed'[q] => down' /\ pc'[q] \in Ending
    <3>1. \A q \in Procs : failed[q] => down /\ pc[q] \in Ending BY DEF ReadInv
    <3>2. \A q \in Procs \ {p} : failed'[q] => down' /\ pc'[q] \in Ending BY <2>1, <3>1
    <3>3. failed'[p] => down' /\ pc'[p] \in Ending BY <2>2, <3>1
    <3> QED BY <3>2, <3>3
  <2>8. ReadInv' BY <2>1, <2>5, <2>6, <2>7, <1>ReadInvStep
  <2> QED BY <2>1, <2>2, <2>3, <2>8 DEF BaseInv

\* The end of the treatment of one header in mntflushfree.
<1>NextFlushedSteps.
     ASSUME BaseInv, NEW p \in Procs, pc[p] \in {"flushfree", "qrm"}, NEW f, NextFlushed(p, f),
            f \in [Tags -> [done : BOOLEAN, flushed : 0 .. NTags,
                            req : Message \cup {None}, reply : Message \cup {None}]],
            f[r[p]].done = TRUE, f[r[p]].req = rpc[r[p]].req, f[r[p]].flushed = rpc[r[p]].flushed,
            f[r[p]].reply = rpc[r[p]].reply,
            \A t \in Tags \ {r[p]} : f[t] = rpc[t],
            queue' \in Seq(Tags), Leaves(p),
            UNCHANGED <<rp, rip, mux, umq, failed, target, swi, nintr, down, pending, wire>>
     PROVE  BaseInv' /\ (UnchainStep(p) \/ LastStep(p))
  <2> USE <1>NextFlushedSteps
  <2> TypeOK /\ ReadInv /\ HInv BY DEF BaseInv
  <2> /\ pc[p] \notin Quiet /\ pc[p] \in Ending
      /\ {"flushfree", "return"} \subseteq Ending /\ {"flushfree", "return"} \subseteq Labels
      /\ "flushfree" \notin Quiet /\ "return" \notin Quiet
    BY DEF Quiet, Ending, Labels
  <2> r[p] \in Tags /\ InUse(r[p]) /\ rpc[r[p]].flushed \in 0 .. NTags BY OwnHeader
  <2>1. /\ failed \in [Procs -> BOOLEAN] /\ nintr \in [Procs -> Nat]
        /\ \A q \in Procs : nintr[q] <= MaxIntr[q]
        /\ pending \in Seq(Message) /\ wire \in Seq(Message)
        /\ r \in [Procs -> 0 .. NTags] 
        /\ rpcfree \in Seq(Tags) /\ Len(rpcfree) <= MaxFree /\ tags \subseteq Tags
    BY DEF TypeOK
  <2>2. \A q \in Procs : swi[q] => nintr'[q] >= 1 BY DEF ReadInv
  <2>3. failed[p] => failed[p] BY SMT
  <2>4. CASE f[r[p]].flushed # NoTag
    <3>1. PICK u \in 0 .. NTags : u = rpc[r[p]].flushed /\ u # NoTag BY <2>4
    <3>2. /\ Free(r[p]) /\ rpc' = [f EXCEPT ![r[p]] = NoRpc] /\ r' = [r EXCEPT ![p] = u]
          /\ Goto(p, "flushfree") /\ fate' = fate
      BY <2>4, <3>1 DEF NextFlushed
    <3>3. NoRpc \in [done : BOOLEAN, flushed : 0 .. NTags,
                     req : Message \cup {None}, reply : Message \cup {None}]
      <4>1. 0 \in 0 .. NTags BY SMT
      <4> QED BY <4>1 DEF NoRpc
    <3>4. /\ rpc' \in [Tags -> [done : BOOLEAN, flushed : 0 .. NTags,
                                req : Message \cup {None}, reply : Message \cup {None}]]
          /\ rpc'[r[p]] = NoRpc /\ \A t \in Tags \ {r[p]} : rpc'[t] = rpc[t]
      BY <3>2, <3>3
    <3>5. /\ r' \in [Procs -> 0 .. NTags] /\ r'[p] = u /\ \A q \in Procs \ {p} : r'[q] = r[q]
      BY <2>1, <3>2
    <3>6. Unchained(p, u) BY <3>1, <3>2, <3>4, <3>5 DEF Unchained
    <3>7. Moves(p, "flushfree") /\ \A q \in Procs \ {p} : pc'[q] = pc[q] BY <3>2, GotoMoves
    <3>8. HInv' BY <3>6, <3>7, UnchainHInv DEF Moves
    <3>9. rpcfree' \in Seq(Tags) /\ Len(rpcfree') <= MaxFree /\ tags' \subseteq Tags
      BY <3>2, FreeFree
    <3>10. BaseInv' /\ pc'[p] = "flushfree" BY <2>1, <2>2, <3>2, <3>4, <3>5, <3>8, <3>9, <1>EndBase
    <3> QED BY <3>2, <3>6, <3>7, <3>10 DEF UnchainStep, EndSame
  <2>5. CASE f[r[p]].flushed = NoTag
    <3>1. /\ rpc' = f /\ fate' = [fate EXCEPT ![p] = Outcome(p, f[r[p]])] /\ Goto(p, "return")
          /\ UNCHANGED <<r, rpcfree, tags>>
      BY <2>5 DEF NextFlushed
    <3>2. Moves(p, "return") /\ \A q \in Procs \ {p} : pc'[q] = pc[q] BY <3>1, GotoMoves
    <3>3. \A q \in Procs : pc'[q] \in Quiet <=> pc[q] \in Quiet
      <4>1. pc'[p] \notin Quiet BY <3>2 DEF Moves
      <4>2. ASSUME NEW q \in Procs PROVE pc'[q] \in Quiet <=> pc[q] \in Quiet
        <5>1. CASE q = p BY <4>1, <5>1
        <5>2. CASE q # p BY <3>2, <5>2
        <5> QED BY <5>1, <5>2
      <4> QED BY <4>2
    <3>4. SameHeaders BY <3>1 DEF SameHeaders
    <3>5. HInv' BY <3>3, <3>4, <1>SameHInv
    <3>6. BaseInv' /\ pc'[p] = "return" BY <2>1, <2>2, <3>1, <3>5, <1>EndBase
    <3> QED BY <2>5, <3>1, <3>2, <3>6 DEF LastStep, EndSame
  <2> QED BY <2>4, <2>5

\* mntflushfree, with mntqrm.
<1>EndSteps.
     ASSUME BaseInv, NEW p \in Procs, Flushfree(p) \/ SetRflush(p) \/ Mntqrm(p)
     PROVE  BaseInv' /\ (MarkStep(p) \/ UnchainStep(p) \/ LastStep(p))
  <2> USE <1>EndSteps
  <2> TypeOK /\ ReadInv /\ HInv BY DEF BaseInv
  <2>0. /\ r \in [Procs -> 0 .. NTags] /\ queue \in Seq(Tags)
        /\ rpc \in [Tags -> [done : BOOLEAN, flushed : 0 .. NTags,
                             req : Message \cup {None}, reply : Message \cup {None}]]
        /\ rpcfree \in Seq(Tags) /\ Len(rpcfree) <= MaxFree /\ tags \subseteq Tags
        /\ failed \in [Procs -> BOOLEAN] /\ nintr \in [Procs -> Nat]
        /\ \A q \in Procs : nintr[q] <= MaxIntr[q]
        /\ pending \in Seq(Message) /\ wire \in Seq(Message)
    BY DEF TypeOK
  <2>1. \A q \in Procs : swi[q] => nintr[q] >= 1 BY DEF ReadInv
  <2>2. CASE Flushfree(p)
    <3>1. /\ pc[p] = "flushfree"
          /\ UNCHANGED <<rp, queue, rip, mux, umq, failed, target, swi, nintr, down, pending, wire>>
      BY <2>2 DEF Flushfree, At, vvars, srv
    <3>2. CASE rpc[r[p]].done
      <4>1. NextFlushed(p, rpc) BY <2>2, <3>2 DEF Flushfree
      <4>2. Leaves(p) BY <3>1, <3>2 DEF Leaves
      <4>3. pc[p] \notin Quiet BY <3>1 DEF Quiet
      <4>4. r[p] \in Tags BY <4>3, OwnHeader
      <4>5. rpc[r[p]].done = TRUE BY <2>0, <3>2, <4>4
      <4> QED BY <2>0, <3>1, <4>1, <4>2, <4>5, <1>NextFlushedSteps
    <3>3. CASE ~rpc[r[p]].done
      <4>1. Goto(p, "unanswered") /\ UNCHANGED <<r, rpc, rpcfree, tags, fate>>
        BY <2>2, <3>3 DEF Flushfree
      <4>2. "unanswered" \in Labels /\ "unanswered" \in Ending /\ pc[p] \in Ending
            /\ "unanswered" \notin Quiet /\ pc[p] \notin Quiet
        BY <3>1 DEF Labels, Ending, Quiet
      <4>3. Moves(p, "unanswered") /\ \A q \in Procs \ {p} : pc'[q] = pc[q] BY <4>1, <4>2, GotoMoves
      <4>4. \A q \in Procs : pc'[q] \in Quiet <=> pc[q] \in Quiet BY <4>2, <4>3 DEF Moves
      <4>5. HInv' BY <4>1, <4>4, <1>SameHInv DEF SameHeaders
      <4>6. BaseInv' BY <2>0, <2>1, <3>1, <4>1, <4>2, <4>5, <1>EndBase
      <4> QED BY <3>1, <3>3, <4>1, <4>3, <4>6 DEF MarkStep, EndSame, Moves
    <3> QED BY <3>2, <3>3
  <2>3. CASE SetRflush(p)
    <3>1. /\ pc[p] = "unanswered" /\ Goto(p, "qrm") /\ rpc' = [rpc EXCEPT ![r[p]].reply = Rflush]
          /\ UNCHANGED <<r, rp, queue, rip, rpcfree, tags, mux, umq, failed, target, swi,
                         nintr, fate, down, pending, wire>>
      BY <2>3 DEF SetRflush, At, vvars, srv
    <3>2. "qrm" \in Labels /\ "qrm" \in Ending /\ pc[p] \in Ending
          /\ "qrm" \notin Quiet /\ pc[p] \notin Quiet
      BY <3>1 DEF Labels, Ending, Quiet
    <3>3. r[p] \in Tags BY <3>2, OwnHeader
    <3>4. Rflush \in Message BY SMT, <3>3 DEF Rflush, Message
    <3>5. rpc[r[p]] \in [done : BOOLEAN, flushed : 0 .. NTags, req : Message \cup {None},
                         reply : Message \cup {None}]
      BY <2>0, <3>3
    <3>6. /\ rpc'[r[p]].reply = Rflush /\ rpc'[r[p]].done = rpc[r[p]].done
          /\ rpc'[r[p]].req = rpc[r[p]].req /\ rpc'[r[p]].flushed = rpc[r[p]].flushed
          /\ \A t \in Tags \ {r[p]} : rpc'[t] = rpc[t]
      BY <2>0, <3>1, <3>3, <3>5
    <3>7. rpc' \in [Tags -> [done : BOOLEAN, flushed : 0 .. NTags,
                             req : Message \cup {None}, reply : Message \cup {None}]]
      BY <2>0, <3>1, <3>3, <3>4, <3>5
    <3>8. Moves(p, "qrm") /\ \A q \in Procs \ {p} : pc'[q] = pc[q] BY <3>1, <3>2, GotoMoves
    <3>9. \A q \in Procs : pc'[q] \in Quiet <=> pc[q] \in Quiet BY <3>2, <3>8 DEF Moves
    <3>10. SameHeaders BY <3>1, <3>6 DEF SameHeaders
    <3>11. HInv' BY <3>9, <3>10, <1>SameHInv
    <3>12. BaseInv' BY <2>0, <2>1, <3>1, <3>2, <3>7, <3>11, <1>EndBase
    <3> QED BY <3>1, <3>6, <3>8, <3>12 DEF MarkStep, EndSame, Moves
  <2>4. CASE Mntqrm(p)
    <3>1. /\ pc[p] = "qrm" /\ queue' \in Unqueued(r[p])
          /\ NextFlushed(p, [rpc EXCEPT ![r[p]].done = TRUE])
          /\ UNCHANGED <<rp, rip, mux, umq, failed, target, swi, nintr, down, pending, wire>>
      BY <2>4 DEF Mntqrm, At, vvars, srv
    <3>2. pc[p] \notin Quiet BY <3>1 DEF Quiet
    <3>3. r[p] \in Tags BY <3>2, OwnHeader
    <3>4. queue' \in Seq(Tags) /\ Leaves(p) BY <3>1, <1>UnqueuedFacts DEF Leaves
    <3>5. PICK f : f = [rpc EXCEPT ![r[p]].done = TRUE] OBVIOUS
    <3>6. rpc[r[p]] \in [done : BOOLEAN, flushed : 0 .. NTags, req : Message \cup {None},
                         reply : Message \cup {None}]
      BY <2>0, <3>3
    <3>7. /\ f \in [Tags -> [done : BOOLEAN, flushed : 0 .. NTags,
                             req : Message \cup {None}, reply : Message \cup {None}]]
          /\ f[r[p]].done = TRUE /\ f[r[p]].req = rpc[r[p]].req
          /\ f[r[p]].flushed = rpc[r[p]].flushed /\ f[r[p]].reply = rpc[r[p]].reply
          /\ \A t \in Tags \ {r[p]} : f[t] = rpc[t]
      BY <2>0, <3>3, <3>5, <3>6
    <3>8. NextFlushed(p, f) BY <3>1, <3>5
    <3> QED BY <3>1, <3>4, <3>7, <3>8, <1>NextFlushedSteps
  <2> QED BY <2>2, <2>3, <2>4

\* The caller frees the header.
<1>FinishSteps.
     ASSUME BaseInv, NEW p \in Procs, Finish(p)
     PROVE  BaseInv' /\ FinishStep(p)
  <2> USE <1>FinishSteps
  <2> TypeOK /\ ReadInv /\ HInv BY DEF BaseInv
  <2>0. /\ r \in [Procs -> 0 .. NTags] /\ queue \in Seq(Tags)
        /\ rpc \in [Tags -> [done : BOOLEAN, flushed : 0 .. NTags,
                             req : Message \cup {None}, reply : Message \cup {None}]]
        /\ failed \in [Procs -> BOOLEAN] /\ nintr \in [Procs -> Nat]
        /\ \A q \in Procs : nintr[q] <= MaxIntr[q]
        /\ pending \in Seq(Message) /\ wire \in Seq(Message)
    BY DEF TypeOK
  <2>1. /\ pc[p] = "return" /\ Goto(p, "idle")
        /\ fate' = [fate EXCEPT ![p] = "idle"]
        /\ failed' = [failed EXCEPT ![p] = FALSE]
        /\ nintr' = [nintr EXCEPT ![p] = IF swi[p] THEN 1 ELSE 0]
        /\ Free(r[p])
        /\ rpc' = [rpc EXCEPT ![r[p]] = NoRpc]
        /\ r' = [r EXCEPT ![p] = NoTag]
        /\ pending' = Disown(pending, p) /\ wire' = Disown(wire, p)
        /\ UNCHANGED <<rp, queue, rip, mux, umq, target, swi, down>>
    BY DEF Finish, At, vvars
  <2>2. "idle" \in Labels /\ "idle" \in Quiet /\ pc[p] \in Ending /\ pc[p] \notin Quiet
    BY <2>1 DEF Labels, Quiet, Ending
  <2>3. r[p] \in Tags /\ InUse(r[p]) BY <2>2, OwnHeader
  <2>4. NoRpc \in [done : BOOLEAN, flushed : 0 .. NTags,
                   req : Message \cup {None}, reply : Message \cup {None}]
    BY SMT DEF NoRpc
  <2>5. /\ rpc' \in [Tags -> [done : BOOLEAN, flushed : 0 .. NTags,
                              req : Message \cup {None}, reply : Message \cup {None}]]
        /\ rpc'[r[p]] = NoRpc /\ \A t \in Tags \ {r[p]} : rpc'[t] = rpc[t]
    BY <2>0, <2>1, <2>3, <2>4
  <2>6. r' \in [Procs -> 0 .. NTags] /\ r'[p] = NoTag /\ \A q \in Procs \ {p} : r'[q] = r[q]
    BY SMT, <2>0, <2>1
  <2>7. Finished(p) BY <2>1, <2>5, <2>6 DEF Finished
  <2>8. Moves(p, "idle") /\ \A q \in Procs \ {p} : pc'[q] = pc[q] BY <2>1, <2>2, GotoMoves
  <2>9. HInv' BY <2>2, <2>7, <2>8, <1>FinishHInv DEF Moves
  <2>10. rpcfree' \in Seq(Tags) /\ Len(rpcfree') <= MaxFree /\ tags' \subseteq Tags
    BY <2>1, <2>3, FreeFree
  <2>11. failed' \in [Procs -> BOOLEAN] BY <2>0, <2>1
  <2>12. \A q \in Procs \ {p} : failed'[q] = failed[q] BY <2>0, <2>1
  <2>13. failed'[p] = FALSE BY <2>0, <2>1
  <2>14. /\ nintr' \in [Procs -> Nat] /\ nintr'[p] = IF swi[p] THEN 1 ELSE 0
         /\ \A q \in Procs \ {p} : nintr'[q] = nintr[q]
    BY <2>0, <2>1
  <2>15. \A q \in Procs : swi[q] => nintr'[q] >= 1 BY SMT, <2>14 DEF ReadInv
  <2>16. \A q \in Procs : nintr'[q] <= MaxIntr[q]
    <3>1. nintr[p] \in Nat /\ MaxIntr[p] \in Nat /\ nintr[p] <= MaxIntr[p] BY <2>0
    <3>2. swi[p] => nintr[p] >= 1 BY DEF ReadInv
    <3>3. nintr'[p] <= MaxIntr[p] BY SMT, <2>14, <3>1, <3>2
    <3> QED BY <2>0, <2>14, <3>3
  <2>17. pending' \in Seq(Message) /\ wire' \in Seq(Message) BY <2>0, <2>1, DisownType
  <2>18. BaseInv' /\ pc'[p] = "idle"
    BY <2>0, <2>1, <2>2, <2>5, <2>6, <2>9, <2>10, <2>11, <2>12, <2>13, <2>14, <2>15, <2>16, <2>17, <1>EndBase
  <2> QED BY <2>1, <2>7, <2>8, <2>12, <2>13, <2>18 DEF FinishStep

\* The lists of the server are those of the driver.
<1>SameLists.
     /\ \A s, i : Server!Without(s, i) = Without(s, i)
     /\ \A s, K : Server!Kept(s, K) = Kept(s, K)
  BY DEF Server!Kept, Kept, Server!Orders, Orders, Server!Cardinality, Cardinality,
               Server!Without, Without

\* The server answers.
<1>ServeSteps.
     ASSUME BaseInv, NEW i \in DOMAIN pending, Serve(i)
     PROVE  BaseInv' /\ ServeStep(i)
  <2> USE <1>ServeSteps
  <2> TypeOK /\ ReadInv /\ HInv BY DEF BaseInv
  <2>1. /\ Decide(pending[i]) /\ (Server!Reply(i) \/ Server!Rflush(i))
        /\ UNCHANGED <<pc, r, rpc, rp, queue, rip, rpcfree, tags, mux, umq, failed, target,
                       swi, nintr, down>>
    BY DEF Serve, mvars, vvars
  <2>2. pending \in Seq(Message) /\ wire \in Seq(Message) /\ pending[i] \in Message BY SMT DEF TypeOK
  <2>3. wire' = Append(wire, pending[i]) BY <2>1 DEF Server!Reply, Server!Rflush
  <2>4. /\ pending' \in Seq(Message)
        /\ \E K \in SUBSET (DOMAIN pending \ {i}) :
             /\ Selected(pending', pending, K)
             /\ pending[i].old # NoTag => \A j \in K : j < i => /\ pending[j].old # pending[i].old
                                                                /\ pending[j].tag # pending[i].old
    <3>1. CASE Server!Reply(i)
      <4>1. pending' = Without(pending, i) /\ pending[i].old = NoTag
        BY <3>1, <1>SameLists DEF Server!Reply, Server!IsFlush, Server!NoTag
      <4>2. Without(pending, i) \in Seq(Message) /\ Selected(Without(pending, i), pending, DOMAIN pending \ {i})
        BY <2>2, <1>WithoutFacts
      <4> QED BY <4>1, <4>2
    <3>2. CASE Server!Rflush(i)
      <4>1. PICK K : K = {j \in DOMAIN pending : j > i \/ ~Server!Settled(pending[i], pending[j])} OBVIOUS
      <4>2. pending' \in Kept(pending, K)
        BY <3>2, <4>1, <1>SameLists DEF Server!Rflush, Server!Settle
      <4>3. i \in 1 .. Len(pending) /\ ~(i > i) BY SMT, <2>2
      <4>4. K \in SUBSET (DOMAIN pending \ {i}) BY <4>1, <4>3 DEF Server!Settled
      <4>5. \A j \in K : j \in 1 .. Len(pending) BY SMT, <2>2, <4>4
      <4>6. ASSUME NEW j \in K, j < i
            PROVE  pending[j].old # pending[i].old /\ pending[j].tag # pending[i].old
        <5>1. ~(j > i) BY SMT, <4>3, <4>5, <4>6
        <5> QED BY <4>1, <5>1 DEF Server!Settled
      <4>7. K \in SUBSET DOMAIN pending BY <4>4
      <4>8. pending' \in Seq(Message) /\ Selected(pending', pending, K)
        BY <2>2, <4>2, <4>7, <1>KeptFacts
      <4> QED BY <4>4, <4>6, <4>8
    <3> QED BY <2>1, <3>1, <3>2
  <2>7. wire' \in Seq(Message) BY SMT, <2>2, <2>3
  <2>8. TypeOK' BY <2>1, <2>4, <2>7 DEF TypeOK
  <2>9. HInv' BY <2>1, <1>SameHInv DEF SameHeaders
  <2>10. ReadInv' BY <2>1 DEF ReadInv
  <2>11. ServeStep(i) BY <2>1, <2>3, <2>4 DEF ServeStep
  <2> QED BY <2>8, <2>9, <2>10, <2>11 DEF BaseInv

\* The connection breaks.
<1>HangupSteps.
     ASSUME BaseInv, Hangup
     PROVE  BaseInv' /\ HangupStep
  <2> USE <1>HangupSteps
  <2> TypeOK /\ ReadInv /\ HInv BY DEF BaseInv
  <2>1. /\ HangupStep
        /\ UNCHANGED <<rp, rip, rpcfree, tags, mux, umq, target, swi, nintr>>
    BY DEF Hangup, HangupStep, Server!Hangup, mvars, vvars
  <2>2. TypeOK'
    <3>1. down' \in BOOLEAN /\ pending' \in Seq(Message) BY SMT, <2>1 DEF HangupStep
    <3> QED BY <2>1, <3>1 DEF HangupStep, TypeOK
  <2>3. HInv' BY <2>1, <1>SameHInv DEF HangupStep, SameHeaders
  <2>4. ReadInv' BY <2>1 DEF HangupStep, ReadInv
  <2> QED BY <2>1, <2>2, <2>3, <2>4 DEF BaseInv

<1> BaseInv /\ fate \in [Procs -> Fates] BY DEF Inv
<1>1. ASSUME NEW p \in Procs,
             \/ VersionStart(p) \/ VersionLock(p) \/ VersionWrite(p) \/ VersionRead(p)
             \/ VersionFail(p)
      PROVE  Inv' /\ ProcStep(p)
  <2>1. BaseInv' /\ QuietStep(p) BY <1>1, <1>QuietSteps
  <2> QED BY <2>1 DEF Inv, ProcStep, QuietStep
<1>2. ASSUME NEW p \in Procs, Call(p) PROVE Inv' /\ ProcStep(p)
  <2>1. BaseInv' /\ CallStep(p) BY <1>2, <1>CallSteps
  <2>2. fate' \in [Procs -> Fates] BY <1>2 DEF Call, Fates
  <2> QED BY <2>1, <2>2 DEF Inv, ProcStep
<1>3. ASSUME NEW p \in Procs,
             \/ Write(p) \/ Gate(p) \/ Sleep(p) \/ SleepReturn(p) \/ Wake(p) \/ ReadError(p)
             \/ Leave(p) \/ Swiproc(p)
      PROVE  Inv' /\ ProcStep(p)
  <2>1. BaseInv' /\ WaitStep(p) BY <1>3, <1>WaitSteps
  <2> QED BY <2>1 DEF Inv, ProcStep, WaitStep
<1>4. ASSUME NEW p \in Procs, Read(p) PROVE Inv' /\ ProcStep(p)
  <2>1. BaseInv' /\ ReadStep(p) BY <1>4, <1>ReadSteps
  <2> QED BY <2>1 DEF Inv, ProcStep, ReadStep
<1>5. ASSUME NEW p \in Procs, Flushalloc(p) PROVE Inv' /\ ProcStep(p)
  <2>1. BaseInv' /\ FlushStep(p) BY <1>5, <1>FlushSteps
  <2> QED BY <2>1 DEF Inv, ProcStep, FlushStep
<1>6. ASSUME NEW p \in Procs, Flushfree(p) \/ SetRflush(p) \/ Mntqrm(p) PROVE Inv' /\ ProcStep(p)
  <2>1. BaseInv' /\ (MarkStep(p) \/ UnchainStep(p) \/ LastStep(p)) BY <1>6, <1>EndSteps
  <2>2. MarkStep(p) \/ UnchainStep(p) => fate' = fate BY DEF MarkStep, UnchainStep
  <2>3. Outcome(p, rpc'[r[p]]) \in Fates BY DEF Outcome, Fates
  <2>4. LastStep(p) => fate' \in [Procs -> Fates] BY <2>3 DEF LastStep
  <2> QED BY <2>1, <2>2, <2>4 DEF Inv, ProcStep
<1>7. ASSUME NEW p \in Procs, Finish(p) PROVE Inv' /\ ProcStep(p)
  <2>1. BaseInv' /\ FinishStep(p) BY <1>7, <1>FinishSteps
  <2>2. fate' \in [Procs -> Fates] BY <2>1 DEF FinishStep, Fates
  <2> QED BY <2>1, <2>2 DEF Inv, ProcStep
<1>8. ASSUME NEW i \in DOMAIN pending, Serve(i) PROVE Inv' /\ ServeStep(i)
  <2>1. BaseInv' /\ ServeStep(i) BY <1>8, <1>ServeSteps
  <2>2. fate' \in [Procs -> Fates] BY <2>1 DEF ServeStep, Decide, Fates
  <2> QED BY <2>1, <2>2 DEF Inv
<1>9. ASSUME Hangup PROVE Inv' /\ HangupStep
  <2>1. BaseInv' /\ HangupStep BY <1>9, <1>HangupSteps
  <2> QED BY <2>1 DEF Inv, HangupStep
<1>10. ASSUME UNCHANGED vars PROVE Inv'
  <2> TypeOK /\ ReadInv /\ HInv BY DEF BaseInv
  <2> UNCHANGED <<pc, r, rpc, rp, queue, rip, rpcfree, tags, mux, umq, failed, target, swi, nintr,
                  fate, down, pending, wire>>
    BY <1>10 DEF vars, mvars, vvars, srv
  <2>1. TypeOK' BY DEF TypeOK
  <2>2. ReadInv' BY DEF ReadInv
  <2>3. HInv' BY <1>SameHInv DEF SameHeaders
  <2> QED BY <2>1, <2>2, <2>3 DEF Inv, BaseInv
<1> QED BY <1>1, <1>2, <1>3, <1>4, <1>5, <1>6, <1>7, <1>8, <1>9, <1>10 DEF Next, Step

\* The invariant: types, one reader, and the chains of headers.
THEOREM Invariance == Spec => []Inv
<1>1. Init => Inv BY InitBase
<1>2. Inv /\ [Next]_vars => Inv' BY NextSteps
<1> QED BY <1>1, <1>2, PTL DEF Spec

\* Type correctness of the mount driver.
THEOREM TypeCorrect == Spec => []TypeOK
<1>1. Inv => TypeOK BY DEF Inv, BaseInv
<1> QED BY <1>1, Invariance, PTL

\* One reader: m->rip and c->umqlock keep every other process from the
\* connection, through errors, interruptions and the handover of mntgate.
THEOREM ReadersAreOne == Spec => []OneReader
<1>1. Inv => OneReader
  <2> SUFFICES ASSUME Inv, NEW p \in Procs, NEW q \in Procs,
                      pc[p] \in {"vread", "read"}, pc[q] \in {"vread", "read"}
               PROVE  p = q
    BY DEF OneReader
  <2> ReadInv BY DEF Inv, BaseInv
  <2>1. pc[p] = "read" => rip = p /\ mux BY DEF ReadInv, Quiet
  <2>2. pc[q] = "read" => rip = q /\ mux BY DEF ReadInv, Quiet
  <2>3. pc[p] = "vread" => umq = p /\ ~mux BY SMT DEF ReadInv
  <2>4. pc[q] = "vread" => umq = q /\ ~mux BY SMT DEF ReadInv
  <2> QED BY <2>1, <2>2, <2>3, <2>4
<1> QED BY <1>1, Invariance, PTL

=============================================================================
