-------------------------------- MODULE Rpc ---------------------------------
(***************************************************************************)
(* What the mount driver promises its callers, over a connection that may  *)
(* break: a call returns the server's answer to this very call, or it is   *)
(* interrupted, and then the server has not answered and never will (see   *)
(* flush(5): a response received before the Rflush is honoured, a flushed  *)
(* request is as though it had never been sent); only a broken connection  *)
(* makes it fail.                                                          *)
(***************************************************************************)
CONSTANTS Procs

VARIABLES
  fate,      \* per process, what became of its call
  down       \* the connection is broken

rvars == <<fate, down>>

RpcInit == fate = [p \in Procs |-> "idle"] /\ down = FALSE

Move(p, from, to) ==
  /\ fate[p] = from
  /\ fate' = [fate EXCEPT ![p] = to]
  /\ UNCHANGED down

Call(p) == Move(p, "idle", "open")

\* The server answers the call, or has settled that it never will.
Decide(p) == Move(p, "open", "answered") \/ Move(p, "open", "cancelled")

Return(p) ==
  \/ Move(p, "answered", "ok")
  \/ Move(p, "cancelled", "interrupted")
  \/ down /\ \E f \in {"open", "answered", "cancelled"} : Move(p, f, "failed")

\* The caller is done with the result.
Finish(p) == \E f \in {"ok", "interrupted", "failed"} : Move(p, f, "idle")

Break == ~down /\ down' = TRUE /\ UNCHANGED fate

RpcNext == Break \/ \E p \in Procs : Call(p) \/ Decide(p) \/ Return(p) \/ Finish(p)

RpcSpec == RpcInit /\ [][RpcNext]_rvars
=============================================================================
