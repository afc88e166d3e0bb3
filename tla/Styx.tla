-------------------------------- MODULE Styx --------------------------------
(***************************************************************************)
(* What a 9P (Styx) server promises its client on one connection, as the   *)
(* mount driver needs it (emu/port/devmnt.c) and as exportfs keeps it      *)
(* (emu/port/exportfs.c).  Messages arrive in order.  Each request is      *)
(* answered at most once, at any time; a Tflush is answered after every    *)
(* earlier Tflush of the same request, and once it is answered the request *)
(* never will be.  The answer to a Tflush answers the earlier ones too.    *)
(*                                                                         *)
(* A message is a record: its tag, old (the tag a Tflush refers to, NoTag  *)
(* for any other request), and call, which tells messages apart that use   *)
(* the same tag at different times.                                        *)
(***************************************************************************)
EXTENDS Naturals, Sequences, Lists

VARIABLES
  pending,   \* T-messages received and not answered, in order of arrival
  wire,      \* R-messages sent, in order, as the messages they answer
  down       \* the connection is broken

NoTag == 0

svars == <<pending, wire, down>>

StyxInit == pending = <<>> /\ wire = <<>> /\ down = FALSE

IsFlush(m) == m.old # NoTag

Receive(m) ==
  /\ ~down
  /\ pending' = Append(pending, m)
  /\ UNCHANGED <<wire, down>>

\* The answer to a request, Rerror included.
Reply(i) ==
  /\ ~IsFlush(pending[i])
  /\ wire' = Append(wire, pending[i])
  /\ pending' = Without(pending, i)
  /\ UNCHANGED down

\* What the answer to the Tflush f settles among the messages before it.
Settled(f, m) == m.old = f.old \/ m.tag = f.old

Settle(i) ==
  Kept(pending, {j \in DOMAIN pending : j > i \/ ~Settled(pending[i], pending[j])})

Rflush(i) ==
  /\ IsFlush(pending[i])
  /\ wire' = Append(wire, pending[i])
  /\ pending' \in Settle(i)
  /\ UNCHANGED down

\* The client takes what has been sent.
Take == wire # <<>> /\ wire' = Tail(wire) /\ UNCHANGED <<pending, down>>

\* Nothing more is answered; what has been sent may still be taken.
Hangup ==
  /\ ~down /\ down' = TRUE
  /\ pending' = <<>>
  /\ UNCHANGED wire

Answer == \E i \in DOMAIN pending : Reply(i) \/ Rflush(i)

\* Some message arrives.
Arrival == Len(pending') = Len(pending) + 1 /\ Receive(pending'[Len(pending')])

StyxSpec == StyxInit /\ [][Arrival \/ Answer \/ Take \/ Hangup]_svars

=============================================================================
