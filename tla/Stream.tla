------------------------------- MODULE Stream -------------------------------
(***************************************************************************)
(* What a queue of the kernel promises its users (man/10/qio): the bytes   *)
(* written come out in the order written, none twice, none lost in the     *)
(* middle, and a reader sees the end of the stream only when the queue has *)
(* been hung up and everything written before has been read.  Bytes are    *)
(* discarded only where the queue is closed, flushed by its device, or, in *)
(* message mode, by a read shorter than the message.                       *)
(***************************************************************************)
EXTENDS Naturals, Sequences, SequencesExt

CONSTANTS Readers

VARIABLES
  bytes,     \* what has been written and not yet read
  closed,    \* the stream is hung up or closed
  got,       \* per reader, what its latest read has returned
  mode       \* the device whose queue it is

stvars == <<bytes, closed, got, mode>>

Nothing == [eof |-> FALSE, data |-> <<>>]

StreamInit ==
  /\ bytes = <<>> /\ closed = FALSE
  /\ got = [r \in Readers |-> Nothing]

Begin(r) ==
  /\ got' = [got EXCEPT ![r] = Nothing]
  /\ UNCHANGED <<bytes, closed, mode>>

Put ==
  /\ ~closed
  /\ IsStrictPrefix(bytes, bytes')
  /\ UNCHANGED <<closed, got, mode>>

Get(r) == \E n \in 1 .. Len(bytes) :
  /\ got' = [got EXCEPT ![r] = [eof |-> FALSE, data |-> SubSeq(bytes, 1, n)]]
  /\ LET rest == SubSeq(bytes, n + 1, Len(bytes)) IN
       IF mode = "msg" THEN IsSuffix(bytes', rest) ELSE bytes' = rest
  /\ UNCHANGED <<closed, mode>>

End(r) ==
  /\ closed /\ bytes = <<>>
  /\ got' = [got EXCEPT ![r] = [eof |-> TRUE, data |-> <<>>]]
  /\ UNCHANGED <<bytes, closed, mode>>

Close ==
  /\ mode = "pipe"
  /\ closed' = TRUE
  /\ IsPrefix(bytes', bytes)
  /\ UNCHANGED <<got, mode>>

Flush ==
  /\ mode = "ekbd"
  /\ IsPrefix(bytes', bytes)
  /\ UNCHANGED <<closed, got, mode>>

Reopen == closed' = FALSE /\ UNCHANGED <<bytes, got, mode>>

StreamNext ==
  \/ Put \/ Close \/ Flush \/ Reopen
  \/ \E r \in Readers : Begin(r) \/ Get(r) \/ End(r)

StreamSpec == StreamInit /\ [][StreamNext]_stvars
=============================================================================
