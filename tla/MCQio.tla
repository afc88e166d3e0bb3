------------------------------- MODULE MCQio --------------------------------
(* One queue, with a few readers and writers, under each kind of device.   *)
EXTENDS Qio

CONSTANTS r1, r2, w1, w2
=============================================================================
