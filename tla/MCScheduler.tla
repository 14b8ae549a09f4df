---------------------------- MODULE MCScheduler ----------------------------
(* Two blocks of timers on a wheel of two slots: times that differ by a    *)
(* turn of the wheel share a slot, and a slow round walks the whole wheel. *)
EXTENDS Scheduler, TLC

CONSTANTS t1, t2, t3

MCChunk == {<<t1, t2>>, <<t3>>}
=============================================================================
