--------------------------- MODULE MCSchedulerNaps ---------------------------
(* SchedulerNaps with the constants of Scheduler_naps.cfg: the counter     *)
(* takes six values, so that naps of up to three ticks finish both before  *)
(* and behind its wrap.                                                    *)
EXTENDS SchedulerNaps
=============================================================================
