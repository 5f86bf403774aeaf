----------------------------- MODULE MCScheduler -----------------------------
(* Scheduler with the constants of the .cfg files.  Four slots are the     *)
(* idle process and three tasks, the fewest for which a round robin can    *)
(* starve somebody.                                                        *)
EXTENDS Scheduler
=============================================================================
