---------------------------- MODULE SchedulerNaps ----------------------------
(***************************************************************************)
(* Scheduler with two history variables for every process inside           *)
(* process_sleep: when it was called and with what argument, of which the  *)
(* kernel keeps only the sum in wakeup_tick; and, once the process has     *)
(* been woken, how often the idle task has halted since.                   *)
(***************************************************************************)
EXTENDS Scheduler

VARIABLES nap, halts

naps == <<nap, halts>>

NoNap == [start |-> 0, want |-> 0, wrapped |-> FALSE]

NapInit == /\ Init
           /\ nap = [p \in Slot |-> NoNap]
           /\ halts = [p \in Slot |-> 0]

(* A nap has wrapped when its deadline, or the tick counter since its      *)
(* start, went past 2^32.                                                  *)
NapNext ==
  \/ \E n \in 0 .. MaxSleep :
       /\ SleepDeadline(n)
       /\ nap' = [nap EXCEPT ![cpu] = [start   |-> timer_ticks,
                                       want    |-> n,
                                       wrapped |-> timer_ticks + n >= TickMod]]
  \/ /\ Boot \/ YieldClear \/ Exit \/ Kernel \/ OtherIrq
     /\ nap' = [p \in Slot |-> IF call'[p] = "sleep" THEN nap[p] ELSE NoNap]
  \/ /\ Tick
     /\ nap' = [p \in Slot |-> IF call[p] = "sleep" /\ NextTick = 0
                               THEN [nap[p] EXCEPT !.wrapped = TRUE]
                               ELSE nap[p]]

(* woken, and not yet back on the processor                                *)
Woken(p) == call[p] = "sleep" /\ state[p] = "READY"

CountHalts ==
  halts' = [p \in Slot |-> IF ~ Woken(p)' THEN 0
                           ELSE IF At("idle") /\ pc'[cpu] = "hlt"
                           THEN halts[p] + 1 ELSE halts[p]]

NapSpec == NapInit /\ [][NapNext /\ CountHalts]_<<vars, naps>>

(* Nobody is woken before the time asked for in process_sleep, as long as  *)
(* neither the deadline nor the tick counter wrapped around 2^32.          *)
NoEarlyWakeup ==
  [][\A p \in Slot :
       (state[p] = "BLOCKED" /\ state'[p] # "BLOCKED" /\ ~ nap'[p].wrapped)
         => timer_ticks' - nap[p].start >= nap[p].want]_<<vars, naps>>

(* Every timer interrupt wakes everybody who is due, wherever it strikes   *)
(* (again up to the wrap of the counter).                                  *)
TickWakesAllDue ==
  [][timer_ticks' # timer_ticks =>
       \A p \in Slot : (state'[p] = "BLOCKED" /\ ~ nap'[p].wrapped)
         => timer_ticks' - nap[p].start < nap[p].want]_<<vars, naps>>

(* The tick that wakes a sleeper may fall between idle_task's test of      *)
(* need_resched and its hlt, or into the scan that has just passed the     *)
(* sleeper by; then the idle task halts although somebody is ready         *)
(* (idle.c:9-13).  It does so once: the next interrupt finds need_resched  *)
(* set, and no later scan misses the sleeper.                              *)
HaltsOverOnce == \A p \in Slot : halts[p] <= 1

=============================================================================
