------------------------------ MODULE Scheduler ------------------------------
(***************************************************************************)
(* The cooperative scheduler of the kernel: process.c, scheduler.c, idle.c *)
(* and the timer interrupt of irq.c, wired together the way kernel_main()  *)
(* shows it (one idle task, one or more kernel tasks, then sti and a       *)
(* switch to the first task).                                              *)
(*                                                                         *)
(* There is one processor.  Kernel code never preempts other kernel code:  *)
(* a task keeps the processor until it calls process_yield,                *)
(* process_sleep or process_exit.  The only concurrency is the timer       *)
(* interrupt, which may strike between any two statements of the running   *)
(* task and which writes the fields the scheduler is about to read.  Every *)
(* statement that touches a field the interrupt also touches is therefore  *)
(* a step of its own; the handler runs with interrupts off (irq.asm) and   *)
(* is one step.                                                            *)
(***************************************************************************)
EXTENDS Integers

CONSTANTS
  MaxProcess,   (* MAX_PROCESS: slots of process_table and of processes[]  *)
  TimeSlice,    (* TIME_SLICE: timer ticks between two need_resched        *)
  TickMod,      (* timer_ticks is a uint32_t: 2^32 in the kernel           *)
  MaxSleep,     (* bound on the argument of process_sleep                  *)
  NULL          (* the null process pointer, and the boot context          *)

Slot == 0 .. MaxProcess - 1

ASSUME SchedulerAssumption ==
  /\ MaxProcess \in Nat \ {0}
  /\ TimeSlice \in Nat \ {0}
  /\ TickMod \in Nat \ {0}
  /\ MaxSleep \in 0 .. TickMod - 1
  /\ NULL \notin Slot

VARIABLES
  state,            (* process_t.state of every process_table slot         *)
  wakeup_tick,      (* process_t.wakeup_tick                               *)
  current_process,  (* process.c: the process the kernel calls current     *)
  processes,        (* scheduler.c: the run queue, an array                *)
  process_count,    (* its length                                          *)
  current,          (* index of the last process picked from it            *)
  idle_process,
  need_resched,
  scheduler_ticks,
  timer_ticks,      (* pit.c                                               *)
  cpu,              (* whose stack the processor is on: a slot, or NULL    *)
                    (* for the boot stack                                  *)
  pc,               (* where each context is in the code                   *)
  call,             (* which process.c function each process is inside     *)
  i, next, target   (* locals of the function the processor is executing   *)

sched_vars == <<processes, process_count, current, idle_process>>
tick_vars  == <<need_resched, scheduler_ticks, timer_ticks>>
local_vars == <<i, next, target>>
vars == <<state, wakeup_tick, current_process, sched_vars, tick_vars,
          cpu, pc, call, local_vars>>

State == {"UNUSED", "READY", "RUNNING", "BLOCKED", "EXITED"}

(***************************************************************************)
(* Control points.  "boot_*" belong to kernel_main, "run" is the body of a *)
(* task outside process.c.  idle_task is at "idle" before the hlt, at      *)
(* "hlt" while the processor is halted and at "check" behind it.  "halt"   *)
(* is the endless loop at the end of process_exit.                         *)
(***************************************************************************)
BootPoint  == {"boot_idle", "boot_tasks", "boot_add"}
EntryPoint == {"run", "idle"}
PC == BootPoint \cup EntryPoint \cup
      {"hlt", "check", "yield", "sleep", "remove", "scan", "mark", "enter",
       "return", "halt"}

Call == {"none", "yield", "sleep", "exit"}

Init ==
  /\ state = [p \in Slot |-> "UNUSED"]
  /\ wakeup_tick = [p \in Slot |-> 0]
  /\ current_process = NULL
  /\ processes = [k \in Slot |-> NULL]
  /\ process_count = 0
  /\ current = 0
  /\ idle_process = NULL
  /\ need_resched = FALSE
  /\ scheduler_ticks = 0
  /\ timer_ticks = 0
  /\ cpu = NULL
  /\ pc = [c \in Slot \cup {NULL} |-> IF c = NULL THEN "boot_idle" ELSE "run"]
  /\ call = [p \in Slot |-> "none"]
  /\ i = 0
  /\ next = 0
  /\ target = NULL

At(point) == pc[cpu] = point
Goto(point) == pc' = [pc EXCEPT ![cpu] = point]

-----------------------------------------------------------------------------
(***************************************************************************)
(* Boot: kernel_main creates the idle process and the tasks, registers     *)
(* them, enables interrupts and switches to the first task.                *)
(***************************************************************************)

(* process_create_kernel: takes the first UNUSED slot, clears it, and lays *)
(* out a context that will start at entry.                                 *)
process_create_kernel(p, entry, after) ==
  /\ state[p] = "UNUSED"
  /\ \A q \in 0 .. p - 1 : state[q] # "UNUSED"
  /\ state' = [state EXCEPT ![p] = "READY"]
  /\ wakeup_tick' = [wakeup_tick EXCEPT ![p] = 0]
  /\ pc' = [pc EXCEPT ![p] = entry, ![cpu] = after]
  /\ UNCHANGED <<current_process, processes, process_count, current,
                 tick_vars, cpu, call, local_vars>>

CreateIdle(p) ==
  /\ At("boot_idle")
  /\ process_create_kernel(p, "idle", "boot_tasks")
  /\ idle_process' = p                          \* scheduler_set_idle(idle)

CreateTask(p) ==
  /\ At("boot_tasks")
  /\ process_create_kernel(p, "run", "boot_tasks")
  /\ UNCHANGED idle_process

Tasks == {p \in Slot \ {idle_process} : state[p] # "UNUSED"}

Queued == {processes[k] : k \in 0 .. process_count - 1}

(* kernel_main creates at least one task                                   *)
TasksCreated ==
  /\ At("boot_tasks")
  /\ Tasks # {}
  /\ Goto("boot_add")
  /\ UNCHANGED <<state, wakeup_tick, current_process, sched_vars, tick_vars,
                 cpu, call, local_vars>>

(* scheduler_add, called once for every task, in the order of creation     *)
scheduler_add(p) ==
  /\ At("boot_add")
  /\ p \in Tasks \ Queued
  /\ \A q \in Tasks \ Queued : p <= q
  /\ process_count < MaxProcess
  /\ processes' = [processes EXCEPT ![process_count] = p]
  /\ process_count' = process_count + 1
  /\ UNCHANGED <<state, wakeup_tick, current_process, current, idle_process,
                 tick_vars, cpu, pc, call, local_vars>>

(* sti; process_switch(p1), p1 being the first task that was added         *)
StartFirst ==
  /\ At("boot_add")
  /\ process_count > 0
  /\ Tasks \subseteq Queued
  /\ target' = processes[0]
  /\ Goto("mark")
  /\ UNCHANGED <<state, wakeup_tick, current_process, sched_vars, tick_vars,
                 cpu, call, i, next>>

-----------------------------------------------------------------------------
(***************************************************************************)
(* The calls a running task makes.                                         *)
(***************************************************************************)

(* Mutant: every scan starts at the head of the queue.                     *)
StartScanAtHead ==
  /\ Goto("scan")
  /\ i' = 0
  /\ next' = 0

(* entry of scheduler_schedule: next = current, i = 0                      *)
StartScan ==
  /\ Goto("scan")
  /\ i' = 0
  /\ next' = current'

(* process_yield: scheduler_clear_resched() ...                            *)
YieldClear ==
  /\ \/ At("run")
     \/ At("check") /\ need_resched             \* idle_task
  /\ current_process # NULL
  /\ need_resched' = FALSE
  /\ call' = [call EXCEPT ![cpu] = "yield"]
  /\ Goto("yield")
  /\ UNCHANGED <<state, wakeup_tick, current_process, sched_vars,
                 scheduler_ticks, timer_ticks, cpu, local_vars>>

(* ... then proc->state = PROCESS_READY; scheduler_schedule()              *)
YieldReady ==
  /\ At("yield")
  /\ state' = [state EXCEPT ![current_process] = "READY"]
  /\ UNCHANGED current
  /\ StartScan
  /\ UNCHANGED <<wakeup_tick, current_process, processes, process_count,
                 idle_process, tick_vars, cpu, call, target>>

(* process_sleep: proc->wakeup_tick = pit_get_ticks() + ticks, in uint32_t *)
SleepDeadline(n) ==
  /\ At("run")
  /\ wakeup_tick' = [wakeup_tick EXCEPT ![current_process] =
                       (timer_ticks + n) % TickMod]
  /\ call' = [call EXCEPT ![cpu] = "sleep"]
  /\ Goto("sleep")
  /\ UNCHANGED <<state, current_process, sched_vars, tick_vars, cpu,
                 local_vars>>

(* ... then proc->state = PROCESS_BLOCKED; scheduler_schedule()            *)
SleepBlock ==
  /\ At("sleep")
  /\ state' = [state EXCEPT ![current_process] = "BLOCKED"]
  /\ UNCHANGED current
  /\ StartScan
  /\ UNCHANGED <<wakeup_tick, current_process, processes, process_count,
                 idle_process, tick_vars, cpu, call, target>>

(* process_exit: mark the process and find its index for scheduler_remove; *)
(* a process that is not queued would go straight to scheduler_schedule.   *)
Exit ==
  /\ At("run")
  /\ state' = [state EXCEPT ![current_process] = "EXITED"]
  /\ call' = [call EXCEPT ![cpu] = "exit"]
  /\ IF current_process \in Queued
     THEN /\ i' \in {k \in 0 .. process_count - 1 :
                        /\ processes[k] = current_process
                        /\ \A j \in 0 .. k - 1 : processes[j] # current_process}
          /\ Goto("remove")
          /\ UNCHANGED next
     ELSE StartScan
  /\ UNCHANGED <<wakeup_tick, current_process, sched_vars, tick_vars, cpu,
                 target>>

(* Mutant: the loop of scheduler_remove stops one entry early.             *)
ShiftDoneEarly == i >= process_count - 2

ShiftDone == i >= process_count - 1

(* scheduler_remove: one turn of the loop that closes the gap              *)
RemoveShift ==
  /\ At("remove")
  /\ ~ ShiftDone
  /\ processes' = [processes EXCEPT ![i] = processes[i + 1]]
  /\ i' = i + 1
  /\ UNCHANGED <<state, wakeup_tick, current_process, process_count, current,
                 idle_process, tick_vars, cpu, pc, call, next, target>>

(* scheduler_remove after the loop, then scheduler_schedule                *)
RemoveCount ==
  /\ At("remove")
  /\ ShiftDone
  /\ process_count' = process_count - 1
  /\ current' = IF current >= process_count' THEN 0 ELSE current
  /\ StartScan
  /\ UNCHANGED <<state, wakeup_tick, current_process, processes, idle_process,
                 tick_vars, cpu, call, target>>

-----------------------------------------------------------------------------
(***************************************************************************)
(* scheduler_schedule and process_switch.                                  *)
(***************************************************************************)

(* the loop index after next = (next + 1) % process_count                  *)
NextIndex == (next + 1) % process_count

(* Mutant: scheduler_schedule forgets to skip the caller.                  *)
EligibleSelf(p) == state[p] = "READY"

(* the locals of scheduler_schedule go out of scope                        *)
LeaveScan(point) == Goto(point) /\ i' = 0 /\ next' = 0

Eligible(p) == p # current_process /\ state[p] = "READY"

(* one turn of the loop that finds nothing                                 *)
ScanSkip ==
  /\ At("scan")
  /\ i < process_count
  /\ ~ Eligible(processes[NextIndex])
  /\ next' = NextIndex
  /\ i' = i + 1
  /\ UNCHANGED <<state, wakeup_tick, current_process, sched_vars, tick_vars,
                 cpu, pc, call, target>>

(* one turn of the loop that picks a process                               *)
ScanPick ==
  /\ At("scan")
  /\ i < process_count
  /\ Eligible(processes[NextIndex])
  /\ current' = NextIndex
  /\ target' = processes[NextIndex]
  /\ LeaveScan("mark")
  /\ UNCHANGED <<state, wakeup_tick, current_process, processes,
                 process_count, idle_process, tick_vars, cpu, call>>

(* nothing is ready: fall back to the idle process ...                     *)
ScanIdle ==
  /\ At("scan")
  /\ i >= process_count
  /\ idle_process # NULL /\ current_process # idle_process
  /\ target' = idle_process
  /\ LeaveScan("mark")
  /\ UNCHANGED <<state, wakeup_tick, current_process, sched_vars, tick_vars,
                 cpu, call>>

(* ... or return to the caller, when the caller is the idle process        *)
ScanReturn ==
  /\ At("scan")
  /\ i >= process_count
  /\ ~ (idle_process # NULL /\ current_process # idle_process)
  /\ LeaveScan("return")
  /\ UNCHANGED <<state, wakeup_tick, current_process, sched_vars, tick_vars,
                 cpu, call, target>>

(* Mutant: process_switch makes whoever leaves the processor READY.        *)
SwitchMarkAlways ==
  /\ At("mark")
  /\ current_process' = target
  /\ state' = IF current_process # NULL
              THEN [state EXCEPT ![current_process] = "READY"]
              ELSE state
  /\ Goto("enter")
  /\ UNCHANGED <<wakeup_tick, sched_vars, tick_vars, cpu, call, local_vars>>

(* process_switch: current_process = next; a RUNNING prev becomes READY    *)
SwitchMark ==
  /\ At("mark")
  /\ current_process' = target
  /\ state' = IF current_process # NULL /\ state[current_process] = "RUNNING"
              THEN [state EXCEPT ![current_process] = "READY"]
              ELSE state
  /\ Goto("enter")
  /\ UNCHANGED <<wakeup_tick, sched_vars, tick_vars, cpu, call, local_vars>>

(* next->state = PROCESS_RUNNING; process_switch_asm swaps the stacks: the *)
(* old context will come back behind this call, the new one goes on from   *)
(* where it was saved, or from its entry point.                            *)
SwitchEnter ==
  /\ At("enter")
  /\ state' = [state EXCEPT ![target] = "RUNNING"]
  /\ cpu' = target
  /\ target' = NULL
  /\ Goto("return")
  /\ UNCHANGED <<wakeup_tick, current_process, sched_vars, tick_vars, call,
                 i, next>>

(* scheduler_schedule has returned to process_yield, process_sleep or      *)
(* process_exit, and that to its caller                                    *)
Home(p) == IF call[p] = "exit" THEN "halt"
           ELSE IF p = idle_process THEN "idle" ELSE "run"

Return ==
  /\ cpu # NULL
  /\ At("return")
  /\ Goto(Home(cpu))
  /\ call' = [call EXCEPT ![cpu] = "none"]
  /\ UNCHANGED <<state, wakeup_tick, current_process, sched_vars, tick_vars,
                 cpu, local_vars>>

(* idle_task: sti; hlt.  Interrupts are on since kernel_main, so the sti   *)
(* covers nothing: one that comes between the test of need_resched, or the *)
(* return of process_yield, and the hlt is over when the processor halts.  *)
Halt ==
  /\ At("idle")
  /\ Goto("hlt")
  /\ UNCHANGED <<state, wakeup_tick, current_process, sched_vars, tick_vars,
                 cpu, call, local_vars>>

(* ... no reschedule is due                                                *)
IdleAgain ==
  /\ At("check")
  /\ ~ need_resched
  /\ Goto("idle")
  /\ UNCHANGED <<state, wakeup_tick, current_process, sched_vars, tick_vars,
                 cpu, call, local_vars>>

-----------------------------------------------------------------------------
(***************************************************************************)
(* Interrupts.                                                             *)
(***************************************************************************)

InterruptsOn == pc[NULL] \notin BootPoint

(* the first interrupt after the hlt ends it                               *)
LeaveHlt == pc' = IF At("hlt") THEN [pc EXCEPT ![cpu] = "check"] ELSE pc

NextTick == (timer_ticks + 1) % TickMod

(* Mutant: scheduler_wakeup compares with > instead of >=.                 *)
DueLate == {p \in Slot : /\ p \in Queued
                         /\ state[p] = "BLOCKED"
                         /\ NextTick > wakeup_tick[p]}

(* the processes scheduler_wakeup finds due in its walk of processes[]     *)
Due == {p \in Slot : /\ p \in Queued
                     /\ state[p] = "BLOCKED"
                     /\ NextTick >= wakeup_tick[p]}

(* Mutant: scheduler_tick compares with > instead of >=.                   *)
SliceOverLate == scheduler_ticks + 1 > TimeSlice

SliceOver == scheduler_ticks + 1 >= TimeSlice

(* Mutant: scheduler_wakeup does not set need_resched.                     *)
ReschedBySlice == need_resched \/ SliceOver

(* Mutant: scheduler_tick does not set need_resched.                       *)
ReschedByWakeup == need_resched \/ Due # {}

(* need_resched at the end of the handler                                  *)
Resched == need_resched \/ Due # {} \/ SliceOver

(* irq_handler for int_no 32: timer_ticks++, scheduler_wakeup(),           *)
(* scheduler_tick()                                                        *)
Tick ==
  /\ InterruptsOn
  /\ timer_ticks' = NextTick
  /\ state' = [p \in Slot |-> IF p \in Due THEN "READY" ELSE state[p]]
  /\ scheduler_ticks' = IF SliceOver THEN 0 ELSE scheduler_ticks + 1
  /\ need_resched' = Resched
  /\ LeaveHlt
  /\ UNCHANGED <<wakeup_tick, current_process, sched_vars, cpu, call,
                 local_vars>>

(* irq_handler for any other line: nothing of this module changes, but a   *)
(* halted processor goes on                                                *)
OtherIrq ==
  /\ InterruptsOn
  /\ At("hlt")
  /\ LeaveHlt
  /\ UNCHANGED <<state, wakeup_tick, current_process, sched_vars, tick_vars,
                 cpu, call, local_vars>>

-----------------------------------------------------------------------------

Boot == \/ \E p \in Slot : CreateIdle(p) \/ CreateTask(p) \/ scheduler_add(p)
        \/ TasksCreated
        \/ StartFirst

TaskCall == \/ YieldClear
            \/ \E n \in 0 .. MaxSleep : SleepDeadline(n)
            \/ Exit

Kernel == \/ YieldReady \/ SleepBlock \/ RemoveShift \/ RemoveCount
          \/ ScanSkip \/ ScanPick \/ ScanIdle \/ ScanReturn
          \/ SwitchMark \/ SwitchEnter \/ Return \/ Halt \/ IdleAgain

Next == Boot \/ TaskCall \/ Kernel \/ Tick \/ OtherIrq

Spec == Init /\ [][Next]_vars

(***************************************************************************)
(* Fairness: the processor executes what it is given, the PIT is           *)
(* programmed in kernel_main and fires for ever, and a task body always    *)
(* comes back to process.c (task1 and task2 are loops around               *)
(* process_sleep).  Which call it makes, and whether another interrupt     *)
(* line ever fires, is left open.                                          *)
(***************************************************************************)
Fairness == WF_vars(Boot) /\ WF_vars(TaskCall \/ Kernel) /\ WF_vars(Tick)

FairSpec == Spec /\ Fairness

-----------------------------------------------------------------------------
(***************************************************************************)
(* Properties.                                                             *)
(***************************************************************************)

(* The types of all variables: indices and counters stay in their ranges.  *)
TypeOK ==
  /\ state \in [Slot -> State]
  /\ wakeup_tick \in [Slot -> 0 .. TickMod - 1]
  /\ current_process \in Slot \cup {NULL}
  /\ processes \in [Slot -> Slot \cup {NULL}]
  /\ process_count \in 0 .. MaxProcess
  /\ current \in Slot
  /\ idle_process \in Slot \cup {NULL}
  /\ need_resched \in BOOLEAN
  /\ scheduler_ticks \in 0 .. TimeSlice - 1
  /\ timer_ticks \in 0 .. TickMod - 1
  /\ cpu \in Slot \cup {NULL}
  /\ pc \in [Slot \cup {NULL} -> PC]
  /\ call \in [Slot -> Call]
  /\ i \in 0 .. MaxProcess
  /\ next \in Slot
  /\ target \in Slot \cup {NULL}

Booted == pc[NULL] \notin BootPoint

Alive(p) == state[p] \notin {"UNUSED", "EXITED"}

(* The walk of scheduler_wakeup is complete whenever the interrupt may     *)
(* strike, even half way through the loop of scheduler_remove: every entry *)
(* it dereferences is a process, and every task that has not exited is     *)
(* among them, so no sleeper is ever missed.                               *)
WalkComplete ==
  Booted => /\ NULL \notin Queued
            /\ {p \in Slot : Alive(p)} \subseteq Queued \cup {idle_process}

(* A context a switch is about to resume is a saved one: it is READY, it   *)
(* is not the one the processor is on, and it stopped inside               *)
(* process_switch or has not started yet.  An exited process is never      *)
(* resumed.                                                                *)
SwitchTargetSaved ==
  (cpu # NULL /\ pc[cpu] \in {"mark", "enter"}) =>
    /\ target \in Slot \ {cpu}
    /\ state[target] = "READY"
    /\ pc[target] = "return" \/ (call[target] = "none" /\ pc[target] \in EntryPoint)

(* When the idle task is about to halt, or halted, a task that the timer   *)
(* made READY has left need_resched set, so the test behind the hlt will   *)
(* not miss it; the hlt itself does not wait for that, see SchedulerNaps.  *)
(* Only a task that gave up the processor by process_yield may have to     *)
(* wait for the end of the time slice.                                     *)
IdleKnowsReady ==
  (cpu = idle_process /\ cpu # NULL /\ (At("idle") \/ At("hlt")) /\ ~ need_resched) =>
    \A p \in Queued : state[p] = "READY" => call[p] = "yield"

(* An exited process stays exited, and its stack is never used again once  *)
(* the processor has left it.                                              *)
ExitIsFinal ==
  [][\A p \in Slot :
       state[p] = "EXITED" => /\ state'[p] = "EXITED"
                              /\ cpu' = p => cpu = p]_vars

(* A task that is ready gets the processor: the round robin of             *)
(* scheduler_schedule starves nobody, although scheduler_remove shifts the *)
(* queue under the index it starts from.                                   *)
ReadyRuns ==
  \A p \in Slot : (p # idle_process /\ state[p] = "READY") ~> cpu = p

(* A sleeping task returns from process_sleep, even when its deadline      *)
(* wrapped around.                                                         *)
SleepReturns ==
  \A p \in Slot : call[p] = "sleep" ~> (cpu = p /\ call[p] = "none")

-----------------------------------------------------------------------------
(***************************************************************************)
(* Refinement: the processor belongs to the context whose stack it is on;  *)
(* everybody else is what its state field says.                            *)
(***************************************************************************)
ModeOf(s) == CASE s = "UNUSED"  -> "absent"
               [] s = "READY"   -> "ready"
               [] s = "RUNNING" -> "running"
               [] s = "BLOCKED" -> "asleep"
               [] s = "EXITED"  -> "gone"

Mode == [p \in Slot |-> IF p = cpu THEN "running" ELSE ModeOf(state[p])]

Coop == INSTANCE CoopSched
          WITH Proc <- Slot, NoProc <- NULL, holder <- cpu, mode <- Mode,
               asked <- call

(* The scheduler keeps the promise of CoopSched: however the timer         *)
(* interrupt falls into the statements of a switch, the processor goes     *)
(* only from a task that asked to a task that is ready, and what becomes   *)
(* of the one that leaves is what it asked for.                            *)
ImplementsCoop == Coop!Spec

=============================================================================
