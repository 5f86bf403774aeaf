--------------------------- MODULE SchedulerProofs ---------------------------
(***************************************************************************)
(* Proofs about Scheduler and SchedulerNaps, for every number of slots,    *)
(* every time slice and every width of the tick counter.                   *)
(*                                                                         *)
(* The safety properties are not inductive: that the queue stays complete  *)
(* depends on nobody resurrecting an exited process, which depends on the  *)
(* targets of switches, which depends on what every suspended context was  *)
(* doing.  IInv below carries those facts, one named part per concern.     *)
(***************************************************************************)
EXTENDS SchedulerNaps, TLAPS

Switching == {"mark", "enter"}

(* The boot stack is left for good by the first switch, the idle process   *)
(* exists from the end of the first boot step, and nothing has run before. *)
BootPart ==
  /\ cpu = NULL => pc[NULL] \in BootPoint \cup Switching
  /\ cpu # NULL => pc[NULL] = "return"
  /\ pc[NULL] = "boot_idle" <=> idle_process = NULL
  /\ cpu = NULL => \A p \in Slot : state[p] \in {"UNUSED", "READY"}
  /\ \A p \in Slot : state[p] = "UNUSED" => call[p] = "none"

(* A process that is not on the processor has not started or is parked     *)
(* inside process_switch, and is not marked RUNNING.                       *)
ParkedPart ==
  \A p \in Slot \ {cpu} :
    /\ pc[p] \in {"run", "idle", "return"}
    /\ pc[p] # "return" => call[p] = "none"
    /\ state[p] # "RUNNING"

(* What the process on the processor is doing follows from its pc.         *)
RunnerPart ==
  cpu # NULL =>
    /\ pc[cpu] \notin BootPoint \cup {"halt"}
    /\ state[cpu] # "UNUSED"
    /\ pc[cpu] \in {"run", "idle", "hlt", "check"} => call[cpu] = "none"
    /\ pc[cpu] = "yield"  => call[cpu] = "yield"
    /\ pc[cpu] = "sleep"  => call[cpu] = "sleep"
    /\ pc[cpu] = "remove" => call[cpu] = "exit"
    /\ pc[cpu] = "return" => call[cpu] # "exit"
    /\ pc[cpu] \in {"scan"} \cup Switching =>
         /\ call[cpu] # "none"
         /\ call[cpu] = "yield" => state[cpu] = "READY"
         /\ call[cpu] = "sleep" => state[cpu] \in {"READY", "BLOCKED"}

(* process_current() is the process on the processor, but for the last     *)
(* statements of process_switch.                                           *)
CurrentPart == current_process = IF pc[cpu] = "enter" THEN target ELSE cpu

(* A switch goes to another process, which is READY.                       *)
TargetPart ==
  pc[cpu] \in Switching => target \in Slot \ {cpu} /\ state[target] = "READY"

(* EXITED is the state of those, and only those, that called process_exit. *)
ExitPart == \A p \in Slot : state[p] = "EXITED" <=> call[p] = "exit"

(* The idle process runs idle_task and nothing else, the others never do;  *)
(* off the processor it is READY.                                          *)
IdlePart ==
  /\ \A p \in Slot \ {idle_process} : pc[p] \notin {"idle", "hlt", "check"}
  /\ idle_process # NULL =>
       /\ pc[idle_process] \notin {"run", "sleep", "remove"}
       /\ call[idle_process] \in {"none", "yield"}
       /\ state[idle_process] # "BLOCKED"
       /\ idle_process # cpu => state[idle_process] = "READY"

(* The run queue holds processes, never idle.  After boot it holds every   *)
(* task that has not exited, at an index other than the gap that           *)
(* scheduler_remove is moving to the end.                                  *)
Removing == cpu # NULL /\ pc[cpu] = "remove"

QueuePart ==
  /\ \A k \in 0 .. process_count - 1 :
       /\ processes[k] \in Slot \ {idle_process}
       /\ state[processes[k]] # "UNUSED"
  /\ pc[NULL] = "boot_idle" => process_count = 0
  /\ Removing => i < process_count
  /\ Booted => \A p \in Slot \ {idle_process} :
       Alive(p) => \E k \in 0 .. process_count - 1 :
                     processes[k] = p /\ ~ (Removing /\ k = i)

IInv == /\ TypeOK
        /\ BootPart
        /\ ParkedPart
        /\ RunnerPart
        /\ CurrentPart
        /\ TargetPart
        /\ ExitPart
        /\ IdlePart
        /\ QueuePart

-----------------------------------------------------------------------------
(* What the three kinds of assignment do, pointwise.                       *)

Moves(point) == /\ pc' \in [Slot \cup {NULL} -> PC]
                /\ pc'[cpu] = point
                /\ \A c \in Slot \cup {NULL} : c # cpu => pc'[c] = pc[c]

Sets(x, s) == /\ state' \in [Slot -> State]
              /\ state'[x] = s
              /\ \A p \in Slot : p # x => state'[p] = state[p]

Calls(c) == /\ call' \in [Slot -> Call]
            /\ call'[cpu] = c
            /\ \A p \in Slot : p # cpu => call'[p] = call[p]

LEMMA MovesTo == ASSUME TypeOK, NEW point \in PC, Goto(point)
                 PROVE  Moves(point)
  BY DEF TypeOK, Goto, Moves

LEMMA SetsTo == ASSUME TypeOK, NEW x \in Slot, NEW s \in State,
                       state' = [state EXCEPT ![x] = s]
                PROVE  Sets(x, s)
  BY DEF TypeOK, Sets

LEMMA CallsTo == ASSUME TypeOK, cpu \in Slot, NEW c \in Call,
                        call' = [call EXCEPT ![cpu] = c]
                 PROVE  Calls(c)
  BY DEF TypeOK, Calls

LEMMA ModRange == \A a \in Nat, b \in Nat \ {0} : a % b \in 0 .. b - 1
  OBVIOUS

LEMMA ModWraps ==
  ASSUME NEW n \in Nat \ {0}, NEW x \in 0 .. n
  PROVE  x % n = IF x < n THEN x ELSE 0
  OBVIOUS

-----------------------------------------------------------------------------
(* One lemma per action: it preserves every part of IInv.                  *)

LEMMA CreateIdleStep ==
  ASSUME IInv, NEW p \in Slot, CreateIdle(p)
  PROVE  IInv'
<1>1. /\ pc[NULL] = "boot_idle"
      /\ cpu = NULL
      /\ current_process = NULL
      /\ idle_process = NULL
      /\ state[p] = "UNUSED"
  BY SchedulerAssumption DEF CreateIdle, process_create_kernel, At, IInv,
     RunnerPart, CurrentPart, BootPart, BootPoint, Switching, TypeOK
<1>2. pc' = [pc EXCEPT ![p] = "idle", ![cpu] = "boot_tasks"]
  BY DEF CreateIdle, process_create_kernel
<1>3. /\ pc' \in [Slot \cup {NULL} -> PC]
      /\ pc'[p] = "idle" /\ pc'[NULL] = "boot_tasks"
      /\ \A c \in Slot : c # p => pc'[c] = pc[c]
  BY <1>1, <1>2, SchedulerAssumption DEF IInv, TypeOK, PC, BootPoint,
     EntryPoint
<1>4. Sets(p, "READY")
  BY <1>1, <1>2, <1>3, SetsTo DEF State, CreateIdle, process_create_kernel,
     IInv
<1>5. /\ idle_process' = p
      /\ wakeup_tick' \in [Slot -> 0 .. TickMod - 1]
      /\ UNCHANGED call
      /\ UNCHANGED <<current_process, processes, process_count, current,
                     need_resched, scheduler_ticks, timer_ticks,
                     cpu, i, next, target>>
  BY <1>1, <1>2, <1>3, <1>4, SchedulerAssumption DEF CreateIdle,
     process_create_kernel, sched_vars, tick_vars, local_vars, IInv, TypeOK
<1>6. TypeOK'
  BY <1>1, <1>2, <1>3, <1>4, <1>5, SchedulerAssumption DEF IInv, TypeOK,
     Slot, State, Call, Sets
<1>7. BootPart'
  BY <1>1, <1>2, <1>3, <1>4, <1>5, SchedulerAssumption DEF IInv, BootPart,
     BootPoint, Switching, TypeOK, Sets
<1>8. ParkedPart'
  BY <1>1, <1>2, <1>3, <1>4, <1>5 DEF IInv, ParkedPart, Sets, BootPart
<1>9. RunnerPart'
  BY <1>1, <1>2, <1>3, <1>4, <1>5, SchedulerAssumption DEF IInv, RunnerPart,
     BootPoint, Switching, Sets
<1>10. CurrentPart'
  BY <1>1, <1>2, <1>3, <1>4, <1>5 DEF IInv, CurrentPart
<1>11. TargetPart'
  BY <1>1, <1>2, <1>3, <1>4, <1>5, SchedulerAssumption DEF IInv, TargetPart,
     Switching, Sets
<1>12. ExitPart'
  BY <1>1, <1>2, <1>3, <1>4, <1>5 DEF IInv, ExitPart, Sets
<1>13. IdlePart'
  BY <1>1, <1>2, <1>3, <1>4, <1>5, SchedulerAssumption DEF IInv, IdlePart,
     TypeOK, Sets, BootPart, ParkedPart
<1>14. QueuePart'
  BY <1>1, <1>2, <1>3, <1>4, <1>5, SchedulerAssumption DEF IInv, QueuePart,
     Booted, Removing, Alive, BootPoint, ExitPart, RunnerPart, TypeOK, Sets
<1>15. QED
  BY <1>6, <1>7, <1>8, <1>9, <1>10, <1>11, <1>12, <1>13, <1>14 DEF IInv

LEMMA CreateTaskStep ==
  ASSUME IInv, NEW p \in Slot, CreateTask(p)
  PROVE  IInv'
<1>1. /\ pc[NULL] = "boot_tasks"
      /\ cpu = NULL
      /\ current_process = NULL
      /\ state[p] = "UNUSED"
      /\ idle_process \in Slot \ {p}
  BY SchedulerAssumption DEF CreateTask, process_create_kernel, At, IInv,
     RunnerPart, CurrentPart, BootPart, BootPoint, Switching, TypeOK,
     IdlePart
<1>2. pc' = [pc EXCEPT ![p] = "run", ![cpu] = "boot_tasks"]
  BY DEF CreateTask, process_create_kernel
<1>3. /\ pc' \in [Slot \cup {NULL} -> PC]
      /\ pc'[p] = "run" /\ pc'[NULL] = "boot_tasks"
      /\ \A c \in Slot : c # p => pc'[c] = pc[c]
  BY <1>1, <1>2, SchedulerAssumption DEF IInv, TypeOK, PC, BootPoint,
     EntryPoint
<1>4. Sets(p, "READY")
  BY <1>1, <1>2, <1>3, SetsTo DEF State, CreateTask, process_create_kernel,
     IInv
<1>5. /\ wakeup_tick' \in [Slot -> 0 .. TickMod - 1]
      /\ UNCHANGED call
      /\ UNCHANGED <<current_process, processes, process_count, current,
                     idle_process, need_resched, scheduler_ticks,
                     timer_ticks, cpu, i, next, target>>
  BY <1>1, <1>2, <1>3, <1>4, SchedulerAssumption DEF CreateTask,
     process_create_kernel, sched_vars, tick_vars, local_vars, IInv, TypeOK
<1>6. TypeOK'
  BY <1>1, <1>2, <1>3, <1>4, <1>5, SchedulerAssumption DEF IInv, TypeOK,
     Slot, State, Call, Sets
<1>7. BootPart'
  BY <1>1, <1>2, <1>3, <1>4, <1>5, SchedulerAssumption DEF IInv, BootPart,
     BootPoint, Switching, TypeOK, Sets
<1>8. ParkedPart'
  BY <1>1, <1>2, <1>3, <1>4, <1>5 DEF IInv, ParkedPart, Sets, BootPart
<1>9. RunnerPart'
  BY <1>1, <1>2, <1>3, <1>4, <1>5, SchedulerAssumption DEF IInv, RunnerPart,
     BootPoint, Switching, Sets
<1>10. CurrentPart'
  BY <1>1, <1>2, <1>3, <1>4, <1>5 DEF IInv, CurrentPart
<1>11. TargetPart'
  BY <1>1, <1>2, <1>3, <1>4, <1>5, SchedulerAssumption DEF IInv, TargetPart,
     Switching, Sets
<1>12. ExitPart'
  BY <1>1, <1>2, <1>3, <1>4, <1>5 DEF IInv, ExitPart, Sets
<1>13. IdlePart'
  BY <1>1, <1>2, <1>3, <1>4, <1>5, SchedulerAssumption DEF IInv, IdlePart,
     TypeOK, Sets
<1>14. QueuePart'
  BY <1>1, <1>2, <1>3, <1>4, <1>5, SchedulerAssumption DEF IInv, QueuePart,
     Booted, Removing, Alive, BootPoint, ExitPart, RunnerPart, TypeOK, Sets
<1>15. QED
  BY <1>6, <1>7, <1>8, <1>9, <1>10, <1>11, <1>12, <1>13, <1>14 DEF IInv

LEMMA scheduler_addStep ==
  ASSUME IInv, NEW p \in Slot, scheduler_add(p)
  PROVE  IInv'
<1>1. /\ pc[NULL] = "boot_add"
      /\ cpu = NULL
      /\ current_process = NULL
      /\ state[p] # "UNUSED"
      /\ p # idle_process
      /\ idle_process \in Slot
      /\ process_count \in 0 .. MaxProcess - 1
  BY SchedulerAssumption DEF scheduler_add, Tasks, At, IInv, RunnerPart,
     CurrentPart, BootPart, BootPoint, Switching, TypeOK
<1>2. /\ processes' \in [Slot -> Slot \cup {NULL}]
      /\ processes'[process_count] = p
      /\ \A k \in Slot : k # process_count => processes'[k] = processes[k]
      /\ process_count' = process_count + 1
  BY <1>1 DEF scheduler_add, IInv, TypeOK, Slot
<1>3. /\ UNCHANGED state
      /\ UNCHANGED pc
      /\ UNCHANGED call
      /\ UNCHANGED <<wakeup_tick, current_process, current, idle_process,
                     need_resched, scheduler_ticks, timer_ticks,
                     cpu, i, next, target>>
  BY <1>1, <1>2, SchedulerAssumption DEF scheduler_add, sched_vars,
     tick_vars, local_vars, IInv, TypeOK
<1>4. \A k \in 0 .. process_count' - 1 :
            \/ k \in 0 .. process_count - 1 /\ processes'[k] = processes[k]
            \/ processes'[k] = p
  BY <1>1, <1>2, SchedulerAssumption DEF Slot
<1>5. TypeOK'
  BY <1>1, <1>2, <1>3, <1>4, SchedulerAssumption DEF IInv, TypeOK, Slot,
     State, Call
<1>6. BootPart'
  BY <1>1, <1>2, <1>3, <1>4, SchedulerAssumption DEF IInv, BootPart,
     BootPoint, Switching, TypeOK
<1>7. ParkedPart'
  BY <1>1, <1>2, <1>3, <1>4 DEF IInv, ParkedPart
<1>8. RunnerPart'
  BY <1>1, <1>2, <1>3, <1>4, SchedulerAssumption DEF IInv, RunnerPart,
     BootPoint, Switching
<1>9. CurrentPart'
  BY <1>1, <1>2, <1>3, <1>4 DEF IInv, CurrentPart
<1>10. TargetPart'
  BY <1>1, <1>2, <1>3, <1>4, SchedulerAssumption DEF IInv, TargetPart,
     Switching
<1>11. ExitPart'
  BY <1>1, <1>2, <1>3, <1>4 DEF IInv, ExitPart
<1>12. IdlePart'
  BY <1>1, <1>2, <1>3, <1>4, SchedulerAssumption DEF IInv, IdlePart, TypeOK
<1>13. QueuePart'
  BY <1>1, <1>2, <1>3, <1>4, SchedulerAssumption DEF IInv, QueuePart,
     Booted, Removing, Alive, BootPoint, ExitPart, RunnerPart, TypeOK
<1>14. QED
  BY <1>5, <1>6, <1>7, <1>8, <1>9, <1>10, <1>11, <1>12, <1>13 DEF IInv

LEMMA TasksCreatedStep ==
  ASSUME IInv, TasksCreated
  PROVE  IInv'
<1>1. /\ pc[NULL] = "boot_tasks"
      /\ cpu = NULL
      /\ current_process = NULL
  BY SchedulerAssumption DEF TasksCreated, At, IInv, RunnerPart,
     CurrentPart, BootPart, BootPoint, Switching, TypeOK
<1>2. Moves("boot_add")
  BY MovesTo DEF PC, BootPoint, EntryPoint, TasksCreated, IInv
<1>3. /\ UNCHANGED state
      /\ UNCHANGED call
      /\ UNCHANGED <<wakeup_tick, current_process, processes, process_count,
                     current, idle_process, need_resched,
                     scheduler_ticks, timer_ticks, cpu, i, next,
                     target>>
  BY <1>1, <1>2, SchedulerAssumption DEF TasksCreated, sched_vars,
     tick_vars, local_vars, IInv, TypeOK
<1>4. TypeOK'
  BY <1>1, <1>2, <1>3, SchedulerAssumption DEF IInv, TypeOK, Slot, State,
     Call, Moves
<1>5. BootPart'
  BY <1>1, <1>2, <1>3, SchedulerAssumption DEF IInv, BootPart, BootPoint,
     Switching, TypeOK, Moves
<1>6. ParkedPart'
  BY <1>1, <1>2, <1>3 DEF IInv, ParkedPart, Moves
<1>7. RunnerPart'
  BY <1>1, <1>2, <1>3, SchedulerAssumption DEF IInv, RunnerPart, BootPoint,
     Switching, Moves
<1>8. CurrentPart'
  BY <1>1, <1>2, <1>3 DEF IInv, CurrentPart, Moves
<1>9. TargetPart'
  BY <1>1, <1>2, <1>3, SchedulerAssumption DEF IInv, TargetPart, Switching,
     Moves
<1>10. ExitPart'
  BY <1>1, <1>2, <1>3 DEF IInv, ExitPart
<1>11. IdlePart'
  BY <1>1, <1>2, <1>3, SchedulerAssumption DEF IInv, IdlePart, TypeOK, Moves
<1>12. QueuePart'
  BY <1>1, <1>2, <1>3, SchedulerAssumption DEF IInv, QueuePart, Booted,
     Removing, Alive, BootPoint, ExitPart, RunnerPart, TypeOK, Moves
<1>13. QED
  BY <1>4, <1>5, <1>6, <1>7, <1>8, <1>9, <1>10, <1>11, <1>12 DEF IInv

LEMMA StartFirstStep ==
  ASSUME IInv, StartFirst
  PROVE  IInv'
<1>1. /\ pc[NULL] = "boot_add"
      /\ cpu = NULL
      /\ current_process = NULL
      /\ idle_process \in Slot
      /\ process_count > 0
  BY SchedulerAssumption DEF StartFirst, At, IInv, RunnerPart, CurrentPart,
     BootPart, BootPoint, Switching, TypeOK
<1>2. /\ processes[0] \in Slot
      /\ state[processes[0]] = "READY"
  BY <1>1 DEF IInv, BootPart, QueuePart, TypeOK
<1>3. Moves("mark")
  BY MovesTo DEF PC, BootPoint, EntryPoint, StartFirst, IInv
<1>4. /\ UNCHANGED state
      /\ UNCHANGED call
      /\ target' = processes[0]
      /\ UNCHANGED <<wakeup_tick, current_process, processes, process_count,
                     current, idle_process, need_resched,
                     scheduler_ticks, timer_ticks, cpu, i, next>>
  BY <1>1, <1>2, <1>3, SchedulerAssumption DEF StartFirst, sched_vars,
     tick_vars, local_vars, IInv, TypeOK
<1>5. \A p \in Slot \ {idle_process} : Alive(p) =>
         \E k \in 0 .. process_count - 1 : processes[k] = p
  BY DEF StartFirst, Tasks, Queued, Alive
<1>6. TypeOK'
  BY <1>1, <1>2, <1>3, <1>4, <1>5, SchedulerAssumption DEF IInv, TypeOK,
     Slot, State, Call, Moves
<1>7. BootPart'
  BY <1>1, <1>2, <1>3, <1>4, <1>5, SchedulerAssumption DEF IInv, BootPart,
     BootPoint, Switching, TypeOK, Moves
<1>8. ParkedPart'
  BY <1>1, <1>2, <1>3, <1>4, <1>5 DEF IInv, ParkedPart, Moves
<1>9. RunnerPart'
  BY <1>1, <1>2, <1>3, <1>4, <1>5, SchedulerAssumption DEF IInv, RunnerPart,
     BootPoint, Switching, Moves
<1>10. CurrentPart'
  BY <1>1, <1>2, <1>3, <1>4, <1>5 DEF IInv, CurrentPart, Moves
<1>11. TargetPart'
  BY <1>1, <1>2, <1>3, <1>4, <1>5, SchedulerAssumption DEF IInv, TargetPart,
     Switching, Moves
<1>12. ExitPart'
  BY <1>1, <1>2, <1>3, <1>4, <1>5 DEF IInv, ExitPart
<1>13. IdlePart'
  BY <1>1, <1>2, <1>3, <1>4, <1>5, SchedulerAssumption DEF IInv, IdlePart,
     TypeOK, Moves
<1>14. QueuePart'
  BY <1>1, <1>2, <1>3, <1>4, <1>5, SchedulerAssumption DEF IInv, QueuePart,
     Booted, Removing, Alive, BootPoint, ExitPart, RunnerPart, TypeOK, Moves
<1>15. QED
  BY <1>6, <1>7, <1>8, <1>9, <1>10, <1>11, <1>12, <1>13, <1>14 DEF IInv

LEMMA YieldClearStep ==
  ASSUME IInv, YieldClear
  PROVE  IInv'
<1>1. /\ cpu \in Slot
      /\ current_process = cpu
      /\ pc[cpu] \in {"run", "check"}
      /\ call[cpu] = "none"
  BY SchedulerAssumption DEF YieldClear, At, IInv, RunnerPart, CurrentPart,
     BootPart, BootPoint, Switching, TypeOK
<1>2. Moves("yield")
  BY MovesTo DEF PC, BootPoint, EntryPoint, YieldClear, IInv
<1>3. Calls("yield")
  BY <1>1, <1>2, CallsTo DEF Call, YieldClear, IInv
<1>4. /\ UNCHANGED state
      /\ need_resched' = FALSE
      /\ UNCHANGED <<wakeup_tick, current_process, processes, process_count,
                     current, idle_process, scheduler_ticks,
                     timer_ticks, cpu, i, next, target>>
  BY <1>1, <1>2, <1>3, SchedulerAssumption DEF YieldClear, sched_vars,
     tick_vars, local_vars, IInv, TypeOK
<1>5. TypeOK'
  BY <1>1, <1>2, <1>3, <1>4, SchedulerAssumption DEF IInv, TypeOK, Slot,
     State, Call, Moves, Calls
<1>6. BootPart'
  BY <1>1, <1>2, <1>3, <1>4, SchedulerAssumption DEF IInv, BootPart,
     BootPoint, Switching, TypeOK, Moves, Calls, RunnerPart
<1>7. ParkedPart'
  BY <1>1, <1>2, <1>3, <1>4 DEF IInv, ParkedPart, Moves, Calls
<1>8. RunnerPart'
  BY <1>1, <1>2, <1>3, <1>4, SchedulerAssumption DEF IInv, RunnerPart,
     BootPoint, Switching, Moves, Calls
<1>9. CurrentPart'
  BY <1>1, <1>2, <1>3, <1>4 DEF IInv, CurrentPart, Moves
<1>10. TargetPart'
  BY <1>1, <1>2, <1>3, <1>4, SchedulerAssumption DEF IInv, TargetPart,
     Switching, Moves
<1>11. ExitPart'
  BY <1>1, <1>2, <1>3, <1>4 DEF IInv, ExitPart, Calls
<1>12. IdlePart'
  BY <1>1, <1>2, <1>3, <1>4, SchedulerAssumption DEF IInv, IdlePart, TypeOK,
     Moves, Calls
<1>13. QueuePart'
  BY <1>1, <1>2, <1>3, <1>4, SchedulerAssumption DEF IInv, QueuePart,
     Booted, Removing, Alive, BootPoint, ExitPart, RunnerPart, TypeOK,
     Moves, Calls
<1>14. QED
  BY <1>5, <1>6, <1>7, <1>8, <1>9, <1>10, <1>11, <1>12, <1>13 DEF IInv

LEMMA YieldReadyStep ==
  ASSUME IInv, YieldReady
  PROVE  IInv'
<1>1. /\ cpu \in Slot
      /\ current_process = cpu
      /\ pc[cpu] = "yield"
      /\ call[cpu] = "yield"
  BY SchedulerAssumption DEF YieldReady, At, IInv, RunnerPart, CurrentPart,
     BootPart, BootPoint, Switching, TypeOK
<1>2. Moves("scan")
  BY MovesTo DEF PC, BootPoint, EntryPoint, YieldReady, IInv, StartScan
<1>3. Sets(cpu, "READY")
  BY <1>1, <1>2, SetsTo DEF State, YieldReady, IInv
<1>4. /\ UNCHANGED call
      /\ i' = 0 /\ next' = current
      /\ UNCHANGED <<wakeup_tick, current_process, processes, process_count,
                     current, idle_process, need_resched,
                     scheduler_ticks, timer_ticks, cpu, target>>
  BY <1>1, <1>2, <1>3, SchedulerAssumption DEF YieldReady, StartScan,
     sched_vars, tick_vars, local_vars, IInv, TypeOK
<1>5. TypeOK'
  BY <1>1, <1>2, <1>3, <1>4, SchedulerAssumption DEF IInv, TypeOK, Slot,
     State, Call, Moves, Sets
<1>6. BootPart'
  BY <1>1, <1>2, <1>3, <1>4, SchedulerAssumption DEF IInv, BootPart,
     BootPoint, Switching, TypeOK, Moves, Sets
<1>7. ParkedPart'
  BY <1>1, <1>2, <1>3, <1>4 DEF IInv, ParkedPart, Moves, Sets
<1>8. RunnerPart'
  BY <1>1, <1>2, <1>3, <1>4, SchedulerAssumption DEF IInv, RunnerPart,
     BootPoint, Switching, Moves, Sets
<1>9. CurrentPart'
  BY <1>1, <1>2, <1>3, <1>4 DEF IInv, CurrentPart, Moves
<1>10. TargetPart'
  BY <1>1, <1>2, <1>3, <1>4, SchedulerAssumption DEF IInv, TargetPart,
     Switching, Moves, Sets
<1>11. ExitPart'
  BY <1>1, <1>2, <1>3, <1>4 DEF IInv, ExitPart, Sets
<1>12. IdlePart'
  BY <1>1, <1>2, <1>3, <1>4, SchedulerAssumption DEF IInv, IdlePart, TypeOK,
     Moves, Sets
<1>13. QueuePart'
  BY <1>1, <1>2, <1>3, <1>4, SchedulerAssumption DEF IInv, QueuePart,
     Booted, Removing, Alive, BootPoint, ExitPart, RunnerPart, TypeOK,
     Moves, Sets
<1>14. QED
  BY <1>5, <1>6, <1>7, <1>8, <1>9, <1>10, <1>11, <1>12, <1>13 DEF IInv

LEMMA SleepDeadlineStep ==
  ASSUME IInv, NEW n \in 0 .. MaxSleep, SleepDeadline(n)
  PROVE  IInv'
<1>1. /\ cpu \in Slot
      /\ current_process = cpu
      /\ pc[cpu] = "run"
      /\ call[cpu] = "none"
  BY SchedulerAssumption DEF SleepDeadline, At, IInv, RunnerPart,
     CurrentPart, BootPart, BootPoint, Switching, TypeOK
<1>2. Moves("sleep")
  BY MovesTo DEF PC, BootPoint, EntryPoint, SleepDeadline, IInv
<1>3. Calls("sleep")
  BY <1>1, <1>2, CallsTo DEF Call, SleepDeadline, IInv
<1>4. (timer_ticks + n) % TickMod \in 0 .. TickMod - 1
  BY ModRange, SchedulerAssumption DEF IInv, TypeOK
<1>5. /\ wakeup_tick' \in [Slot -> 0 .. TickMod - 1]
      /\ UNCHANGED state
      /\ UNCHANGED <<current_process, processes, process_count, current,
                     idle_process, need_resched, scheduler_ticks,
                     timer_ticks, cpu, i, next, target>>
  BY <1>1, <1>2, <1>3, <1>4, SchedulerAssumption DEF SleepDeadline,
     sched_vars, tick_vars, local_vars, IInv, TypeOK
<1>6. TypeOK'
  BY <1>1, <1>2, <1>3, <1>4, <1>5, SchedulerAssumption DEF IInv, TypeOK,
     Slot, State, Call, Moves, Calls
<1>7. BootPart'
  BY <1>1, <1>2, <1>3, <1>4, <1>5, SchedulerAssumption DEF IInv, BootPart,
     BootPoint, Switching, TypeOK, Moves, Calls, RunnerPart
<1>8. ParkedPart'
  BY <1>1, <1>2, <1>3, <1>4, <1>5 DEF IInv, ParkedPart, Moves, Calls
<1>9. RunnerPart'
  BY <1>1, <1>2, <1>3, <1>4, <1>5, SchedulerAssumption DEF IInv, RunnerPart,
     BootPoint, Switching, Moves, Calls
<1>10. CurrentPart'
  BY <1>1, <1>2, <1>3, <1>4, <1>5 DEF IInv, CurrentPart, Moves
<1>11. TargetPart'
  BY <1>1, <1>2, <1>3, <1>4, <1>5, SchedulerAssumption DEF IInv, TargetPart,
     Switching, Moves
<1>12. ExitPart'
  BY <1>1, <1>2, <1>3, <1>4, <1>5 DEF IInv, ExitPart, Calls
<1>13. IdlePart'
  BY <1>1, <1>2, <1>3, <1>4, <1>5, SchedulerAssumption DEF IInv, IdlePart,
     TypeOK, Moves, Calls
<1>14. QueuePart'
  BY <1>1, <1>2, <1>3, <1>4, <1>5, SchedulerAssumption DEF IInv, QueuePart,
     Booted, Removing, Alive, BootPoint, ExitPart, RunnerPart, TypeOK,
     Moves, Calls
<1>15. QED
  BY <1>6, <1>7, <1>8, <1>9, <1>10, <1>11, <1>12, <1>13, <1>14 DEF IInv

LEMMA SleepBlockStep ==
  ASSUME IInv, SleepBlock
  PROVE  IInv'
<1>1. /\ cpu \in Slot
      /\ current_process = cpu
      /\ pc[cpu] = "sleep"
      /\ call[cpu] = "sleep"
  BY SchedulerAssumption DEF SleepBlock, At, IInv, RunnerPart, CurrentPart,
     BootPart, BootPoint, Switching, TypeOK
<1>2. Moves("scan")
  BY MovesTo DEF PC, BootPoint, EntryPoint, SleepBlock, IInv, StartScan
<1>3. Sets(cpu, "BLOCKED")
  BY <1>1, <1>2, SetsTo DEF State, SleepBlock, IInv
<1>4. /\ UNCHANGED call
      /\ i' = 0 /\ next' = current
      /\ UNCHANGED <<wakeup_tick, current_process, processes, process_count,
                     current, idle_process, need_resched,
                     scheduler_ticks, timer_ticks, cpu, target>>
  BY <1>1, <1>2, <1>3, SchedulerAssumption DEF SleepBlock, StartScan,
     sched_vars, tick_vars, local_vars, IInv, TypeOK
<1>5. TypeOK'
  BY <1>1, <1>2, <1>3, <1>4, SchedulerAssumption DEF IInv, TypeOK, Slot,
     State, Call, Moves, Sets
<1>6. BootPart'
  BY <1>1, <1>2, <1>3, <1>4, SchedulerAssumption DEF IInv, BootPart,
     BootPoint, Switching, TypeOK, Moves, Sets
<1>7. ParkedPart'
  BY <1>1, <1>2, <1>3, <1>4 DEF IInv, ParkedPart, Moves, Sets
<1>8. RunnerPart'
  BY <1>1, <1>2, <1>3, <1>4, SchedulerAssumption DEF IInv, RunnerPart,
     BootPoint, Switching, Moves, Sets
<1>9. CurrentPart'
  BY <1>1, <1>2, <1>3, <1>4 DEF IInv, CurrentPart, Moves
<1>10. TargetPart'
  BY <1>1, <1>2, <1>3, <1>4, SchedulerAssumption DEF IInv, TargetPart,
     Switching, Moves, Sets
<1>11. ExitPart'
  BY <1>1, <1>2, <1>3, <1>4 DEF IInv, ExitPart, Sets
<1>12. IdlePart'
  BY <1>1, <1>2, <1>3, <1>4, SchedulerAssumption DEF IInv, IdlePart, TypeOK,
     Moves, Sets
<1>13. QueuePart'
  BY <1>1, <1>2, <1>3, <1>4, SchedulerAssumption DEF IInv, QueuePart,
     Booted, Removing, Alive, BootPoint, ExitPart, RunnerPart, TypeOK,
     Moves, Sets
<1>14. QED
  BY <1>5, <1>6, <1>7, <1>8, <1>9, <1>10, <1>11, <1>12, <1>13 DEF IInv

LEMMA ExitStep ==
  ASSUME IInv, Exit
  PROVE  IInv'
<1>1. /\ cpu \in Slot
      /\ current_process = cpu
      /\ pc[cpu] = "run"
      /\ call[cpu] = "none"
      /\ cpu # idle_process
  BY SchedulerAssumption DEF Exit, At, IInv, RunnerPart, CurrentPart, BootPart,
     BootPoint, Switching, TypeOK, IdlePart
<1>2. Sets(cpu, "EXITED") /\ Calls("exit")
  BY <1>1, SetsTo, CallsTo DEF State, Call, Exit, IInv
<1>3. UNCHANGED <<wakeup_tick, current_process, processes, process_count,
                  current, idle_process, need_resched, scheduler_ticks,
                  timer_ticks, cpu, target>>
  BY DEF Exit, sched_vars, tick_vars
<1>4. \/ /\ Moves("remove") /\ next' = next
         /\ i' \in 0 .. process_count - 1 /\ processes[i'] = cpu
      \/ Moves("scan") /\ i' = 0 /\ next' = current
  <2>1. CASE current_process \in Queued
    BY <1>1, <2>1, MovesTo DEF PC, Exit, IInv
  <2>2. CASE current_process \notin Queued
    <3>1. Goto("scan") /\ i' = 0 /\ next' = current
      BY <2>2 DEF Exit, StartScan, sched_vars
    <3>2. QED
      BY <3>1, MovesTo DEF PC, IInv
  <2>3. QED
    BY <2>1, <2>2
<1>5. i' \in 0 .. MaxProcess /\ next' \in Slot
  BY <1>4, SchedulerAssumption DEF IInv, TypeOK
<1>6. TypeOK'
  BY <1>1, <1>2, <1>3, <1>4, <1>5, SchedulerAssumption DEF IInv, TypeOK, Moves,
     Sets, Calls
<1>7. BootPart'
  BY <1>1, <1>2, <1>3, <1>4, SchedulerAssumption DEF IInv, BootPart, BootPoint,
     Switching, TypeOK, Moves, Sets, Calls
<1>8. ParkedPart'
  BY <1>1, <1>2, <1>3, <1>4 DEF IInv, ParkedPart, Moves, Sets, Calls
<1>9. RunnerPart'
  BY <1>1, <1>2, <1>3, <1>4 DEF IInv, RunnerPart, BootPoint, Switching, Moves,
     Sets, Calls
<1>10. CurrentPart'
  BY <1>1, <1>3, <1>4 DEF IInv, CurrentPart, Moves
<1>11. TargetPart'
  BY <1>1, <1>3, <1>4 DEF IInv, TargetPart, Switching, Moves
<1>12. ExitPart'
  BY <1>1, <1>2, <1>3 DEF IInv, ExitPart, Sets, Calls
<1>13. IdlePart'
  BY <1>1, <1>2, <1>3, <1>4, SchedulerAssumption DEF IInv, IdlePart, TypeOK,
     Moves, Sets, Calls
<1>14. QueuePart'
  BY <1>1, <1>2, <1>3, <1>4, SchedulerAssumption DEF IInv, QueuePart, Booted,
     Removing, Alive, BootPoint, TypeOK, Moves, Sets
<1>15. QED
  BY <1>6, <1>7, <1>8, <1>9, <1>10, <1>11, <1>12, <1>13, <1>14 DEF IInv

LEMMA RemoveShiftStep ==
  ASSUME IInv, RemoveShift
  PROVE  IInv'
<1>1. /\ cpu \in Slot
      /\ current_process = cpu
      /\ pc[cpu] = "remove"
      /\ i \in 0 .. process_count - 2
  BY SchedulerAssumption DEF RemoveShift, ShiftDone, At, IInv, RunnerPart,
     CurrentPart, BootPart, BootPoint, Switching, TypeOK
<1>2. /\ processes' \in [Slot -> Slot \cup {NULL}]
      /\ processes'[i] = processes[i + 1]
      /\ \A k \in Slot : k # i => processes'[k] = processes[k]
      /\ i' = i + 1
  BY <1>1, SchedulerAssumption DEF RemoveShift, IInv, TypeOK, Slot
<1>3. /\ UNCHANGED state
      /\ UNCHANGED pc
      /\ UNCHANGED call
      /\ UNCHANGED <<wakeup_tick, current_process, process_count, current,
                     idle_process, need_resched, scheduler_ticks,
                     timer_ticks, cpu, next, target>>
  BY <1>1, <1>2, SchedulerAssumption DEF RemoveShift, sched_vars, tick_vars,
     local_vars, IInv, TypeOK
<1>4. TypeOK'
  BY <1>1, <1>2, <1>3, SchedulerAssumption DEF IInv, TypeOK, Slot, State,
     Call
<1>5. BootPart'
  BY <1>1, <1>2, <1>3, SchedulerAssumption DEF IInv, BootPart, BootPoint,
     Switching, TypeOK
<1>6. ParkedPart'
  BY <1>1, <1>2, <1>3 DEF IInv, ParkedPart
<1>7. RunnerPart'
  BY <1>1, <1>2, <1>3, SchedulerAssumption DEF IInv, RunnerPart, BootPoint,
     Switching
<1>8. CurrentPart'
  BY <1>1, <1>2, <1>3 DEF IInv, CurrentPart
<1>9. TargetPart'
  BY <1>1, <1>2, <1>3, SchedulerAssumption DEF IInv, TargetPart, Switching
<1>10. ExitPart'
  BY <1>1, <1>2, <1>3 DEF IInv, ExitPart
<1>11. IdlePart'
  BY <1>1, <1>2, <1>3, SchedulerAssumption DEF IInv, IdlePart, TypeOK
<1>12. QueuePart'
  <2>1. /\ 0 .. process_count - 1 \subseteq Slot
        /\ i \in 0 .. process_count - 1 /\ i + 1 \in 0 .. process_count - 1
    BY <1>1, SchedulerAssumption DEF Slot, IInv, TypeOK
  <2>2. \A k \in 0 .. process_count - 1 :
          /\ processes'[k] \in Slot \ {idle_process}
          /\ state[processes'[k]] # "UNUSED"
    BY <1>2, <2>1 DEF IInv, QueuePart
  <2>3. ASSUME Booted, NEW p \in Slot \ {idle_process}, Alive(p)
        PROVE  \E k \in 0 .. process_count - 1 :
                 processes'[k] = p /\ k # i + 1
    <3>1. PICK k \in 0 .. process_count - 1 : processes[k] = p /\ k # i
      BY <1>1, <2>3, SchedulerAssumption DEF IInv, QueuePart, Removing
    <3>2. CASE k = i + 1
      BY <1>2, <2>1, <3>1, <3>2, i # i + 1 DEF IInv, TypeOK
    <3>3. CASE k # i + 1
      BY <1>2, <2>1, <3>1, <3>3
    <3>4. QED
      BY <3>2, <3>3
  <2>4. QED
    BY <1>1, <1>2, <1>3, <2>1, <2>2, <2>3, SchedulerAssumption
       DEF IInv, QueuePart, Booted, Removing, Alive, BootPart, BootPoint, TypeOK
<1>13. QED
  BY <1>4, <1>5, <1>6, <1>7, <1>8, <1>9, <1>10, <1>11, <1>12 DEF IInv

LEMMA RemoveCountStep ==
  ASSUME IInv, RemoveCount
  PROVE  IInv'
<1>1. /\ cpu \in Slot
      /\ current_process = cpu
      /\ pc[cpu] = "remove"
      /\ process_count >= 1
      /\ i = process_count - 1
      /\ call[cpu] = "exit"
  BY SchedulerAssumption DEF RemoveCount, ShiftDone, QueuePart, Removing,
     At, IInv, RunnerPart, CurrentPart, BootPart, BootPoint, Switching,
     TypeOK
<1>2. Moves("scan")
  BY MovesTo DEF PC, BootPoint, EntryPoint, RemoveCount, IInv, StartScan
<1>3. /\ UNCHANGED state
      /\ UNCHANGED call
      /\ process_count' = process_count - 1
      /\ current' \in Slot
      /\ i' = 0 /\ next' = current'
      /\ UNCHANGED <<wakeup_tick, current_process, processes, idle_process,
                     need_resched, scheduler_ticks, timer_ticks,
                     cpu, target>>
  BY <1>1, <1>2, SchedulerAssumption DEF RemoveCount, StartScan, Slot,
     sched_vars, tick_vars, local_vars, IInv, TypeOK
<1>4. TypeOK'
  BY <1>1, <1>2, <1>3, SchedulerAssumption DEF IInv, TypeOK, Slot, State,
     Call, Moves
<1>5. BootPart'
  BY <1>1, <1>2, <1>3, SchedulerAssumption DEF IInv, BootPart, BootPoint,
     Switching, TypeOK, Moves
<1>6. ParkedPart'
  BY <1>1, <1>2, <1>3 DEF IInv, ParkedPart, Moves
<1>7. RunnerPart'
  BY <1>1, <1>2, <1>3, SchedulerAssumption DEF IInv, RunnerPart, BootPoint,
     Switching, Moves
<1>8. CurrentPart'
  BY <1>1, <1>2, <1>3 DEF IInv, CurrentPart, Moves
<1>9. TargetPart'
  BY <1>1, <1>2, <1>3, SchedulerAssumption DEF IInv, TargetPart, Switching,
     Moves
<1>10. ExitPart'
  BY <1>1, <1>2, <1>3 DEF IInv, ExitPart
<1>11. IdlePart'
  BY <1>1, <1>2, <1>3, SchedulerAssumption DEF IInv, IdlePart, TypeOK, Moves
<1>12. QueuePart'
  BY <1>1, <1>2, <1>3, SchedulerAssumption DEF IInv, QueuePart, Booted,
     Removing, Alive, BootPoint, ExitPart, RunnerPart, TypeOK, Moves
<1>13. QED
  BY <1>4, <1>5, <1>6, <1>7, <1>8, <1>9, <1>10, <1>11, <1>12 DEF IInv

LEMMA ScanSkipStep ==
  ASSUME IInv, ScanSkip
  PROVE  IInv'
<1>1. /\ cpu \in Slot
      /\ current_process = cpu
      /\ pc[cpu] = "scan"
      /\ call[cpu] # "none"
      /\ i < process_count
  BY SchedulerAssumption DEF ScanSkip, At, IInv, RunnerPart, CurrentPart,
     BootPart, BootPoint, Switching, TypeOK
<1>2. /\ next + 1 \in Nat
      /\ process_count \in Nat \ {0}
  BY <1>1, SchedulerAssumption DEF IInv, TypeOK, Slot
<1>3. NextIndex \in 0 .. process_count - 1
  BY <1>2, ModRange DEF NextIndex
<1>4. NextIndex \in Slot
  BY <1>3, SchedulerAssumption DEF IInv, TypeOK, Slot
<1>5. /\ UNCHANGED state
      /\ UNCHANGED pc
      /\ UNCHANGED call
      /\ i' = i + 1 /\ next' = NextIndex
      /\ UNCHANGED <<wakeup_tick, current_process, processes, process_count,
                     current, idle_process, need_resched,
                     scheduler_ticks, timer_ticks, cpu, target>>
  BY <1>1, <1>2, <1>3, <1>4, SchedulerAssumption DEF ScanSkip, sched_vars,
     tick_vars, local_vars, IInv, TypeOK
<1>6. TypeOK'
  BY <1>1, <1>2, <1>3, <1>4, <1>5, SchedulerAssumption DEF IInv, TypeOK,
     Slot, State, Call
<1>7. BootPart'
  BY <1>1, <1>2, <1>3, <1>4, <1>5, SchedulerAssumption DEF IInv, BootPart,
     BootPoint, Switching, TypeOK
<1>8. ParkedPart'
  BY <1>1, <1>2, <1>3, <1>4, <1>5 DEF IInv, ParkedPart
<1>9. RunnerPart'
  BY <1>1, <1>2, <1>3, <1>4, <1>5, SchedulerAssumption DEF IInv, RunnerPart,
     BootPoint, Switching
<1>10. CurrentPart'
  BY <1>1, <1>2, <1>3, <1>4, <1>5 DEF IInv, CurrentPart
<1>11. TargetPart'
  BY <1>1, <1>2, <1>3, <1>4, <1>5, SchedulerAssumption DEF IInv, TargetPart,
     Switching
<1>12. ExitPart'
  BY <1>1, <1>2, <1>3, <1>4, <1>5 DEF IInv, ExitPart
<1>13. IdlePart'
  BY <1>1, <1>2, <1>3, <1>4, <1>5, SchedulerAssumption DEF IInv, IdlePart,
     TypeOK
<1>14. QueuePart'
  BY <1>1, <1>2, <1>3, <1>4, <1>5, SchedulerAssumption DEF IInv, QueuePart,
     Booted, Removing, Alive, BootPoint, ExitPart, RunnerPart, TypeOK
<1>15. QED
  BY <1>6, <1>7, <1>8, <1>9, <1>10, <1>11, <1>12, <1>13, <1>14 DEF IInv

LEMMA ScanPickStep ==
  ASSUME IInv, ScanPick
  PROVE  IInv'
<1>1. /\ cpu \in Slot
      /\ current_process = cpu
      /\ pc[cpu] = "scan"
      /\ call[cpu] # "none"
      /\ i < process_count
  BY SchedulerAssumption DEF ScanPick, At, IInv, RunnerPart, CurrentPart,
     BootPart, BootPoint, Switching, TypeOK
<1>2. /\ next + 1 \in Nat
      /\ process_count \in Nat \ {0}
  BY <1>1, SchedulerAssumption DEF IInv, TypeOK, Slot
<1>3. NextIndex \in 0 .. process_count - 1
  BY <1>2, ModRange DEF NextIndex
<1>4. NextIndex \in Slot
  BY <1>3, SchedulerAssumption DEF IInv, TypeOK, Slot
<1>5. /\ processes[NextIndex] \in Slot \ {cpu}
      /\ state[processes[NextIndex]] = "READY"
  BY <1>1, <1>3 DEF ScanPick, Eligible, IInv, QueuePart
<1>6. Moves("mark")
  BY MovesTo DEF PC, BootPoint, EntryPoint, ScanPick, IInv, LeaveScan
<1>7. /\ UNCHANGED state
      /\ UNCHANGED call
      /\ target' = processes[NextIndex] /\ current' = NextIndex
      /\ i' = 0 /\ next' = 0
      /\ UNCHANGED <<wakeup_tick, current_process, processes, process_count,
                     idle_process, need_resched, scheduler_ticks,
                     timer_ticks, cpu>>
  BY <1>1, <1>2, <1>3, <1>4, <1>5, <1>6, SchedulerAssumption DEF ScanPick,
     LeaveScan, sched_vars, tick_vars, local_vars, IInv, TypeOK
<1>8. TypeOK'
  BY <1>1, <1>2, <1>3, <1>4, <1>5, <1>6, <1>7, SchedulerAssumption DEF IInv,
     TypeOK, Slot, State, Call, Moves
<1>9. BootPart'
  BY <1>1, <1>2, <1>3, <1>4, <1>5, <1>6, <1>7, SchedulerAssumption DEF IInv,
     BootPart, BootPoint, Switching, TypeOK, Moves
<1>10. ParkedPart'
  BY <1>1, <1>2, <1>3, <1>4, <1>5, <1>6, <1>7 DEF IInv, ParkedPart, Moves
<1>11. RunnerPart'
  BY <1>1, <1>2, <1>3, <1>4, <1>5, <1>6, <1>7, SchedulerAssumption DEF IInv,
     RunnerPart, BootPoint, Switching, Moves
<1>12. CurrentPart'
  BY <1>1, <1>2, <1>3, <1>4, <1>5, <1>6, <1>7 DEF IInv, CurrentPart, Moves
<1>13. TargetPart'
  BY <1>1, <1>2, <1>3, <1>4, <1>5, <1>6, <1>7, SchedulerAssumption DEF IInv,
     TargetPart, Switching, Moves
<1>14. ExitPart'
  BY <1>1, <1>2, <1>3, <1>4, <1>5, <1>6, <1>7 DEF IInv, ExitPart
<1>15. IdlePart'
  BY <1>1, <1>2, <1>3, <1>4, <1>5, <1>6, <1>7, SchedulerAssumption DEF IInv,
     IdlePart, TypeOK, Moves
<1>16. QueuePart'
  <2>1. ~ Removing /\ ~ Removing'
    BY <1>1, <1>6, <1>7 DEF Removing, Moves
  <2>2. pc'[NULL] # "boot_idle" \/ pc[NULL] = "boot_idle"
    BY <1>1, <1>6, SchedulerAssumption DEF Moves, Slot
  <2>3. Booted' => Booted
    BY <1>1, <1>6, <1>7, SchedulerAssumption DEF Booted, Moves, Slot
  <2>4. \A p \in Slot : Alive(p)' <=> Alive(p)
    BY <1>7 DEF Alive
  <2> QED
    BY <1>7, <2>1, <2>2, <2>3, <2>4 DEF IInv, QueuePart
<1>17. QED
  BY <1>8, <1>9, <1>10, <1>11, <1>12, <1>13, <1>14, <1>15, <1>16 DEF IInv

LEMMA ScanIdleStep ==
  ASSUME IInv, ScanIdle
  PROVE  IInv'
<1>1. /\ cpu \in Slot
      /\ current_process = cpu
      /\ pc[cpu] = "scan"
      /\ call[cpu] # "none"
      /\ idle_process \in Slot \ {cpu}
  BY SchedulerAssumption DEF ScanIdle, At, IInv, RunnerPart, CurrentPart,
     BootPart, BootPoint, Switching, TypeOK
<1>2. state[idle_process] = "READY"
  BY <1>1, SchedulerAssumption DEF IInv, IdlePart
<1>3. Moves("mark")
  BY MovesTo DEF PC, BootPoint, EntryPoint, ScanIdle, IInv, LeaveScan
<1>4. /\ UNCHANGED state
      /\ UNCHANGED call
      /\ target' = idle_process
      /\ i' = 0 /\ next' = 0
      /\ UNCHANGED <<wakeup_tick, current_process, processes, process_count,
                     current, idle_process, need_resched,
                     scheduler_ticks, timer_ticks, cpu>>
  BY <1>1, <1>2, <1>3, SchedulerAssumption DEF ScanIdle, LeaveScan,
     sched_vars, tick_vars, local_vars, IInv, TypeOK
<1>5. TypeOK'
  BY <1>1, <1>2, <1>3, <1>4, SchedulerAssumption DEF IInv, TypeOK, Slot,
     State, Call, Moves
<1>6. BootPart'
  BY <1>1, <1>2, <1>3, <1>4, SchedulerAssumption DEF IInv, BootPart,
     BootPoint, Switching, TypeOK, Moves
<1>7. ParkedPart'
  BY <1>1, <1>2, <1>3, <1>4 DEF IInv, ParkedPart, Moves
<1>8. RunnerPart'
  BY <1>1, <1>2, <1>3, <1>4, SchedulerAssumption DEF IInv, RunnerPart,
     BootPoint, Switching, Moves
<1>9. CurrentPart'
  BY <1>1, <1>2, <1>3, <1>4 DEF IInv, CurrentPart, Moves
<1>10. TargetPart'
  BY <1>1, <1>2, <1>3, <1>4, SchedulerAssumption DEF IInv, TargetPart,
     Switching, Moves
<1>11. ExitPart'
  BY <1>1, <1>2, <1>3, <1>4 DEF IInv, ExitPart
<1>12. IdlePart'
  BY <1>1, <1>2, <1>3, <1>4, SchedulerAssumption DEF IInv, IdlePart, TypeOK,
     Moves
<1>13. QueuePart'
  BY <1>1, <1>2, <1>3, <1>4, SchedulerAssumption DEF IInv, QueuePart,
     Booted, Removing, Alive, BootPoint, ExitPart, RunnerPart, TypeOK, Moves
<1>14. QED
  BY <1>5, <1>6, <1>7, <1>8, <1>9, <1>10, <1>11, <1>12, <1>13 DEF IInv

LEMMA ScanReturnStep ==
  ASSUME IInv, ScanReturn
  PROVE  IInv'
<1>1. /\ cpu \in Slot
      /\ current_process = cpu
      /\ pc[cpu] = "scan"
      /\ call[cpu] # "none"
      /\ idle_process = cpu
  BY SchedulerAssumption DEF ScanReturn, At, IInv, RunnerPart, CurrentPart,
     BootPart, BootPoint, Switching, TypeOK
<1>2. call[cpu] # "exit"
  BY <1>1, SchedulerAssumption DEF IInv, IdlePart
<1>3. Moves("return")
  BY MovesTo DEF PC, BootPoint, EntryPoint, ScanReturn, IInv, LeaveScan
<1>4. /\ UNCHANGED state
      /\ UNCHANGED call
      /\ i' = 0 /\ next' = 0
      /\ UNCHANGED <<wakeup_tick, current_process, processes, process_count,
                     current, idle_process, need_resched,
                     scheduler_ticks, timer_ticks, cpu, target>>
  BY <1>1, <1>2, <1>3, SchedulerAssumption DEF ScanReturn, LeaveScan,
     sched_vars, tick_vars, local_vars, IInv, TypeOK
<1>5. TypeOK'
  BY <1>1, <1>2, <1>3, <1>4, SchedulerAssumption DEF IInv, TypeOK, Slot,
     State, Call, Moves
<1>6. BootPart'
  BY <1>1, <1>2, <1>3, <1>4, SchedulerAssumption DEF IInv, BootPart,
     BootPoint, Switching, TypeOK, Moves
<1>7. ParkedPart'
  BY <1>1, <1>2, <1>3, <1>4 DEF IInv, ParkedPart, Moves
<1>8. RunnerPart'
  BY <1>1, <1>2, <1>3, <1>4, SchedulerAssumption DEF IInv, RunnerPart,
     BootPoint, Switching, Moves
<1>9. CurrentPart'
  BY <1>1, <1>2, <1>3, <1>4 DEF IInv, CurrentPart, Moves
<1>10. TargetPart'
  BY <1>1, <1>2, <1>3, <1>4, SchedulerAssumption DEF IInv, TargetPart,
     Switching, Moves
<1>11. ExitPart'
  BY <1>1, <1>2, <1>3, <1>4 DEF IInv, ExitPart
<1>12. IdlePart'
  BY <1>1, <1>2, <1>3, <1>4, SchedulerAssumption DEF IInv, IdlePart, TypeOK,
     Moves
<1>13. QueuePart'
  BY <1>1, <1>2, <1>3, <1>4, SchedulerAssumption DEF IInv, QueuePart,
     Booted, Removing, Alive, BootPoint, ExitPart, RunnerPart, TypeOK, Moves
<1>14. QED
  BY <1>5, <1>6, <1>7, <1>8, <1>9, <1>10, <1>11, <1>12, <1>13 DEF IInv

LEMMA SwitchMarkStep ==
  ASSUME IInv, SwitchMark
  PROVE  IInv'
<1>1. /\ pc[cpu] = "mark"
      /\ current_process = cpu
      /\ target \in Slot \ {cpu}
      /\ state[target] = "READY"
  BY DEF SwitchMark, At, IInv, CurrentPart, TargetPart, Switching
<1>2. /\ cpu \in Slot => state'[cpu] = IF state[cpu] = "RUNNING" THEN "READY"
                                                        ELSE state[cpu]
      /\ \A p \in Slot : p # cpu => state'[p] = state[p]
      /\ state' \in [Slot -> State]
  BY <1>1, SchedulerAssumption DEF SwitchMark, IInv, TypeOK, State
<1>3. Moves("enter")
  BY MovesTo DEF PC, BootPoint, EntryPoint, SwitchMark, IInv
<1>4. /\ UNCHANGED call
      /\ current_process' = target
      /\ UNCHANGED <<wakeup_tick, processes, process_count, current,
                     idle_process, need_resched, scheduler_ticks,
                     timer_ticks, cpu, i, next, target>>
  BY <1>1, <1>2, <1>3, SchedulerAssumption DEF SwitchMark, sched_vars,
     tick_vars, local_vars, IInv, TypeOK
<1>5. TypeOK'
  BY <1>1, <1>2, <1>3, <1>4, SchedulerAssumption DEF IInv, TypeOK, Slot,
     State, Call, Moves
<1>6. BootPart'
  BY <1>1, <1>2, <1>3, <1>4, SchedulerAssumption DEF IInv, BootPart,
     BootPoint, Switching, TypeOK, Moves
<1>7. ParkedPart'
  BY <1>1, <1>2, <1>3, <1>4 DEF IInv, ParkedPart, Moves
<1>8. RunnerPart'
  BY <1>1, <1>2, <1>3, <1>4, SchedulerAssumption DEF IInv, RunnerPart,
     BootPoint, Switching, Moves, TypeOK, State
<1>9. CurrentPart'
  BY <1>1, <1>2, <1>3, <1>4 DEF IInv, CurrentPart, Moves
<1>10. TargetPart'
  BY <1>1, <1>2, <1>3, <1>4, SchedulerAssumption DEF IInv, TargetPart,
     Switching, Moves
<1>11. ExitPart'
  BY <1>1, <1>2, <1>3, <1>4 DEF IInv, ExitPart
<1>12. IdlePart'
  BY <1>1, <1>2, <1>3, <1>4, SchedulerAssumption DEF IInv, IdlePart, TypeOK,
     Moves
<1>13. QueuePart'
  BY <1>1, <1>2, <1>3, <1>4, SchedulerAssumption DEF IInv, QueuePart,
     Booted, Removing, Alive, BootPoint, ExitPart, RunnerPart, TypeOK, Moves
<1>14. QED
  BY <1>5, <1>6, <1>7, <1>8, <1>9, <1>10, <1>11, <1>12, <1>13 DEF IInv

LEMMA SwitchEnterStep ==
  ASSUME IInv, SwitchEnter
  PROVE  IInv'
<1>1. /\ pc[cpu] = "enter"
      /\ current_process = target
      /\ target \in Slot \ {cpu}
      /\ state[target] = "READY"
      /\ call[target] # "exit"
  BY DEF SwitchEnter, At, IInv, CurrentPart, TargetPart, Switching, ExitPart
<1>2. cpu \in Slot => state[cpu] # "RUNNING"
  BY <1>1, SchedulerAssumption DEF IInv, RunnerPart, ExitPart, Switching,
     TypeOK, Call
<1>3. Moves("return")
  BY MovesTo DEF PC, BootPoint, EntryPoint, SwitchEnter, IInv
<1>4. Sets(target, "RUNNING")
  BY <1>1, <1>2, <1>3, SetsTo DEF State, SwitchEnter, IInv
<1>5. /\ UNCHANGED call
      /\ cpu' = target /\ target' = NULL
      /\ UNCHANGED <<wakeup_tick, current_process, processes, process_count,
                     current, idle_process, need_resched,
                     scheduler_ticks, timer_ticks, i, next>>
  BY <1>1, <1>2, <1>3, <1>4, SchedulerAssumption DEF SwitchEnter,
     sched_vars, tick_vars, local_vars, IInv, TypeOK
<1>6. TypeOK'
  BY <1>1, <1>2, <1>3, <1>4, <1>5, SchedulerAssumption DEF IInv, TypeOK,
     Slot, State, Call, Moves, Sets
<1>7. BootPart'
  BY <1>1, <1>2, <1>3, <1>4, <1>5, SchedulerAssumption DEF IInv, BootPart,
     BootPoint, Switching, TypeOK, Moves, Sets
<1>8. ParkedPart'
  BY <1>1, <1>2, <1>3, <1>4, <1>5 DEF IInv, ParkedPart, Moves, Sets
<1>9. RunnerPart'
  BY <1>1, <1>2, <1>3, <1>4, <1>5, SchedulerAssumption DEF IInv, RunnerPart,
     BootPoint, Switching, Moves, Sets, ParkedPart
<1>10. CurrentPart'
  BY <1>1, <1>2, <1>3, <1>4, <1>5 DEF IInv, CurrentPart, Moves, ParkedPart
<1>11. TargetPart'
  BY <1>1, <1>2, <1>3, <1>4, <1>5, SchedulerAssumption DEF IInv, TargetPart,
     Switching, Moves, Sets, ParkedPart
<1>12. ExitPart'
  BY <1>1, <1>2, <1>3, <1>4, <1>5 DEF IInv, ExitPart, Sets
<1>13. IdlePart'
  BY <1>1, <1>2, <1>3, <1>4, <1>5, SchedulerAssumption DEF IInv, IdlePart,
     TypeOK, Moves, Sets, RunnerPart, Switching, ParkedPart
<1>14. QueuePart'
  BY <1>1, <1>2, <1>3, <1>4, <1>5, SchedulerAssumption DEF IInv, QueuePart,
     Booted, Removing, Alive, BootPoint, ExitPart, RunnerPart, TypeOK,
     Moves, Sets, ParkedPart
<1>15. QED
  BY <1>6, <1>7, <1>8, <1>9, <1>10, <1>11, <1>12, <1>13, <1>14 DEF IInv

LEMMA ReturnStep ==
  ASSUME IInv, Return
  PROVE  IInv'
<1>1. /\ cpu \in Slot
      /\ current_process = cpu
      /\ pc[cpu] = "return"
      /\ call[cpu] # "exit"
  BY SchedulerAssumption DEF Return, At, IInv, RunnerPart, CurrentPart,
     BootPart, BootPoint, Switching, TypeOK
<1>2. Home(cpu) = IF cpu = idle_process THEN "idle" ELSE "run"
  BY <1>1 DEF Home
<1>3. Moves(Home(cpu))
  BY <1>2, MovesTo DEF PC, EntryPoint, Return, IInv
<1>4. Calls("none")
  BY <1>1, <1>2, <1>3, CallsTo DEF Call, Return, IInv
<1>5. /\ UNCHANGED state
      /\ UNCHANGED <<wakeup_tick, current_process, processes, process_count,
                     current, idle_process, need_resched,
                     scheduler_ticks, timer_ticks, cpu, i, next,
                     target>>
  BY <1>1, <1>2, <1>3, <1>4, SchedulerAssumption DEF Return, sched_vars,
     tick_vars, local_vars, IInv, TypeOK
<1>6. TypeOK'
  BY <1>1, <1>2, <1>3, <1>4, <1>5, SchedulerAssumption DEF IInv, TypeOK,
     Slot, State, Call, Moves, Calls
<1>7. BootPart'
  BY <1>1, <1>2, <1>3, <1>4, <1>5, SchedulerAssumption DEF IInv, BootPart,
     BootPoint, Switching, TypeOK, Moves, Calls
<1>8. ParkedPart'
  BY <1>1, <1>2, <1>3, <1>4, <1>5 DEF IInv, ParkedPart, Moves, Calls
<1>9. RunnerPart'
  BY <1>1, <1>2, <1>3, <1>4, <1>5, SchedulerAssumption DEF IInv, RunnerPart,
     BootPoint, Switching, Moves, Calls
<1>10. CurrentPart'
  BY <1>1, <1>2, <1>3, <1>4, <1>5 DEF IInv, CurrentPart, Moves
<1>11. TargetPart'
  BY <1>1, <1>2, <1>3, <1>4, <1>5, SchedulerAssumption DEF IInv, TargetPart,
     Switching, Moves
<1>12. ExitPart'
  BY <1>1, <1>2, <1>3, <1>4, <1>5 DEF IInv, ExitPart, Calls
<1>13. IdlePart'
  BY <1>1, <1>2, <1>3, <1>4, <1>5, SchedulerAssumption DEF IInv, IdlePart,
     TypeOK, Moves, Calls
<1>14. QueuePart'
  BY <1>1, <1>2, <1>3, <1>4, <1>5, SchedulerAssumption DEF IInv, QueuePart,
     Booted, Removing, Alive, BootPoint, ExitPart, RunnerPart, TypeOK,
     Moves, Calls
<1>15. QED
  BY <1>6, <1>7, <1>8, <1>9, <1>10, <1>11, <1>12, <1>13, <1>14 DEF IInv

LEMMA IdleAgainStep ==
  ASSUME IInv, IdleAgain
  PROVE  IInv'
<1>1. /\ cpu \in Slot
      /\ current_process = cpu
      /\ pc[cpu] = "check"
  BY SchedulerAssumption DEF IdleAgain, At, IInv, RunnerPart, CurrentPart,
     BootPart, BootPoint, Switching, TypeOK
<1>2. Moves("idle")
  BY MovesTo DEF PC, BootPoint, EntryPoint, IdleAgain, IInv
<1>3. /\ UNCHANGED state
      /\ UNCHANGED call
      /\ UNCHANGED <<wakeup_tick, current_process, processes, process_count,
                     current, idle_process, need_resched,
                     scheduler_ticks, timer_ticks, cpu, i, next,
                     target>>
  BY <1>1, <1>2, SchedulerAssumption DEF IdleAgain, sched_vars, tick_vars,
     local_vars, IInv, TypeOK
<1>4. TypeOK'
  BY <1>1, <1>2, <1>3, SchedulerAssumption DEF IInv, TypeOK, Slot, State,
     Call, Moves
<1>5. BootPart'
  BY <1>1, <1>2, <1>3, SchedulerAssumption DEF IInv, BootPart, BootPoint,
     Switching, TypeOK, Moves
<1>6. ParkedPart'
  BY <1>1, <1>2, <1>3 DEF IInv, ParkedPart, Moves
<1>7. RunnerPart'
  BY <1>1, <1>2, <1>3, SchedulerAssumption DEF IInv, RunnerPart, BootPoint,
     Switching, Moves
<1>8. CurrentPart'
  BY <1>1, <1>2, <1>3 DEF IInv, CurrentPart, Moves
<1>9. TargetPart'
  BY <1>1, <1>2, <1>3, SchedulerAssumption DEF IInv, TargetPart, Switching,
     Moves
<1>10. ExitPart'
  BY <1>1, <1>2, <1>3 DEF IInv, ExitPart
<1>11. IdlePart'
  BY <1>1, <1>2, <1>3, SchedulerAssumption DEF IInv, IdlePart, TypeOK, Moves
<1>12. QueuePart'
  BY <1>1, <1>2, <1>3, SchedulerAssumption DEF IInv, QueuePart, Booted,
     Removing, Alive, BootPoint, ExitPart, RunnerPart, TypeOK, Moves
<1>13. QED
  BY <1>4, <1>5, <1>6, <1>7, <1>8, <1>9, <1>10, <1>11, <1>12 DEF IInv

LEMMA HaltStep ==
  ASSUME IInv, Halt
  PROVE  IInv'
<1>1. /\ cpu \in Slot
      /\ current_process = cpu
      /\ pc[cpu] = "idle"
  BY SchedulerAssumption DEF Halt, At, IInv, RunnerPart, CurrentPart,
     BootPart, BootPoint, Switching, TypeOK
<1>2. Moves("hlt")
  BY MovesTo DEF PC, BootPoint, EntryPoint, Halt, IInv
<1>3. /\ UNCHANGED state
      /\ UNCHANGED call
      /\ UNCHANGED <<wakeup_tick, current_process, processes, process_count,
                     current, idle_process, need_resched,
                     scheduler_ticks, timer_ticks, cpu, i, next,
                     target>>
  BY <1>1, <1>2, SchedulerAssumption DEF Halt, sched_vars, tick_vars,
     local_vars, IInv, TypeOK
<1>4. TypeOK'
  BY <1>1, <1>2, <1>3, SchedulerAssumption DEF IInv, TypeOK, Slot, State,
     Call, Moves
<1>5. BootPart'
  BY <1>1, <1>2, <1>3, SchedulerAssumption DEF IInv, BootPart, BootPoint,
     Switching, TypeOK, Moves
<1>6. ParkedPart'
  BY <1>1, <1>2, <1>3 DEF IInv, ParkedPart, Moves
<1>7. RunnerPart'
  BY <1>1, <1>2, <1>3, SchedulerAssumption DEF IInv, RunnerPart, BootPoint,
     Switching, Moves
<1>8. CurrentPart'
  BY <1>1, <1>2, <1>3 DEF IInv, CurrentPart, Moves
<1>9. TargetPart'
  BY <1>1, <1>2, <1>3, SchedulerAssumption DEF IInv, TargetPart, Switching,
     Moves
<1>10. ExitPart'
  BY <1>1, <1>2, <1>3 DEF IInv, ExitPart
<1>11. IdlePart'
  BY <1>1, <1>2, <1>3, SchedulerAssumption DEF IInv, IdlePart, TypeOK, Moves
<1>12. QueuePart'
  BY <1>1, <1>2, <1>3, SchedulerAssumption DEF IInv, QueuePart, Booted,
     Removing, Alive, BootPoint, ExitPart, RunnerPart, TypeOK, Moves
<1>13. QED
  BY <1>4, <1>5, <1>6, <1>7, <1>8, <1>9, <1>10, <1>11, <1>12 DEF IInv

LEMMA TickStep ==
  ASSUME IInv, Tick
  PROVE  IInv'
<1>1. pc[NULL] \notin BootPoint
  BY DEF Tick, InterruptsOn
<1>2. /\ pc' \in [Slot \cup {NULL} -> PC]
      /\ pc'[cpu] = IF pc[cpu] = "hlt" THEN "check" ELSE pc[cpu]
      /\ \A c \in Slot \cup {NULL} : c # cpu => pc'[c] = pc[c]
  BY DEF Tick, LeaveHlt, At, IInv, TypeOK, PC
<1>3. /\ state' \in [Slot -> State]
      /\ \A p \in Slot : state'[p] # state[p] =>
           state[p] = "BLOCKED" /\ state'[p] = "READY"
  BY DEF Tick, Due, IInv, TypeOK, State
<1>4. (timer_ticks + 1) % TickMod \in 0 .. TickMod - 1
  BY ModRange, SchedulerAssumption DEF IInv, TypeOK
<1>5. /\ timer_ticks' \in 0 .. TickMod - 1
      /\ scheduler_ticks' \in 0 .. TimeSlice - 1
      /\ need_resched' \in BOOLEAN
      /\ UNCHANGED call
      /\ UNCHANGED <<wakeup_tick, current_process, processes, process_count,
                     current, idle_process, cpu, i, next, target>>
  BY <1>1, <1>2, <1>3, <1>4, SchedulerAssumption DEF Tick, NextTick,
     SliceOver, Resched, sched_vars, tick_vars, local_vars, IInv, TypeOK
<1>6. TypeOK'
  BY <1>1, <1>2, <1>3, <1>4, <1>5, SchedulerAssumption DEF IInv, TypeOK,
     Slot, State, Call
<1>7. BootPart'
  BY <1>1, <1>2, <1>3, <1>4, <1>5, SchedulerAssumption DEF IInv, BootPart,
     BootPoint, Switching, TypeOK
<1>8. ParkedPart'
  BY <1>1, <1>2, <1>3, <1>4, <1>5 DEF IInv, ParkedPart
<1>9. RunnerPart'
  BY <1>1, <1>2, <1>3, <1>4, <1>5, SchedulerAssumption DEF IInv, RunnerPart,
     BootPoint, Switching, TypeOK
<1>10. CurrentPart'
  BY <1>1, <1>2, <1>3, <1>4, <1>5 DEF IInv, CurrentPart
<1>11. TargetPart'
  BY <1>1, <1>2, <1>3, <1>4, <1>5, SchedulerAssumption DEF IInv, TargetPart,
     Switching
<1>12. ExitPart'
  BY <1>1, <1>2, <1>3, <1>4, <1>5 DEF IInv, ExitPart
<1>13. IdlePart'
  BY <1>1, <1>2, <1>3, <1>4, <1>5, SchedulerAssumption DEF IInv, IdlePart,
     TypeOK
<1>14. QueuePart'
  BY <1>1, <1>2, <1>3, <1>4, <1>5, SchedulerAssumption DEF IInv, QueuePart,
     Booted, Removing, Alive, BootPoint, ExitPart, RunnerPart, TypeOK
<1>15. QED
  BY <1>6, <1>7, <1>8, <1>9, <1>10, <1>11, <1>12, <1>13, <1>14 DEF IInv

LEMMA OtherIrqStep ==
  ASSUME IInv, OtherIrq
  PROVE  IInv'
<1>1. /\ pc[NULL] \notin BootPoint
      /\ pc[cpu] = "hlt"
  BY DEF OtherIrq, InterruptsOn, At
<1>2. /\ pc' \in [Slot \cup {NULL} -> PC]
      /\ pc'[cpu] = IF pc[cpu] = "hlt" THEN "check" ELSE pc[cpu]
      /\ \A c \in Slot \cup {NULL} : c # cpu => pc'[c] = pc[c]
  BY DEF OtherIrq, LeaveHlt, At, IInv, TypeOK, PC
<1>3. /\ UNCHANGED state
      /\ UNCHANGED call
      /\ UNCHANGED <<wakeup_tick, current_process, processes, process_count,
                     current, idle_process, need_resched,
                     scheduler_ticks, timer_ticks, cpu, i, next,
                     target>>
  BY <1>1, <1>2, SchedulerAssumption DEF OtherIrq, sched_vars, tick_vars,
     local_vars, IInv, TypeOK
<1>4. TypeOK'
  BY <1>1, <1>2, <1>3, SchedulerAssumption DEF IInv, TypeOK, Slot, State,
     Call
<1>5. BootPart'
  BY <1>1, <1>2, <1>3, SchedulerAssumption DEF IInv, BootPart, BootPoint,
     Switching, TypeOK
<1>6. ParkedPart'
  BY <1>1, <1>2, <1>3 DEF IInv, ParkedPart
<1>7. RunnerPart'
  BY <1>1, <1>2, <1>3, SchedulerAssumption DEF IInv, RunnerPart, BootPoint,
     Switching
<1>8. CurrentPart'
  BY <1>1, <1>2, <1>3 DEF IInv, CurrentPart
<1>9. TargetPart'
  BY <1>1, <1>2, <1>3, SchedulerAssumption DEF IInv, TargetPart, Switching
<1>10. ExitPart'
  BY <1>1, <1>2, <1>3 DEF IInv, ExitPart
<1>11. IdlePart'
  BY <1>1, <1>2, <1>3, SchedulerAssumption DEF IInv, IdlePart, TypeOK
<1>12. QueuePart'
  BY <1>1, <1>2, <1>3, SchedulerAssumption DEF IInv, QueuePart, Booted,
     Removing, Alive, BootPoint, ExitPart, RunnerPart, TypeOK
<1>13. QED
  BY <1>4, <1>5, <1>6, <1>7, <1>8, <1>9, <1>10, <1>11, <1>12 DEF IInv

-----------------------------------------------------------------------------
(* The invariant and what follows from it.                                 *)

LEMMA InitIInv == Init => IInv
<1> SUFFICES ASSUME Init PROVE IInv
  OBVIOUS
<1>1. TypeOK
  <2>1. pc \in [Slot \cup {NULL} -> PC]
    BY DEF Init, PC, BootPoint, EntryPoint
  <2>2. /\ 0 \in Slot /\ 0 \in 0 .. MaxProcess
        /\ 0 \in 0 .. TickMod - 1 /\ 0 \in 0 .. TimeSlice - 1
    BY SchedulerAssumption DEF Slot
  <2>3. QED
    BY <2>1, <2>2 DEF Init, TypeOK, State, Call
<1>2. BootPart /\ ParkedPart /\ RunnerPart /\ CurrentPart
  BY SchedulerAssumption
     DEF Init, BootPart, ParkedPart, RunnerPart, CurrentPart, BootPoint
<1>3. TargetPart /\ ExitPart /\ IdlePart
  BY SchedulerAssumption DEF Init, TargetPart, ExitPart, IdlePart, Switching
<1>4. QueuePart
  BY SchedulerAssumption DEF Init, QueuePart, Removing, Booted, BootPoint
<1>5. QED
  BY <1>1, <1>2, <1>3, <1>4 DEF IInv

LEMMA NextIInv == IInv /\ [Next]_vars => IInv'
<1> SUFFICES ASSUME IInv, [Next]_vars PROVE IInv'
  OBVIOUS
<1>1. CASE Boot
  BY <1>1, CreateIdleStep, CreateTaskStep, scheduler_addStep,
     TasksCreatedStep, StartFirstStep DEF Boot
<1>2. CASE TaskCall
  BY <1>2, YieldClearStep, SleepDeadlineStep, ExitStep DEF TaskCall
<1>3. CASE Kernel
  BY <1>3, YieldReadyStep, SleepBlockStep, RemoveShiftStep, RemoveCountStep,
     ScanSkipStep, ScanPickStep, ScanIdleStep, ScanReturnStep,
     SwitchMarkStep, SwitchEnterStep, ReturnStep, HaltStep, IdleAgainStep
     DEF Kernel
<1>4. CASE Tick
  BY <1>4, TickStep
<1>5. CASE OtherIrq
  BY <1>5, OtherIrqStep
<1>6. CASE UNCHANGED vars
  BY <1>6 DEF vars, sched_vars, tick_vars, local_vars, IInv, TypeOK,
     BootPart, ParkedPart, RunnerPart, CurrentPart, TargetPart, ExitPart,
     IdlePart, QueuePart, Removing, Booted, Alive
<1>7. QED
  BY <1>1, <1>2, <1>3, <1>4, <1>5, <1>6 DEF Next

LEMMA Invariance == Spec => []IInv
  BY InitIInv, NextIInv, PTL DEF Spec

(* The steps that neither change a state field nor switch stacks.          *)
LEMMA OtherSteps ==
  ASSUME \/ \E p \in Slot : scheduler_add(p)
         \/ TasksCreated \/ StartFirst \/ YieldClear
         \/ \E n \in 0 .. MaxSleep : SleepDeadline(n)
         \/ RemoveShift \/ RemoveCount
         \/ ScanSkip \/ ScanPick \/ ScanIdle \/ ScanReturn
         \/ Return \/ Halt \/ IdleAgain \/ OtherIrq \/ UNCHANGED vars
  PROVE  UNCHANGED <<state, cpu>>
  BY DEF scheduler_add, TasksCreated, StartFirst, YieldClear, SleepDeadline,
     RemoveShift, RemoveCount, ScanSkip, ScanPick, ScanIdle, ScanReturn,
     Return, Halt, IdleAgain, OtherIrq, vars

(* Every index and every counter of the scheduler stays in its range, in   *)
(* particular the cursor of scheduler_schedule and the gap of              *)
(* scheduler_remove.                                                       *)
THEOREM TypeCorrect == Spec => []TypeOK
<1>1. IInv => TypeOK
  BY DEF IInv
<1>2. QED
  BY <1>1, Invariance, PTL

(* The timer interrupt finds every task that has not exited in the queue   *)
(* it walks, whichever statement it interrupts.                            *)
THEOREM QueueIsWhole == Spec => []WalkComplete
<1>1. IInv => WalkComplete
  BY SchedulerAssumption
     DEF IInv, QueuePart, WalkComplete, Queued, Alive, TypeOK
<1>2. QED
  BY <1>1, Invariance, PTL

(* process_switch resumes only contexts that were saved or never started.  *)
THEOREM SwitchesAreSafe == Spec => []SwitchTargetSaved
<1>1. IInv => SwitchTargetSaved
  BY DEF IInv, TargetPart, ParkedPart, SwitchTargetSaved, Switching,
     EntryPoint
<1>2. QED
  BY <1>1, Invariance, PTL

(* process_exit is final: no step of the kernel or of an interrupt revives *)
(* an exited process or goes back to its stack.                            *)
THEOREM ExitedStayExited == Spec => ExitIsFinal
<1>1. ASSUME IInv, [Next]_vars, NEW p \in Slot, state[p] = "EXITED"
      PROVE  state'[p] = "EXITED" /\ (cpu' = p => cpu = p)
  <2>1. CASE \E q \in Slot : CreateIdle(q) \/ CreateTask(q)
    BY <1>1, <2>1
       DEF CreateIdle, CreateTask, process_create_kernel, IInv, TypeOK
  <2>2. CASE YieldReady \/ SleepBlock
    <3>1. cpu \in Slot /\ current_process = cpu /\ call[cpu] # "exit"
      BY <1>1, <2>2, SchedulerAssumption
         DEF YieldReady, SleepBlock, At, IInv, TypeOK, BootPart, BootPoint,
             Switching, RunnerPart, CurrentPart
    <3>2. p # cpu
      BY <1>1, <3>1 DEF IInv, ExitPart
    <3>3. QED
      BY <1>1, <2>2, <3>1, <3>2 DEF YieldReady, SleepBlock, IInv, TypeOK
  <2>3. CASE Exit \/ SwitchMark
    BY <1>1, <2>3, SchedulerAssumption DEF Exit, SwitchMark, IInv, TypeOK
  <2>4. CASE SwitchEnter
    <3>1. target \in Slot /\ target # p
      BY <1>1, <2>4 DEF SwitchEnter, At, IInv, TargetPart, Switching
    <3>2. QED
      BY <1>1, <2>4, <3>1 DEF SwitchEnter, IInv, TypeOK
  <2>5. CASE Tick
    BY <1>1, <2>5 DEF Tick, Due
  <2>6. CASE UNCHANGED <<state, cpu>>
    BY <1>1, <2>6
  <2>7. QED
    BY <1>1, <2>1, <2>2, <2>3, <2>4, <2>5, <2>6, OtherSteps DEF Next, Boot,
       TaskCall, Kernel
<1>2. IInv /\ [Next]_vars =>
        [\A p \in Slot : state[p] = "EXITED" =>
           /\ state'[p] = "EXITED"
           /\ cpu' = p => cpu = p]_vars
  BY <1>1
<1>3. QED
  BY <1>2, Invariance, PTL DEF Spec, ExitIsFinal

-----------------------------------------------------------------------------
(* Scheduler implements CoopSched.                                         *)

LEMMA ModeIs ==
  /\ \A p \in Slot : Mode[p] = IF p = cpu THEN "running" ELSE ModeOf(state[p])
  /\ ModeOf("UNUSED") = "absent"
  /\ ModeOf("READY") = "ready"
  /\ ModeOf("RUNNING") = "running"
  /\ ModeOf("BLOCKED") = "asleep"
  /\ ModeOf("EXITED") = "gone"
  BY DEF Mode, ModeOf

(* A step that leaves the processor where it is, and no state but perhaps  *)
(* the holder's, is invisible to CoopSched but for the calls it makes.     *)
LEMMA ModeStays ==
  ASSUME cpu' = cpu, \A p \in Slot : p # cpu => state'[p] = state[p]
  PROVE  Mode' = Mode
  BY DEF Mode

LEMMA CreateMaps ==
  ASSUME IInv, NEW p \in Slot, CreateIdle(p) \/ CreateTask(p)
  PROVE  Coop!Create(p)
<1>1. /\ cpu = NULL /\ cpu' = cpu /\ call' = call
      /\ state[p] = "UNUSED" /\ state' = [state EXCEPT ![p] = "READY"]
  BY SchedulerAssumption
     DEF CreateIdle, CreateTask, process_create_kernel, At, IInv, BootPart,
         RunnerPart, BootPoint, TypeOK
<1>2. Mode[p] = "absent" /\ Mode'[p] = "ready"
  BY <1>1, SchedulerAssumption DEF Mode, ModeOf, IInv, TypeOK
<1>3. \A q \in Slot : q # p => Mode'[q] = Mode[q]
  BY <1>1 DEF Mode, IInv, TypeOK
<1>4. Mode' = [Mode EXCEPT ![p] = "ready"]
  BY <1>2, <1>3 DEF Mode
<1>5. QED
  BY <1>1, <1>2, <1>4 DEF Coop!Create

LEMMA AskMaps ==
  ASSUME IInv, NEW c \in {"yield", "sleep", "exit"},
         \/ c = "yield" /\ YieldClear
         \/ c = "sleep" /\ \E n \in 0 .. MaxSleep : SleepDeadline(n)
         \/ c = "exit" /\ Exit
  PROVE  Coop!Ask(c)
<1>1. cpu \in Slot /\ current_process = cpu /\ call[cpu] = "none"
  BY SchedulerAssumption
     DEF YieldClear, SleepDeadline, Exit, At, IInv, TypeOK, BootPart,
         BootPoint, Switching, RunnerPart, CurrentPart
<1>2. /\ cpu' = cpu /\ call' = [call EXCEPT ![cpu] = c]
      /\ \A p \in Slot : p # cpu => state'[p] = state[p]
  BY <1>1 DEF YieldClear, SleepDeadline, Exit, IInv, TypeOK
<1>3. QED
  BY <1>1, <1>2, ModeStays, SchedulerAssumption DEF Coop!Ask

LEMMA ReturnMaps ==
  ASSUME IInv, Return
  PROVE  Coop!Resume
<1>1. cpu \in Slot /\ call[cpu] # "exit"
  BY DEF Return, At, IInv, TypeOK, RunnerPart
<1>2. Mode' = Mode
  BY ModeStays DEF Return
<1>3. QED
  BY <1>1, <1>2, SchedulerAssumption DEF Coop!Resume, Return

LEMMA SwitchMaps ==
  ASSUME IInv, SwitchEnter
  PROVE  Coop!HandOver(target)
<1>1. /\ pc[cpu] = "enter"
      /\ target \in Slot \ {cpu} /\ state[target] = "READY"
      /\ cpu' = target /\ call' = call
      /\ state' = [state EXCEPT ![target] = "RUNNING"]
  BY DEF SwitchEnter, At, IInv, TargetPart, Switching
<1>2. Mode[target] = "ready" /\ Mode'[target] = "running"
  BY <1>1 DEF Mode, ModeOf
<1>3. \A q \in Slot : q # target /\ q # cpu => Mode'[q] = Mode[q]
  BY <1>1 DEF Mode, IInv, TypeOK
<1>4. CASE cpu = NULL
  <2>1. Mode' = [Mode EXCEPT ![target] = "running"]
    BY <1>1, <1>2, <1>3, <1>4, SchedulerAssumption DEF Mode
  <2>2. QED
    BY <1>1, <1>2, <1>4, <2>1 DEF Coop!HandOver
<1>5. CASE cpu # NULL
  <2>1. cpu \in Slot
    BY <1>5 DEF IInv, TypeOK
  <2>2. Mode'[cpu] = ModeOf(state[cpu])
    BY <1>1, <2>1 DEF Mode, IInv, TypeOK
  <2>3. \/ call[cpu] = "yield" /\ state[cpu] = "READY"
        \/ call[cpu] = "sleep" /\ state[cpu] \in {"READY", "BLOCKED"}
        \/ call[cpu] = "exit" /\ state[cpu] = "EXITED"
    BY <1>1, <2>1, <1>5
       DEF IInv, RunnerPart, ExitPart, Switching, TypeOK, Call
  <2>4. ModeOf(state[cpu]) \in Coop!Outcome(call[cpu])
    BY <2>3, ModeIs DEF Coop!Outcome
  <2>5. Mode' = [Mode EXCEPT ![target] = "running",
                            ![cpu] = ModeOf(state[cpu])]
    BY <1>1, <1>2, <1>3, <2>1, <2>2 DEF Mode
  <2>6. QED
    BY <1>1, <1>2, <1>5, <2>4, <2>5 DEF Coop!HandOver
<1>6. QED
  BY <1>4, <1>5

LEMMA TickMaps ==
  ASSUME IInv, Tick
  PROVE  Coop!Wake(Due \ {cpu})
<1>1. /\ cpu' = cpu /\ call' = call
      /\ state' = [p \in Slot |-> IF p \in Due THEN "READY" ELSE state[p]]
      /\ \A p \in Due : state[p] = "BLOCKED" /\ p \in Slot
  BY DEF Tick, Due
<1>2. \A p \in Slot : Mode'[p] = IF p \in Due \ {cpu} THEN "ready"
                                                  ELSE Mode[p]
  BY <1>1, ModeIs, ModeIs' DEF Mode
<1>3. Mode' = [p \in Slot |-> IF p \in Due \ {cpu} THEN "ready" ELSE Mode[p]]
  BY <1>2 DEF Mode
<1>4. \A p \in Due \ {cpu} : Mode[p] = "asleep"
  BY <1>1, ModeIs
<1>5. QED
  BY <1>1, <1>3, <1>4 DEF Coop!Wake

(* The remaining steps do not show in CoopSched.                           *)
LEMMA QuietSteps ==
  ASSUME IInv,
         \/ \E p \in Slot : scheduler_add(p)
         \/ TasksCreated \/ StartFirst
         \/ RemoveShift \/ RemoveCount
         \/ ScanSkip \/ ScanPick \/ ScanIdle \/ ScanReturn
         \/ Halt \/ IdleAgain \/ OtherIrq \/ UNCHANGED vars
         \/ YieldReady \/ SleepBlock \/ SwitchMark
  PROVE  UNCHANGED Coop!vars
<1>1. cpu' = cpu /\ call' = call
  BY DEF scheduler_add, TasksCreated, StartFirst, RemoveShift, RemoveCount,
     ScanSkip, ScanPick, ScanIdle, ScanReturn, Halt, IdleAgain, OtherIrq, vars,
     YieldReady, SleepBlock, SwitchMark
<1>2. ASSUME NEW p \in Slot, p # cpu PROVE state'[p] = state[p]
  <2>1. CASE YieldReady \/ SleepBlock \/ SwitchMark
    <3>1. current_process = cpu
      BY <2>1
         DEF YieldReady, SleepBlock, SwitchMark, At, IInv, CurrentPart
    <3>2. QED
      BY <1>2, <2>1, <3>1
         DEF YieldReady, SleepBlock, SwitchMark, IInv, TypeOK
  <2>2. QED
    BY <2>1, OtherSteps
<1>3. Mode' = Mode
  BY <1>1, <1>2, ModeStays
<1>4. QED
  BY <1>1, <1>3 DEF Coop!vars

(* The scheduler implements the cooperative protocol of CoopSched: the     *)
(* processor goes only from a task that asked to a task that is ready.     *)
THEOREM Refinement == Spec => ImplementsCoop
<1>1. Init => Coop!Init
  BY SchedulerAssumption DEF Init, Coop!Init, Mode, ModeOf
<1>2. ASSUME IInv, [Next]_vars
      PROVE  [Coop!Next]_(Coop!vars)
  <2>1. CASE \E p \in Slot : CreateIdle(p) \/ CreateTask(p)
    BY <1>2, <2>1, CreateMaps DEF Coop!Next
  <2>2. CASE TaskCall
    <3>1. \E c \in {"yield", "sleep", "exit"} : Coop!Ask(c)
      BY <1>2, <2>2, AskMaps DEF TaskCall
    <3>2. QED
      BY <3>1 DEF Coop!Next
  <2>3. CASE Return
    BY <1>2, <2>3, ReturnMaps DEF Coop!Next
  <2>4. CASE SwitchEnter
    <3>1. target \in Slot
      BY <1>2, <2>4 DEF SwitchEnter, At, IInv, TargetPart, Switching
    <3>2. QED
      BY <1>2, <2>4, <3>1, SwitchMaps DEF Coop!Next
  <2>5. CASE Tick
    <3>1. Due \ {cpu} \in SUBSET Slot
      BY DEF Due
    <3>2. QED
      BY <1>2, <2>5, <3>1, TickMaps DEF Coop!Next
  <2>6. CASE \/ \E p \in Slot : scheduler_add(p)
             \/ TasksCreated \/ StartFirst
             \/ RemoveShift \/ RemoveCount
             \/ ScanSkip \/ ScanPick \/ ScanIdle \/ ScanReturn
             \/ Halt \/ IdleAgain \/ OtherIrq \/ UNCHANGED vars
             \/ YieldReady \/ SleepBlock \/ SwitchMark
    BY <1>2, <2>6, QuietSteps
  <2>7. QED
    BY <1>2, <2>1, <2>2, <2>3, <2>4, <2>5, <2>6 DEF Next, Boot, Kernel
<1>3. QED
  BY <1>1, <1>2, Invariance, PTL DEF Spec, ImplementsCoop, Coop!Spec

-----------------------------------------------------------------------------
(* No wakeup is forgotten while the kernel looks for work and finds none.  *)

(* scheduler_schedule has looked at entry k                                *)
Visited(k) ==
  IF k <= next THEN next - k < i ELSE next - k + process_count < i

(* who is READY although it was passed over became so in the meantime      *)
ScanNews ==
  cpu # NULL /\ pc[cpu] = "scan" =>
    /\ i > 0 => next < process_count
    /\ \A k \in 0 .. process_count - 1 :
         Visited(k) /\ processes[k] # cpu /\ state[processes[k]] = "READY"
           => need_resched

(* so did a task that is going to sleep and is READY again                 *)
SleeperNews ==
  /\ cpu # NULL
  /\ pc[cpu] \in {"scan"} \cup Switching
  /\ call[cpu] = "sleep"
  /\ state[cpu] = "READY"
  => need_resched

(* the processor is given to idle, or idle is about to halt                *)
Idling ==
  /\ cpu # NULL
  /\ \/ pc[cpu] \in Switching /\ target = idle_process
     \/ cpu = idle_process /\ pc[cpu] \in {"return", "idle", "hlt", "check"}

IdleNews ==
  Idling => \A k \in 0 .. process_count - 1 :
              state[processes[k]] = "READY" =>
                need_resched \/ call[processes[k]] = "yield"

(* the boot code switches to a task                                        *)
FirstIsTask == cpu = NULL /\ pc[NULL] \in Switching => target # idle_process

NewsPart == ScanNews /\ SleeperNews /\ IdleNews /\ FirstIsTask

(* One turn of the loop in scheduler_schedule looks at one entry more.     *)
LEMMA VisitedGrows ==
  ASSUME TypeOK, i > 0 => next < process_count, i < process_count,
         next' = NextIndex, i' = i + 1, process_count' = process_count,
         NEW k \in 0 .. process_count - 1, Visited(k)'
  PROVE  k = NextIndex \/ Visited(k)
<1>1. /\ next \in Nat /\ i \in Nat /\ process_count \in Nat \ {0} /\ k \in Nat
      /\ k < process_count
  BY SchedulerAssumption DEF TypeOK, Slot
<1>2. NextIndex \in 0 .. process_count - 1
  BY <1>1, ModRange DEF NextIndex
<1>3. CASE i = 0
  BY <1>1, <1>2, <1>3 DEF Visited
<1>4. CASE i > 0
  <2>1. next < process_count
    BY <1>4
  <2>2. NextIndex = IF next + 1 < process_count THEN next + 1 ELSE 0
    <3> DEFINE n == process_count
               x == next + 1
    <3>1. x \in 0 .. n /\ n \in Nat \ {0}
      BY <1>1, <2>1
    <3>2. x % n = IF x < n THEN x ELSE 0
      <4> HIDE DEF n, x
      <4> QED
        BY <3>1, ModWraps
    <3> QED
      BY <3>2 DEF NextIndex
  <2> QED
    BY <1>1, <1>4, <2>1, <2>2 DEF Visited
<1> QED
  BY <1>1, <1>3, <1>4

(* When the scan is over it has looked at every entry.                     *)
LEMMA AllVisited ==
  ASSUME TypeOK, i > 0 => next < process_count, i >= process_count,
         NEW k \in 0 .. process_count - 1
  PROVE  Visited(k)
BY SchedulerAssumption DEF TypeOK, Slot, Visited

LEMMA QueuedIsSlot ==
  ASSUME IInv, NEW k \in 0 .. process_count - 1
  PROVE  processes[k] \in Slot \ {idle_process}
BY DEF IInv, QueuePart

(* A scan that begins has looked at nothing.                               *)
NothingVisited ==
  i = 0 => \A k \in 0 .. process_count - 1 : ~ Visited(k)

LEMMA NewScanIsBlank == TypeOK => NothingVisited
<1> SUFFICES ASSUME TypeOK PROVE NothingVisited
  OBVIOUS
<1>1. next \in Nat /\ process_count \in Nat
  BY SchedulerAssumption DEF TypeOK, Slot
<1> QED
  BY <1>1 DEF NothingVisited, Visited

LEMMA NewScan ==
  ASSUME TypeOK', i' = 0, cpu' \in Slot, pc'[cpu'] = "scan",
         (call'[cpu'] = "sleep" /\ state'[cpu'] = "READY") => need_resched'
  PROVE  NewsPart'
<1>1. NothingVisited'
  BY NewScanIsBlank, PTL
<1>2. ScanNews'
  BY <1>1 DEF ScanNews, NothingVisited
<1>3. SleeperNews'
  BY DEF SleeperNews
<1>4. IdleNews' /\ FirstIsTask'
  BY SchedulerAssumption DEF IdleNews, Idling, FirstIsTask, Switching
<1> QED
  BY <1>2, <1>3, <1>4 DEF NewsPart

(* Nothing is claimed of a task at work.                                   *)
LEMMA AtWork ==
  ASSUME cpu' \in Slot,
         \/ pc'[cpu'] \in {"yield", "sleep", "remove", "run", "halt"}
         \/ pc'[cpu'] = "return" /\ cpu' # idle_process'
  PROVE  NewsPart'
BY SchedulerAssumption
   DEF NewsPart, ScanNews, SleeperNews, IdleNews, Idling, FirstIsTask, Switching

LEMMA NewsBoot ==
  ASSUME IInv, NewsPart, Boot
  PROVE  NewsPart'
<1>1. cpu = NULL
  BY SchedulerAssumption
     DEF Boot, CreateIdle, CreateTask, scheduler_add, TasksCreated, StartFirst,
         At, IInv, RunnerPart, BootPoint
<1>2. cpu' = NULL
  BY <1>1 DEF Boot, CreateIdle, CreateTask, process_create_kernel, scheduler_add,
     TasksCreated, StartFirst
<1>3. FirstIsTask'
  <2>1. CASE StartFirst
    <3>1. process_count \in Nat /\ process_count > 0
      BY <2>1 DEF StartFirst, IInv, TypeOK
    <3>2. 0 \in 0 .. process_count - 1
      BY <3>1
    <3>3. target' # idle_process'
      BY <2>1, <3>2, QueuedIsSlot DEF StartFirst, sched_vars
    <3> QED
      BY <3>3 DEF FirstIsTask
  <2>2. CASE ~ StartFirst
    <3>1. pc'[NULL] \in BootPoint
      BY <1>1, <2>2, SchedulerAssumption
         DEF Boot, CreateIdle, CreateTask, process_create_kernel, scheduler_add,
             TasksCreated, At, Goto, IInv, TypeOK, BootPoint
    <3> QED
      BY <3>1 DEF FirstIsTask, BootPoint, Switching
  <2> QED
    BY <2>1, <2>2
<1> QED
  BY <1>2, <1>3 DEF NewsPart, ScanNews, SleeperNews, IdleNews, Idling

LEMMA NewsCalls ==
  ASSUME IInv, IInv', NewsPart,
         \/ TaskCall \/ YieldReady \/ SleepBlock \/ RemoveShift \/ RemoveCount
         \/ Return \/ Halt \/ IdleAgain
  PROVE  NewsPart'
<1>1. cpu \in Slot /\ cpu' = cpu
  <2>1. cpu' = cpu
    BY DEF TaskCall, YieldClear, SleepDeadline, Exit, YieldReady, SleepBlock,
       RemoveShift, RemoveCount, Return, Halt, IdleAgain
  <2>2. \/ pc[cpu] \in {"run", "idle", "check", "yield", "sleep", "remove"}
        \/ cpu # NULL
    BY DEF TaskCall, YieldClear, SleepDeadline, Exit, YieldReady, SleepBlock,
       RemoveShift, RemoveCount, Return, Halt, IdleAgain, At
  <2>3. cpu # NULL
    BY <2>2 DEF IInv, BootPart, BootPoint, Switching
  <2> QED
    BY <2>1, <2>3 DEF IInv, TypeOK
<1> USE <1>1
<1>2. CASE YieldClear
  <2>1. Moves("yield")
    BY <1>2, MovesTo DEF YieldClear, IInv, PC
  <2> QED
    BY <2>1, AtWork DEF Moves
<1>3. CASE \E n \in 0 .. MaxSleep : SleepDeadline(n)
  <2>1. Moves("sleep")
    BY <1>3, MovesTo DEF SleepDeadline, IInv, PC
  <2> QED
    BY <2>1, AtWork DEF Moves
<1>4. CASE Exit
  <2>1. Calls("exit")
    BY <1>4, CallsTo DEF Exit, IInv, Call
  <2>2. CASE Goto("remove")
    <3>1. Moves("remove")
      BY <2>2, MovesTo DEF IInv, PC
    <3> QED
      BY <3>1, AtWork DEF Moves
  <2>3. CASE StartScan
    <3>1. Moves("scan") /\ i' = 0
      BY <2>3, MovesTo DEF StartScan, IInv, PC
    <3> QED
      BY <2>1, <3>1, NewScan DEF Moves, Calls, IInv
  <2> QED
    BY <1>4, <2>2, <2>3 DEF Exit
<1>5. CASE YieldReady
  <2>1. Moves("scan") /\ i' = 0 /\ call' = call
    BY <1>5, MovesTo DEF YieldReady, StartScan, IInv, PC
  <2>2. call[cpu] = "yield"
    BY <1>5, SchedulerAssumption DEF YieldReady, At, IInv, RunnerPart
  <2> QED
    BY <2>1, <2>2, NewScan DEF Moves, IInv
<1>6. CASE SleepBlock
  <2>1. Moves("scan") /\ i' = 0
    BY <1>6, MovesTo DEF SleepBlock, StartScan, IInv, PC
  <2>2. current_process = cpu
    BY <1>6 DEF SleepBlock, At, IInv, CurrentPart
  <2>3. state'[cpu] = "BLOCKED"
    BY <1>6, <2>2 DEF SleepBlock, IInv, TypeOK
  <2> QED
    BY <2>1, <2>3, NewScan DEF Moves, IInv
<1>7. CASE RemoveShift
  BY <1>7, AtWork DEF RemoveShift, At
<1>8. CASE RemoveCount
  <2>1. Moves("scan") /\ i' = 0 /\ call' = call
    BY <1>8, MovesTo DEF RemoveCount, StartScan, IInv, PC
  <2>2. call[cpu] = "exit"
    BY <1>8, SchedulerAssumption DEF RemoveCount, At, IInv, RunnerPart
  <2> QED
    BY <2>1, <2>2, NewScan DEF Moves, IInv
<1>9. CASE Return \/ Halt \/ IdleAgain
  <2>1. /\ UNCHANGED <<state, processes, process_count, idle_process, need_resched>>
        /\ \A p \in Slot \ {cpu} : call'[p] = call[p]
        /\ pc[cpu] \in {"return", "idle", "check"}
    BY <1>9 DEF Return, Halt, IdleAgain, At, sched_vars, tick_vars, IInv, TypeOK
  <2>2. CASE cpu = idle_process
    <3>1. Idling
      BY <2>1, <2>2, SchedulerAssumption DEF Idling
    <3>2. \A k \in 0 .. process_count' - 1 :
            /\ processes'[k] = processes[k]
            /\ state'[processes'[k]] = state[processes[k]]
            /\ call'[processes'[k]] = call[processes[k]]
      BY <2>1, <2>2, QueuedIsSlot
    <3>3. IdleNews'
      BY <2>1, <3>1, <3>2 DEF NewsPart, IdleNews
    <3>4. pc'[cpu] \in {"idle", "hlt", "halt"}
      BY <1>9, <2>2 DEF Return, Halt, IdleAgain, Goto, Home, IInv, TypeOK
    <3> QED
      BY <3>3, <3>4, SchedulerAssumption
         DEF NewsPart, ScanNews, SleeperNews, FirstIsTask, Switching
  <2>3. CASE cpu # idle_process
    <3>1. Return
      BY <1>9, <2>3 DEF Halt, IdleAgain, At, IInv, IdlePart
    <3>2. pc'[cpu] \in {"run", "halt"}
      BY <2>3, <3>1 DEF Return, Goto, Home, IInv, TypeOK
    <3> QED
      BY <3>2, AtWork
  <2> QED
    BY <2>2, <2>3
<1> QED
  BY <1>2, <1>3, <1>4, <1>5, <1>6, <1>7, <1>8, <1>9 DEF TaskCall

LEMMA NewsScan ==
  ASSUME IInv, IInv', NewsPart, ScanSkip \/ ScanPick \/ ScanIdle \/ ScanReturn
  PROVE  NewsPart'
<1>1. /\ pc[cpu] = "scan" /\ cpu' = cpu
      /\ UNCHANGED <<state, call, processes, process_count, idle_process,
                     need_resched>>
  BY DEF ScanSkip, ScanPick, ScanIdle, ScanReturn, At, sched_vars, tick_vars
<1>2. cpu \in Slot /\ current_process = cpu
  BY <1>1 DEF IInv, BootPart, BootPoint, Switching, TypeOK, CurrentPart
<1>3. /\ i > 0 => next < process_count
      /\ \A k \in 0 .. process_count - 1 :
           Visited(k) /\ processes[k] # cpu /\ state[processes[k]] = "READY"
             => need_resched
      /\ call[cpu] = "sleep" /\ state[cpu] = "READY" => need_resched
  BY <1>1, <1>2, SchedulerAssumption DEF NewsPart, ScanNews, SleeperNews
<1>4. CASE ScanSkip
  <2>1. /\ i' = i + 1 /\ next' = NextIndex /\ i < process_count /\ pc' = pc
        /\ ~ Eligible(processes[NextIndex])
    BY <1>4 DEF ScanSkip
  <2>2. next' < process_count'
    BY <1>1, <2>1, ModRange, SchedulerAssumption DEF NextIndex, IInv, TypeOK, Slot
  <2>3. ASSUME NEW k \in 0 .. process_count' - 1, Visited(k)',
               processes'[k] # cpu', state'[processes'[k]] = "READY"
        PROVE  need_resched'
    <3>1. k = NextIndex \/ Visited(k)
      BY <1>1, <1>3, <2>1, <2>3, VisitedGrows DEF IInv
    <3>2. k # NextIndex
      BY <1>1, <1>2, <2>1, <2>3 DEF Eligible
    <3> QED
      BY <1>1, <1>3, <2>3, <3>1, <3>2
  <2>4. ScanNews'
    BY <2>2, <2>3 DEF ScanNews
  <2> QED
    BY <1>1, <1>2, <1>3, <2>1, <2>4, SchedulerAssumption
       DEF NewsPart, SleeperNews, IdleNews, Idling, FirstIsTask, Switching
<1>5. CASE ScanPick
  <2>1. Moves("mark")
    BY <1>5, MovesTo DEF ScanPick, LeaveScan, IInv, PC
  <2>2. NextIndex \in 0 .. process_count - 1
    <3>1. i < process_count /\ i \in Nat /\ process_count \in Nat /\ next \in Nat
      BY <1>5, SchedulerAssumption DEF ScanPick, IInv, TypeOK, Slot
    <3>2. process_count \in Nat \ {0} /\ next + 1 \in Nat
      BY <3>1
    <3> QED
      BY <3>2, ModRange DEF NextIndex
  <2>3. target' # idle_process'
    BY <1>1, <1>5, <2>2, QueuedIsSlot DEF ScanPick
  <2> QED
    BY <1>1, <1>2, <1>3, <2>1, <2>3, SchedulerAssumption
       DEF Moves, NewsPart, ScanNews, SleeperNews, IdleNews, Idling, FirstIsTask
<1>6. CASE ScanIdle \/ ScanReturn
  <2>1. i >= process_count
    BY <1>6 DEF ScanIdle, ScanReturn
  <2>2. \A k \in 0 .. process_count - 1 :
          processes[k] # cpu /\ state[processes[k]] = "READY" => need_resched
    BY <1>3, <2>1, AllVisited DEF IInv
  <2>3. state[cpu] = "READY" => need_resched \/ call[cpu] = "yield"
    BY <1>1, <1>2, <1>3, SchedulerAssumption
       DEF IInv, RunnerPart, ExitPart, TypeOK, Call
  <2>4. IdleNews'
    BY <1>1, <2>2, <2>3 DEF IdleNews
  <2>5. pc'[cpu] \in {"mark", "return"}
    BY <1>6 DEF ScanIdle, ScanReturn, LeaveScan, Goto, IInv, TypeOK
  <2> QED
    BY <1>1, <1>2, <1>3, <2>4, <2>5, SchedulerAssumption
       DEF NewsPart, ScanNews, SleeperNews, FirstIsTask
<1> QED
  BY <1>4, <1>5, <1>6

LEMMA NewsSwitch ==
  ASSUME IInv, IInv', NewsPart, SwitchMark \/ SwitchEnter
  PROVE  NewsPart'
<1>1. /\ pc[cpu] \in Switching
      /\ UNCHANGED <<call, processes, process_count, idle_process, need_resched>>
      /\ cpu \in Slot \cup {NULL}
  BY DEF SwitchMark, SwitchEnter, At, sched_vars, tick_vars, Switching, IInv,
     TypeOK
<1>2. CASE SwitchMark
  <2>1. Moves("enter") /\ cpu' = cpu /\ target' = target
    BY <1>2, MovesTo DEF SwitchMark, local_vars, IInv, PC
  <2>2. state' = state
    BY <1>1, <1>2, SchedulerAssumption
       DEF SwitchMark, At, IInv, CurrentPart, RunnerPart, ExitPart, TypeOK, Call,
           Switching
  <2>3. pc'[cpu'] \in Switching /\ pc'[cpu'] # "scan"
    BY <1>1, <2>1 DEF Moves, Switching
  <2>4. Idling' => Idling
    BY <1>1, <2>1, <2>3 DEF Idling, Moves, Switching
  <2>5. IdleNews'
    BY <1>1, <2>2, <2>4 DEF NewsPart, IdleNews
  <2>6. SleeperNews'
    BY <1>1, <2>1, <2>2 DEF NewsPart, SleeperNews
  <2>7. FirstIsTask' /\ ScanNews'
    BY <1>1, <2>1, <2>3 DEF NewsPart, FirstIsTask, ScanNews
  <2> QED
    BY <2>5, <2>6, <2>7 DEF NewsPart
<1>3. CASE SwitchEnter
  <2>1. /\ target \in Slot /\ target # cpu /\ cpu' = target
        /\ state' = [state EXCEPT ![target] = "RUNNING"]
    BY <1>1, <1>3, SchedulerAssumption DEF SwitchEnter, IInv, TargetPart
  <2>2. pc'[target] = pc[target] /\ pc[target] \in {"run", "idle", "return"}
    BY <1>1, <1>3, <2>1 DEF SwitchEnter, Goto, IInv, TypeOK, ParkedPart
  <2>3. CASE target = idle_process
    <3>1. Idling
      BY <1>1, <2>1, <2>3 DEF Idling, NewsPart, FirstIsTask
    <3>2. \A k \in 0 .. process_count' - 1 :
            /\ processes'[k] = processes[k]
            /\ state'[processes'[k]] = state[processes[k]]
            /\ call'[processes'[k]] = call[processes[k]]
      BY <1>1, <2>1, <2>3, QueuedIsSlot DEF IInv, TypeOK
    <3>3. IdleNews'
      BY <1>1, <3>1, <3>2 DEF NewsPart, IdleNews
    <3> QED
      BY <2>1, <2>2, <3>3, SchedulerAssumption
         DEF NewsPart, ScanNews, SleeperNews, FirstIsTask, Switching
  <2>4. CASE target # idle_process
    <3>1. pc'[target] # "idle"
      BY <2>1, <2>2, <2>4 DEF IInv, IdlePart
    <3> QED
      BY <1>1, <2>1, <2>2, <2>4, <3>1, AtWork
  <2> QED
    BY <2>3, <2>4
<1> QED
  BY <1>2, <1>3

LEMMA NewsInterrupt ==
  ASSUME IInv, IInv', NewsPart, Tick \/ OtherIrq
  PROVE  NewsPart'
<1>1. /\ UNCHANGED <<call, processes, process_count, idle_process, cpu, i, next,
                     target>>
      /\ LeaveHlt
      /\ need_resched => need_resched'
  BY DEF Tick, OtherIrq, sched_vars, tick_vars, local_vars, Resched, IInv,
     TypeOK
<1>2. \A p \in Slot : state'[p] = "READY" => state[p] = "READY" \/ need_resched'
  BY DEF Tick, OtherIrq, Due, Resched, IInv, TypeOK
<1>3. \/ pc'[cpu] = pc[cpu]
      \/ pc[cpu] = "hlt" /\ pc'[cpu] = "check"
  BY <1>1 DEF LeaveHlt, At, IInv, TypeOK
<1>4. \A k \in 0 .. process_count - 1 :
        state'[processes[k]] = "READY" => state[processes[k]] = "READY" \/ need_resched'
  BY <1>2, QueuedIsSlot
<1>5. ScanNews'
  BY <1>1, <1>3, <1>4 DEF NewsPart, ScanNews, Visited
<1>6. SleeperNews'
  BY <1>1, <1>2, <1>3 DEF NewsPart, SleeperNews, Switching, IInv, TypeOK
<1>7. IdleNews'
  <2>1. Idling' => Idling
    BY <1>1, <1>3 DEF Idling, Switching
  <2> QED
    BY <1>1, <1>4, <2>1 DEF NewsPart, IdleNews
<1>8. FirstIsTask'
  BY <1>1, <1>3, SchedulerAssumption DEF NewsPart, FirstIsTask, Switching
<1> QED
  BY <1>5, <1>6, <1>7, <1>8 DEF NewsPart

LEMMA NewsKept == IInv /\ IInv' /\ NewsPart /\ [Next]_vars => NewsPart'
<1> SUFFICES ASSUME IInv, IInv', NewsPart, [Next]_vars PROVE NewsPart'
  OBVIOUS
<1>1. CASE Kernel
  BY <1>1, NewsCalls, NewsScan, NewsSwitch DEF Kernel
<1>2. CASE UNCHANGED vars
  BY <1>2 DEF vars, sched_vars, tick_vars, local_vars, NewsPart, ScanNews,
     Visited, SleeperNews, IdleNews, Idling, FirstIsTask
<1> QED
  BY <1>1, <1>2, NewsBoot, NewsCalls, NewsInterrupt DEF Next

(* Whoever is READY when idle_task is about to halt, or halted, with       *)
(* need_resched clear gave the processor up by itself.                     *)
LEMMA ReadyIsKnown == NewsPart => IdleKnowsReady
  BY DEF NewsPart, IdleNews, Idling, IdleKnowsReady, At, Queued

-----------------------------------------------------------------------------
(* The naps: SchedulerNaps.                                                *)

(* Nobody is BLOCKED but inside process_sleep, and on the processor only   *)
(* on the way out of it.                                                   *)
AwakePart ==
  /\ \A p \in Slot : state[p] = "BLOCKED" => call[p] = "sleep"
  /\ cpu # NULL /\ pc[cpu] \in {"return", "run", "idle", "hlt", "check", "yield", "sleep"}
       => state[cpu] # "BLOCKED"

(* What wakeup_tick says of a nap that has not wrapped.                    *)
Promise(p) ==
  /\ nap[p].start \in 0 .. timer_ticks
  /\ nap[p].want \in Nat
  /\ wakeup_tick[p] = nap[p].start + nap[p].want

NapShape == nap \in [Slot -> [start : Nat, want : Nat, wrapped : BOOLEAN]]

PromisePart ==
  \A p \in Slot : call[p] = "sleep" /\ ~ nap[p].wrapped => Promise(p)

NapPart == AwakePart /\ NapShape /\ PromisePart

LEMMA AtKernel ==
  ASSUME IInv, pc[cpu] \notin BootPoint \cup Switching
  PROVE  cpu \in Slot /\ cpu # NULL /\ current_process = cpu
BY SchedulerAssumption DEF IInv, TypeOK, BootPart, CurrentPart, Switching

LEMMA AwakeBoot ==
  ASSUME IInv, AwakePart, Boot
  PROVE  AwakePart'
<1>1. cpu = NULL
  BY SchedulerAssumption
     DEF Boot, CreateIdle, CreateTask, process_create_kernel, scheduler_add,
         TasksCreated, StartFirst, At, IInv, BootPart, RunnerPart, BootPoint
<1>2. cpu' = NULL /\ call' = call
  BY <1>1 DEF Boot, CreateIdle, CreateTask, process_create_kernel,
     scheduler_add, TasksCreated, StartFirst
<1>3. \A p \in Slot : state'[p] = "BLOCKED" => state[p] = "BLOCKED"
  BY DEF Boot, CreateIdle, CreateTask, process_create_kernel,
     scheduler_add, TasksCreated, StartFirst, IInv, TypeOK
<1> QED
  BY <1>2, <1>3 DEF AwakePart

LEMMA AwakeCalls ==
  ASSUME IInv, AwakePart, TaskCall \/ YieldReady \/ SleepBlock
  PROVE  AwakePart'
<1>1. pc[cpu] \in {"run", "check", "yield", "sleep"}
  BY DEF TaskCall, YieldClear, SleepDeadline, Exit, YieldReady, SleepBlock, At
<1>2. cpu \in Slot /\ cpu # NULL /\ current_process = cpu
  BY <1>1, AtKernel DEF BootPoint, Switching
<1>3. cpu' = cpu /\ state[cpu] # "BLOCKED"
  BY <1>1, <1>2 DEF AwakePart, TaskCall, YieldClear, SleepDeadline, Exit,
     YieldReady, SleepBlock
<1>4. CASE YieldClear \/ \E n \in 0 .. MaxSleep : SleepDeadline(n)
  <2>1. state' = state /\ \A p \in Slot \ {cpu} : call'[p] = call[p]
    BY <1>4 DEF YieldClear, SleepDeadline, IInv, TypeOK
  <2> QED
    BY <1>3, <2>1 DEF AwakePart
<1>5. CASE Exit \/ YieldReady
  <2>1. /\ state'[cpu] # "BLOCKED"
        /\ \A p \in Slot \ {cpu} : state'[p] = state[p] /\ call'[p] = call[p]
    BY <1>2, <1>5 DEF Exit, YieldReady, IInv, TypeOK
  <2> QED
    BY <1>3, <2>1 DEF AwakePart
<1>6. CASE SleepBlock
  <2>1. /\ call' = call /\ call[cpu] = "sleep" /\ pc'[cpu] = "scan"
        /\ \A p \in Slot \ {cpu} : state'[p] = state[p]
    BY <1>2, <1>6 DEF SleepBlock, StartScan, Goto, At, IInv, TypeOK, RunnerPart
  <2> QED
    BY <1>2, <1>3, <2>1 DEF AwakePart
<1> QED
  BY <1>4, <1>5, <1>6 DEF TaskCall

LEMMA AwakeScan ==
  ASSUME IInv, AwakePart,
         \/ RemoveShift \/ RemoveCount
         \/ ScanSkip \/ ScanPick \/ ScanIdle \/ ScanReturn
  PROVE  AwakePart'
<1>1. pc[cpu] \in {"remove", "scan"} /\ UNCHANGED <<state, call, cpu>>
  BY DEF RemoveShift, RemoveCount, ScanSkip, ScanPick, ScanIdle, ScanReturn, At
<1>2. cpu \in Slot /\ cpu # NULL /\ current_process = cpu
  BY <1>1, AtKernel DEF BootPoint, Switching
<1>3. CASE ScanReturn
  <2>1. idle_process # NULL
    BY <1>2, SchedulerAssumption DEF IInv, BootPart
  <2>2. cpu = idle_process
    BY <1>2, <1>3, <2>1 DEF ScanReturn
  <2>3. state[cpu] # "BLOCKED"
    BY <2>1, <2>2 DEF IInv, IdlePart
  <2> QED
    BY <1>1, <2>3 DEF AwakePart
<1>4. CASE ~ ScanReturn
  <2>1. pc'[cpu] \in {"remove", "scan", "mark"}
    BY <1>1, <1>2, <1>4
       DEF RemoveShift, RemoveCount, ScanSkip, ScanPick, ScanIdle, StartScan,
           LeaveScan, Goto, IInv, TypeOK
  <2> QED
    BY <1>1, <2>1 DEF AwakePart
<1> QED
  BY <1>3, <1>4

LEMMA AwakeSwitch ==
  ASSUME IInv, AwakePart, SwitchMark \/ SwitchEnter \/ Return \/ Halt \/ IdleAgain
  PROVE  AwakePart'
<1>1. CASE SwitchMark
  <2>1. /\ UNCHANGED <<call, cpu>>
        /\ pc' = [pc EXCEPT ![cpu] = "enter"]
    BY <1>1 DEF SwitchMark, Goto
  <2>2. pc'[cpu] = "enter"
    BY <2>1 DEF IInv, TypeOK
  <2>3. \A p \in Slot : state'[p] = "BLOCKED" => state[p] = "BLOCKED"
    BY <1>1 DEF SwitchMark, IInv, TypeOK
  <2> QED
    BY <2>1, <2>2, <2>3 DEF AwakePart
<1>2. CASE SwitchEnter
  <2>1. target \in Slot
    BY <1>2 DEF SwitchEnter, At, IInv, TargetPart, Switching
  <2>2. /\ call' = call /\ cpu' = target
        /\ state'[target] = "RUNNING"
        /\ \A p \in Slot \ {target} : state'[p] = state[p]
    BY <1>2, <2>1 DEF SwitchEnter, IInv, TypeOK
  <2> QED
    BY <2>1, <2>2 DEF AwakePart
<1>3. CASE Return \/ Halt \/ IdleAgain
  <2>1. pc[cpu] \in {"return", "idle", "check"} /\ UNCHANGED <<state, cpu>>
    BY <1>3 DEF Return, Halt, IdleAgain, At
  <2>2. cpu \in Slot /\ cpu # NULL
    BY <2>1, AtKernel DEF BootPoint, Switching
  <2>3. state[cpu] # "BLOCKED"
    BY <2>1, <2>2 DEF AwakePart
  <2>4. \A p \in Slot \ {cpu} : call'[p] = call[p]
    BY <1>3 DEF Return, Halt, IdleAgain, IInv, TypeOK
  <2> QED
    BY <2>1, <2>3, <2>4 DEF AwakePart
<1> QED
  BY <1>1, <1>2, <1>3

LEMMA AwakeInterrupt ==
  ASSUME IInv, AwakePart, Tick \/ OtherIrq
  PROVE  AwakePart'
<1>1. UNCHANGED <<call, cpu>> /\ LeaveHlt
  BY DEF Tick, OtherIrq
<1>2. \A p \in Slot : state'[p] = "BLOCKED" => state[p] = "BLOCKED"
  BY DEF Tick, OtherIrq, IInv, TypeOK
<1>3. pc'[cpu] = pc[cpu] \/ pc[cpu] = "hlt"
  BY <1>1 DEF LeaveHlt, At
<1>4. cpu # NULL => cpu \in Slot
  BY DEF IInv, TypeOK
<1> QED
  BY <1>1, <1>2, <1>3, <1>4 DEF AwakePart

LEMMA AwakeKept == IInv /\ AwakePart /\ [Next]_vars => AwakePart'
<1> SUFFICES ASSUME IInv, AwakePart, [Next]_vars PROVE AwakePart'
  OBVIOUS
<1>1. CASE Kernel
  BY <1>1, AwakeCalls, AwakeScan, AwakeSwitch DEF Kernel
<1>2. CASE UNCHANGED vars
  BY <1>2 DEF vars, AwakePart
<1> QED
  BY <1>1, <1>2, AwakeBoot, AwakeCalls, AwakeInterrupt DEF Next

(* Only process_sleep enters a nap, and only with its deadline; all other  *)
(* steps leave the deadlines of sleepers and the time alone, but for Tick. *)
LEMMA SleepersStay ==
  ASSUME IInv, Boot \/ YieldClear \/ Exit \/ Kernel \/ OtherIrq
  PROVE  /\ timer_ticks' = timer_ticks
         /\ \A p \in Slot : call'[p] = "sleep" =>
              call[p] = "sleep" /\ wakeup_tick'[p] = wakeup_tick[p]
<1>1. CASE \E q \in Slot : CreateIdle(q) \/ CreateTask(q)
  BY <1>1 DEF CreateIdle, CreateTask, process_create_kernel, tick_vars, IInv,
     TypeOK, BootPart
<1>2. CASE YieldClear \/ Exit \/ Return
  BY <1>2, AtKernel DEF YieldClear, Exit, Return, At, tick_vars, IInv, TypeOK
<1>3. CASE UNCHANGED <<call, wakeup_tick, timer_ticks>>
  BY <1>3
<1>4. ASSUME \/ \E q \in Slot : scheduler_add(q)
             \/ TasksCreated \/ StartFirst
             \/ YieldReady \/ SleepBlock \/ RemoveShift \/ RemoveCount
             \/ ScanSkip \/ ScanPick \/ ScanIdle \/ ScanReturn
             \/ SwitchMark \/ SwitchEnter \/ Halt \/ IdleAgain \/ OtherIrq
      PROVE  UNCHANGED <<call, wakeup_tick, timer_ticks>>
  BY <1>4 DEF scheduler_add, TasksCreated, StartFirst, YieldReady, SleepBlock,
     RemoveShift, RemoveCount, ScanSkip, ScanPick, ScanIdle, ScanReturn,
     SwitchMark, SwitchEnter, Halt, IdleAgain, OtherIrq, tick_vars
<1> QED
  BY <1>1, <1>2, <1>3, <1>4 DEF Boot, Kernel

Others == /\ Boot \/ YieldClear \/ Exit \/ Kernel \/ OtherIrq
          /\ nap' = [p \in Slot |-> IF call'[p] = "sleep" THEN nap[p] ELSE NoNap]

Doze(n) ==
  /\ SleepDeadline(n)
  /\ nap' = [nap EXCEPT ![cpu] = [start   |-> timer_ticks,
                                  want    |-> n,
                                  wrapped |-> timer_ticks + n >= TickMod]]

NapTick ==
  /\ Tick
  /\ nap' = [p \in Slot |-> IF call[p] = "sleep" /\ NextTick = 0
                            THEN [nap[p] EXCEPT !.wrapped = TRUE]
                            ELSE nap[p]]

LEMMA NapSteps == NapNext => Others \/ NapTick \/ \E n \in 0 .. MaxSleep : Doze(n)
  BY DEF NapNext, Others, NapTick, Doze

LEMMA NapIsStep == [NapNext]_<<vars, nap>> => [Next]_vars
  BY DEF NapNext, Next, TaskCall

LEMMA TickWraps ==
  \A x \in 0 .. TickMod : x % TickMod = IF x < TickMod THEN x ELSE 0
  BY SchedulerAssumption, ModWraps

(* The next tick is one later, or zero.                                    *)
LEMMA TimeGoesOn ==
  ASSUME TypeOK
  PROVE  /\ timer_ticks \in Nat /\ NextTick \in Nat
         /\ NextTick = timer_ticks + 1 \/ NextTick = 0
<1>1. timer_ticks + 1 \in 0 .. TickMod /\ TickMod \in Nat \ {0}
  BY SchedulerAssumption DEF TypeOK
<1>2. NextTick = IF timer_ticks + 1 < TickMod THEN timer_ticks + 1 ELSE 0
  BY <1>1, TickWraps DEF NextTick
<1> QED
  BY <1>1, <1>2 DEF TypeOK

LEMMA TickPromise ==
  ASSUME IInv, NapShape, PromisePart, NapTick
  PROVE  /\ NapShape' /\ PromisePart'
         /\ \A p \in Slot : call[p] = "sleep" /\ ~ nap'[p].wrapped =>
              NextTick = timer_ticks + 1 /\ nap'[p] = nap[p]
<1>1. /\ timer_ticks' = NextTick /\ UNCHANGED <<call, wakeup_tick>>
      /\ nap' = [p \in Slot |-> IF call[p] = "sleep" /\ NextTick = 0
                                THEN [nap[p] EXCEPT !.wrapped = TRUE]
                                ELSE nap[p]]
  BY DEF NapTick, Tick
<1>2. NapShape'
  BY <1>1 DEF NapShape
<1>3. \A p \in Slot : call[p] = "sleep" /\ ~ nap'[p].wrapped =>
        NextTick # 0 /\ nap'[p] = nap[p]
  BY <1>1 DEF NapShape
<1>4. \A p \in Slot : call[p] = "sleep" /\ ~ nap'[p].wrapped =>
        NextTick = timer_ticks + 1 /\ nap'[p] = nap[p]
  BY <1>3, TimeGoesOn DEF IInv
<1>5. ASSUME NEW p \in Slot, call'[p] = "sleep", ~ nap'[p].wrapped
      PROVE  Promise(p)'
  <2>1. Promise(p) /\ timer_ticks' = timer_ticks + 1 /\ nap'[p] = nap[p]
    BY <1>1, <1>4, <1>5 DEF PromisePart
  <2> QED
    BY <1>1, <2>1, TimeGoesOn DEF Promise, IInv
<1> QED
  BY <1>2, <1>4, <1>5 DEF PromisePart

LEMMA DozePromise ==
  ASSUME IInv, NapShape, PromisePart, NEW n \in 0 .. MaxSleep, Doze(n)
  PROVE  NapShape' /\ PromisePart'
<1>1. cpu \in Slot /\ current_process = cpu
  BY AtKernel DEF Doze, SleepDeadline, At, BootPoint, Switching
<1>2. /\ timer_ticks' = timer_ticks
      /\ wakeup_tick' = [wakeup_tick EXCEPT ![cpu] = (timer_ticks + n) % TickMod]
      /\ call' = [call EXCEPT ![cpu] = "sleep"]
      /\ nap' = [nap EXCEPT ![cpu] = [start   |-> timer_ticks,
                                      want    |-> n,
                                      wrapped |-> timer_ticks + n >= TickMod]]
  BY <1>1 DEF Doze, SleepDeadline, tick_vars
<1>3. timer_ticks \in Nat /\ n \in Nat /\ TickMod \in Nat \ {0}
  BY SchedulerAssumption DEF IInv, TypeOK
<1>4. NapShape'
  BY <1>1, <1>2, <1>3 DEF NapShape
<1>5. ASSUME NEW p \in Slot, call'[p] = "sleep", ~ nap'[p].wrapped
      PROVE  Promise(p)'
  <2>1. CASE p = cpu
    <3>1. /\ nap'[cpu] = [start   |-> timer_ticks, want |-> n,
                          wrapped |-> timer_ticks + n >= TickMod]
          /\ wakeup_tick'[cpu] = (timer_ticks + n) % TickMod
      BY <1>1, <1>2 DEF NapShape, IInv, TypeOK
    <3>2. ~ (timer_ticks + n >= TickMod)
      <4>1. nap'[cpu].wrapped = (timer_ticks + n >= TickMod)
        BY <3>1
      <4>2. nap'[cpu].wrapped \in BOOLEAN
        BY <1>1, <1>4 DEF NapShape
      <4> QED
        BY <1>5, <2>1, <4>1, <4>2
    <3>3. timer_ticks + n \in 0 .. TickMod
      BY <1>3, <3>2
    <3>4. (timer_ticks + n) % TickMod = timer_ticks + n
      BY <1>3, <3>2, <3>3, TickWraps
    <3> QED
      BY <1>2, <1>3, <2>1, <3>1, <3>4 DEF Promise
  <2>2. CASE p # cpu
    <3>1. nap'[p] = nap[p] /\ wakeup_tick'[p] = wakeup_tick[p] /\ call'[p] = call[p]
      BY <1>1, <1>2, <2>2 DEF NapShape, IInv, TypeOK
    <3>2. Promise(p)
      BY <1>5, <3>1 DEF PromisePart
    <3> QED
      BY <1>2, <3>1, <3>2 DEF Promise
  <2> QED
    BY <2>1, <2>2
<1> QED
  BY <1>4, <1>5 DEF PromisePart

LEMMA OthersPromise ==
  ASSUME IInv, NapShape, PromisePart, Others
  PROVE  NapShape' /\ PromisePart'
<1>1. nap' = [p \in Slot |-> IF call'[p] = "sleep" THEN nap[p] ELSE NoNap]
  BY DEF Others
<1>2. /\ timer_ticks' = timer_ticks
      /\ \A p \in Slot : call'[p] = "sleep" =>
           call[p] = "sleep" /\ wakeup_tick'[p] = wakeup_tick[p]
  BY SleepersStay DEF Others
<1>3. NapShape'
  BY <1>1 DEF NapShape, NoNap
<1>4. ASSUME NEW p \in Slot, call'[p] = "sleep", ~ nap'[p].wrapped
      PROVE  Promise(p)'
  <2>1. nap'[p] = nap[p] /\ call[p] = "sleep" /\ wakeup_tick'[p] = wakeup_tick[p]
    BY <1>1, <1>2, <1>4
  <2>2. Promise(p)
    BY <1>4, <2>1 DEF PromisePart
  <2> QED
    BY <1>2, <2>1, <2>2 DEF Promise
<1> QED
  BY <1>3, <1>4 DEF PromisePart

LEMMA NapKept == IInv /\ NapPart /\ [NapNext]_<<vars, nap>> => NapPart'
<1> SUFFICES ASSUME IInv, NapPart, [NapNext]_<<vars, nap>> PROVE NapPart'
  OBVIOUS
<1>1. AwakePart'
  BY AwakeKept, NapIsStep DEF NapPart
<1>2. CASE UNCHANGED <<vars, nap>>
  <2>1. UNCHANGED <<call, wakeup_tick, timer_ticks, nap>>
    BY <1>2 DEF vars, tick_vars
  <2> QED
    BY <1>1, <2>1 DEF NapPart, NapShape, PromisePart, Promise
<1>3. CASE NapNext
  <2>1. NapShape' /\ PromisePart'
    BY <1>3, NapSteps, OthersPromise, DozePromise, TickPromise DEF NapPart
  <2> QED
    BY <1>1, <2>1 DEF NapPart
<1> QED
  BY <1>2, <1>3

LEMMA CountedIsNap == [NapNext /\ CountHalts]_<<vars, naps>> => [NapNext]_<<vars, nap>>
  BY DEF naps

LEMMA NapInvariance == NapSpec => [](IInv /\ NapPart)
<1>1. NapInit => IInv
  BY InitIInv DEF NapInit
<1>2. NapInit => NapPart
  <2> SUFFICES ASSUME NapInit PROVE NapPart
    OBVIOUS
  <2>1. /\ state = [p \in Slot |-> "UNUSED"] /\ cpu = NULL
        /\ call = [p \in Slot |-> "none"] /\ nap = [p \in Slot |-> NoNap]
    BY DEF NapInit, Init
  <2> QED
    BY <2>1 DEF NapPart, AwakePart, NapShape, PromisePart, NoNap
<1>3. /\ IInv /\ NapPart /\ [NapNext /\ CountHalts]_<<vars, naps>>
      => IInv' /\ NapPart'
  BY CountedIsNap, NapKept, NapIsStep, NextIInv
<1> QED
  BY <1>1, <1>2, <1>3, PTL DEF NapSpec

(* A sleeper gets out of BLOCKED by scheduler_wakeup and nothing else, at  *)
(* a tick of its own deadline or later: naps end no earlier than asked,    *)
(* unless the counter wrapped.                                             *)
THEOREM NapsLastLongEnough == NapSpec => NoEarlyWakeup
<1>1. ASSUME IInv, NapPart, [NapNext]_<<vars, nap>>,
             NEW p \in Slot, state[p] = "BLOCKED", state'[p] # "BLOCKED",
             ~ nap'[p].wrapped
      PROVE  timer_ticks' - nap[p].start >= nap[p].want
  <2>1. NapTick
    <3>1. CASE Boot
      BY <1>1, <3>1 DEF Boot, CreateIdle, CreateTask, process_create_kernel,
         scheduler_add, TasksCreated, StartFirst, IInv, TypeOK
    <3>2. CASE YieldClear \/ Exit \/ YieldReady \/ SleepBlock
               \/ \E n \in 0 .. MaxSleep : SleepDeadline(n)
      <4>1. pc[cpu] \in {"run", "check", "yield", "sleep"}
        BY <3>2 DEF YieldClear, SleepDeadline, Exit, YieldReady, SleepBlock, At
      <4>2. cpu \in Slot /\ cpu # NULL /\ current_process = cpu
        BY <1>1, <4>1, AtKernel DEF BootPoint, Switching
      <4>3. p # cpu
        BY <1>1, <4>1, <4>2 DEF NapPart, AwakePart
      <4> QED
        BY <1>1, <3>2, <4>2, <4>3 DEF YieldClear, SleepDeadline, Exit,
           YieldReady, SleepBlock, IInv, TypeOK
    <3>3. CASE SwitchMark
      BY <1>1, <3>3 DEF SwitchMark, IInv, TypeOK
    <3>4. CASE SwitchEnter
      BY <1>1, <3>4 DEF SwitchEnter, At, IInv, TypeOK, TargetPart, Switching
    <3>5. CASE UNCHANGED <<state, cpu>>
      BY <1>1, <3>5
    <3>6. CASE UNCHANGED <<vars, nap>>
      BY <1>1, <3>6 DEF vars
    <3> QED
      BY <1>1, <3>1, <3>2, <3>3, <3>4, <3>5, <3>6, OtherSteps, NapSteps
         DEF Others, Doze, Kernel
  <2>2. timer_ticks' = NextTick /\ p \in Due
    BY <1>1, <2>1 DEF NapTick, Tick, IInv, TypeOK
  <2>3. call[p] = "sleep"
    BY <1>1 DEF NapPart, AwakePart
  <2>4. nap'[p] = nap[p] /\ Promise(p)
    BY <1>1, <2>1, <2>3, TickPromise DEF NapPart, PromisePart
  <2> QED
    BY <1>1, <2>2, <2>4, TimeGoesOn DEF Due, Promise, IInv
<1>2. IInv /\ NapPart /\ [NapNext /\ CountHalts]_<<vars, naps>> =>
        [\A p \in Slot :
           (state[p] = "BLOCKED" /\ state'[p] # "BLOCKED" /\ ~ nap'[p].wrapped)
             => timer_ticks' - nap[p].start >= nap[p].want]_<<vars, naps>>
  BY <1>1, CountedIsNap
<1> QED
  BY <1>2, NapInvariance, PTL DEF NapSpec, NoEarlyWakeup

(* Each timer interrupt wakes everybody who is due, even in the middle of  *)
(* scheduler_remove: nobody oversleeps, unless the counter wrapped.        *)
THEOREM NobodyOversleeps == NapSpec => TickWakesAllDue
<1>1. ASSUME IInv, NapPart, [NapNext]_<<vars, nap>>,
             timer_ticks' # timer_ticks,
             NEW p \in Slot, state'[p] = "BLOCKED", ~ nap'[p].wrapped
      PROVE  timer_ticks' - nap[p].start < nap[p].want
  <2>1. NapTick
    <3>1. CASE UNCHANGED <<vars, nap>>
      BY <1>1, <3>1 DEF vars, tick_vars
    <3>2. CASE Others
      BY <1>1, <3>2, SleepersStay DEF Others
    <3>3. CASE \E n \in 0 .. MaxSleep : Doze(n)
      BY <1>1, <3>3 DEF Doze, SleepDeadline, tick_vars
    <3> QED
      BY <1>1, <3>1, <3>2, <3>3, NapSteps
  <2>2. timer_ticks' = NextTick /\ state[p] = "BLOCKED" /\ p \notin Due
    BY <1>1, <2>1 DEF NapTick, Tick, IInv, TypeOK
  <2>3. call[p] = "sleep"
    BY <1>1, <2>2 DEF NapPart, AwakePart
  <2>4. p \in Queued
    <3>1. Booted /\ p # idle_process /\ Alive(p)
      <4>1. Booted /\ Alive(p)
        BY <2>1, <2>2 DEF NapTick, Tick, InterruptsOn, Booted, Alive
      <4>2. idle_process # NULL => state[idle_process] # "BLOCKED"
        BY <1>1 DEF IInv, IdlePart
      <4> QED
        BY <2>2, <4>1, <4>2, SchedulerAssumption
    <3> QED
      BY <1>1, <3>1 DEF IInv, QueuePart, Queued
  <2>5. nap'[p] = nap[p] /\ Promise(p)
    BY <1>1, <2>1, <2>3, TickPromise DEF NapPart, PromisePart
  <2> QED
    BY <1>1, <2>2, <2>4, <2>5, TimeGoesOn DEF Due, Promise, IInv
<1>2. IInv /\ NapPart /\ [NapNext /\ CountHalts]_<<vars, naps>> =>
        [timer_ticks' # timer_ticks =>
           \A p \in Slot : (state'[p] = "BLOCKED" /\ ~ nap'[p].wrapped)
             => timer_ticks' - nap[p].start < nap[p].want]_<<vars, naps>>
  BY <1>1, CountedIsNap
<1> QED
  BY <1>2, NapInvariance, PTL DEF NapSpec, TickWakesAllDue

-----------------------------------------------------------------------------
(* The halts of the idle task over a task that the timer woke.             *)

(* Once the idle task has halted over p, need_resched is set, so it gives  *)
(* the processor up behind the hlt; and no scan passes p by, so it does    *)
(* not get the processor back before p.                                    *)
Coming(p) ==
  /\ Woken(p)
  /\ cpu # NULL /\ p # cpu
  /\ pc[cpu] = "scan" =>
       \A k \in 0 .. process_count - 1 : processes[k] = p => ~ Visited(k)
  /\ pc[cpu] \in Switching => target # idle_process
  /\ cpu = idle_process =>
       /\ pc[cpu] \notin {"idle", "return"}
       /\ pc[cpu] \in {"hlt", "check"} => need_resched

HaltPart ==
  /\ halts \in [Slot -> 0 .. 1]
  /\ \A p \in Slot : halts[p] = 1 => Coming(p)

(* The one halt over p: the news came between the test and the hlt.        *)
LEMMA FirstHaltOver ==
  ASSUME IInv, NewsPart, NEW p \in Slot, At("idle"), Halt, Woken(p)'
  PROVE  Coming(p)'
<1>1. /\ UNCHANGED <<state, call, processes, process_count, idle_process,
                     need_resched, cpu>>
      /\ cpu \in Slot /\ cpu # NULL /\ pc'[cpu] = "hlt"
  BY AtKernel, SchedulerAssumption
     DEF Halt, At, Goto, sched_vars, tick_vars, IInv, TypeOK, BootPoint, Switching
<1>2. Woken(p)
  BY <1>1 DEF Woken
<1>3. p # cpu /\ p # idle_process
  BY <1>1, <1>2, SchedulerAssumption DEF Woken, At, IInv, RunnerPart, IdlePart
<1>4. PICK k \in 0 .. process_count - 1 : processes[k] = p
  <2>1. Booted
    BY <1>1 DEF IInv, BootPart, Booted, BootPoint, Switching
  <2> QED
    BY <1>2, <1>3, <2>1 DEF Woken, Alive, IInv, QueuePart
<1>5. cpu = idle_process
  BY <1>1 DEF At, IInv, IdlePart
<1>6. need_resched
  BY <1>1, <1>2, <1>4, <1>5 DEF At, NewsPart, IdleNews, Idling, Woken
<1> QED
  BY <1>1, <1>3, <1>6 DEF Coming, Switching

LEMMA ComingCalls ==
  ASSUME IInv, IInv', NEW p \in Slot, Coming(p), Woken(p)',
         \/ TaskCall \/ YieldReady \/ SleepBlock \/ RemoveShift \/ RemoveCount
         \/ Return \/ Halt \/ IdleAgain
  PROVE  Coming(p)'
<1>1. pc[cpu] \in {"run", "idle", "check", "yield", "sleep", "remove", "return"}
  BY DEF TaskCall, YieldClear, SleepDeadline, Exit, YieldReady, SleepBlock,
     RemoveShift, RemoveCount, Return, Halt, IdleAgain, At
<1>2. cpu # NULL
  BY DEF TaskCall, YieldClear, SleepDeadline, Exit, YieldReady, SleepBlock,
     RemoveShift, RemoveCount, Return, Halt, IdleAgain, At, IInv, BootPart,
     BootPoint, Switching
<1>3. cpu' = cpu /\ idle_process' = idle_process
  BY DEF TaskCall, YieldClear, SleepDeadline, Exit, YieldReady, SleepBlock,
     RemoveShift, RemoveCount, Return, Halt, IdleAgain, sched_vars
<1>4. cpu \in Slot
  BY <1>2 DEF IInv, TypeOK
<1>5. CASE pc'[cpu] = "scan"
  <2>1. i' = 0
    BY <1>1, <1>4, <1>5 DEF TaskCall, YieldClear, SleepDeadline, Exit, YieldReady,
       SleepBlock, RemoveShift, RemoveCount, Return, Halt, IdleAgain, StartScan,
       Goto, Home, At, IInv, TypeOK
  <2>2. NothingVisited'
    BY NewScanIsBlank, PTL DEF IInv
  <2> QED
    BY <1>3, <1>5, <2>1, <2>2 DEF Coming, NothingVisited, Switching
<1>6. CASE cpu # idle_process /\ pc'[cpu] # "scan"
  <2>1. pc'[cpu] \notin Switching
    BY <1>1, <1>4, <1>6 DEF TaskCall, YieldClear, SleepDeadline, Exit, YieldReady,
       SleepBlock, RemoveShift, RemoveCount, Return, Halt, IdleAgain, StartScan,
       Goto, Home, At, IInv, TypeOK, Switching
  <2> QED
    BY <1>3, <1>6, <2>1 DEF Coming
<1>7. CASE cpu = idle_process /\ pc'[cpu] # "scan"
  <2>1. (pc[cpu] = "check" /\ need_resched) \/ pc[cpu] = "yield"
    BY <1>1, <1>2, <1>7 DEF Coming, IInv, IdlePart
  <2>2. YieldClear \/ YieldReady
    BY <2>1 DEF TaskCall, YieldClear, SleepDeadline, Exit, YieldReady,
       SleepBlock, RemoveShift, RemoveCount, Return, Halt, IdleAgain, At
  <2>3. pc'[cpu] = "yield"
    BY <1>4, <1>7, <2>2 DEF YieldClear, YieldReady, StartScan, Goto, IInv, TypeOK
  <2> QED
    BY <1>3, <2>3 DEF Coming, Switching
<1> QED
  BY <1>5, <1>6, <1>7

LEMMA ComingScan ==
  ASSUME IInv, NewsPart, NEW p \in Slot, Coming(p), Woken(p)',
         ScanSkip \/ ScanPick \/ ScanIdle \/ ScanReturn
  PROVE  Coming(p)'
<1>1. /\ pc[cpu] = "scan"
      /\ UNCHANGED <<state, call, processes, process_count, idle_process, cpu>>
  BY DEF ScanSkip, ScanPick, ScanIdle, ScanReturn, At, sched_vars
<1>2. cpu \in Slot /\ cpu # NULL /\ current_process = cpu
  BY <1>1, AtKernel DEF BootPoint, Switching
<1>3. i > 0 => next < process_count
  BY <1>1, <1>2 DEF NewsPart, ScanNews
<1>4. Woken(p) /\ p # cpu /\ \A k \in 0 .. process_count - 1 : processes[k] = p => ~ Visited(k)
  BY <1>1, <1>2 DEF Coming
<1>5. CASE ScanSkip
  <2>1. /\ i' = i + 1 /\ next' = NextIndex /\ i < process_count /\ pc' = pc
        /\ ~ Eligible(processes[NextIndex])
    BY <1>5 DEF ScanSkip
  <2>2. processes[NextIndex] # p
    BY <1>2, <1>4, <2>1 DEF Eligible, Woken
  <2>3. \A k \in 0 .. process_count' - 1 : processes'[k] = p => ~ Visited(k)'
    <3>1. SUFFICES ASSUME NEW k \in 0 .. process_count' - 1, processes'[k] = p,
                          Visited(k)'
                   PROVE  FALSE
      OBVIOUS
    <3>2. k = NextIndex \/ Visited(k)
      BY <1>1, <1>3, <2>1, <3>1, VisitedGrows DEF IInv
    <3> QED
      BY <1>1, <1>4, <2>2, <3>1, <3>2
  <2> QED
    BY <1>1, <1>4, <2>1, <2>3 DEF Coming, Switching
<1>6. CASE ScanPick
  <2>1. NextIndex \in 0 .. process_count - 1
    <3>1. i < process_count /\ i \in Nat /\ process_count \in Nat /\ next \in Nat
      BY <1>6, SchedulerAssumption DEF ScanPick, IInv, TypeOK, Slot
    <3>2. process_count \in Nat \ {0} /\ next + 1 \in Nat
      BY <3>1
    <3> QED
      BY <3>2, ModRange DEF NextIndex
  <2>2. target' # idle_process /\ pc'[cpu] = "mark"
    BY <1>1, <1>2, <1>6, <2>1, QueuedIsSlot
       DEF ScanPick, LeaveScan, Goto, IInv, TypeOK
  <2> QED
    BY <1>1, <1>4, <2>2 DEF Coming
<1>7. CASE ScanIdle \/ ScanReturn
  <2>1. i >= process_count
    BY <1>7 DEF ScanIdle, ScanReturn
  <2>2. p # idle_process
    BY <1>2, <1>4, SchedulerAssumption DEF Woken, IInv, IdlePart
  <2>3. PICK k \in 0 .. process_count - 1 : processes[k] = p
    <3>1. Booted
      BY <1>2 DEF IInv, BootPart, Booted, BootPoint, Switching
    <3> QED
      BY <1>4, <2>2, <3>1 DEF Woken, Alive, IInv, QueuePart
  <2> QED
    BY <1>3, <1>4, <2>1, <2>3, AllVisited DEF IInv
<1> QED
  BY <1>5, <1>6, <1>7

LEMMA ComingSwitch ==
  ASSUME IInv, NEW p \in Slot, Coming(p), Woken(p)', SwitchMark \/ SwitchEnter
  PROVE  Coming(p)'
<1>1. pc[cpu] \in Switching /\ UNCHANGED idle_process
  BY DEF SwitchMark, SwitchEnter, At, Switching, sched_vars
<1>2. CASE SwitchMark
  <2>1. pc'[cpu] = "enter" /\ cpu' = cpu /\ target' = target
    BY <1>2 DEF SwitchMark, Goto, local_vars, IInv, TypeOK
  <2> QED
    BY <1>1, <2>1 DEF Coming, Switching
<1>3. CASE SwitchEnter
  <2>1. /\ target \in Slot /\ target # cpu /\ cpu' = target
        /\ state' = [state EXCEPT ![target] = "RUNNING"]
        /\ pc'[target] = pc[target] /\ pc[target] \in {"run", "idle", "return"}
    BY <1>1, <1>3, SchedulerAssumption
       DEF SwitchEnter, Goto, IInv, TargetPart, TypeOK, ParkedPart
  <2>2. p # target
    BY <2>1 DEF Woken, IInv, TypeOK
  <2>3. target # idle_process
    BY <1>1 DEF Coming
  <2> QED
    BY <1>1, <2>1, <2>2, <2>3, SchedulerAssumption
       DEF Coming, Woken, Switching
<1> QED
  BY <1>2, <1>3

LEMMA ComingInterrupt ==
  ASSUME IInv, NEW p \in Slot, Coming(p), Woken(p)', Tick \/ OtherIrq
  PROVE  Coming(p)'
<1>1. /\ UNCHANGED <<call, processes, process_count, idle_process, cpu, i, next,
                     target>>
      /\ LeaveHlt
      /\ need_resched => need_resched'
  BY DEF Tick, OtherIrq, sched_vars, tick_vars, local_vars, Resched, IInv,
     TypeOK
<1>2. \/ pc'[cpu] = pc[cpu]
      \/ pc[cpu] = "hlt" /\ pc'[cpu] = "check"
  BY <1>1 DEF LeaveHlt, At, IInv, TypeOK
<1> QED
  BY <1>1, <1>2 DEF Coming, Visited, Switching

LEMMA ComingKept ==
  ASSUME IInv, IInv', NewsPart, [Next]_vars, NEW p \in Slot, Coming(p), Woken(p)'
  PROVE  Coming(p)'
<1>1. CASE Boot
  <2>1. cpu = NULL
    BY <1>1, SchedulerAssumption
       DEF Boot, CreateIdle, CreateTask, process_create_kernel, scheduler_add,
           TasksCreated, StartFirst, At, IInv, RunnerPart, BootPoint
  <2> QED
    BY <2>1 DEF Coming
<1>2. CASE Kernel
  BY <1>2, ComingCalls, ComingScan, ComingSwitch DEF Kernel
<1>3. CASE UNCHANGED vars
  BY <1>3 DEF vars, sched_vars, tick_vars, local_vars, Coming, Woken, Visited
<1> QED
  BY <1>1, <1>2, <1>3, ComingCalls, ComingInterrupt DEF Next

(* Nothing but Halt leads from before the hlt to behind it.                *)
LEMMA OnlyHaltHalts ==
  ASSUME IInv, [Next]_vars, cpu \in Slot, At("idle"), pc'[cpu] = "hlt"
  PROVE  Halt
<1>1. pc[cpu] = "idle"
  BY DEF At
<1>2. ~ Boot
  BY <1>1 DEF Boot, CreateIdle, CreateTask, process_create_kernel,
     scheduler_add, TasksCreated, StartFirst, At
<1>3. ~ (Tick \/ OtherIrq \/ UNCHANGED vars)
  BY <1>1 DEF Tick, OtherIrq, LeaveHlt, At, vars
<1> QED
  BY <1>1, <1>2, <1>3
     DEF Next, TaskCall, Kernel, YieldClear, SleepDeadline, Exit, YieldReady,
         SleepBlock, RemoveShift, RemoveCount, ScanSkip, ScanPick, ScanIdle,
         ScanReturn, SwitchMark, SwitchEnter, Return, IdleAgain, At

(* The idle task never halts with p already halted over.                   *)
LEMMA NoSecondHalt ==
  ASSUME IInv, NEW p \in Slot, Coming(p), At("idle"), cpu \in Slot
  PROVE  FALSE
BY SchedulerAssumption DEF Coming, At, IInv, IdlePart

LEMMA HaltsKept ==
  ASSUME IInv, IInv', NewsPart, HaltPart, [NapNext /\ CountHalts]_<<vars, naps>>
  PROVE  HaltPart'
<1>1. [Next]_vars
  BY CountedIsNap, NapIsStep
<1>2. CASE UNCHANGED <<vars, naps>>
  <2>1. UNCHANGED halts /\ UNCHANGED vars
    BY <1>2 DEF naps
  <2>2. \A p \in Slot : Coming(p) => Coming(p)'
    BY <2>1 DEF vars, sched_vars, tick_vars, local_vars, Coming, Woken, Visited
  <2> QED
    BY <2>1, <2>2 DEF HaltPart
<1>3. CASE CountHalts
  <2>1. ASSUME NEW p \in Slot, Woken(p)'
        PROVE  halts'[p] \in 0 .. 1 /\ (halts'[p] = 1 => Coming(p)')
    <3>1. halts'[p] = IF At("idle") /\ pc'[cpu] = "hlt" THEN halts[p] + 1
                      ELSE halts[p]
      BY <1>3, <2>1 DEF CountHalts
    <3>2. halts[p] \in 0 .. 1 /\ (halts[p] = 1 => Coming(p))
      BY DEF HaltPart
    <3>3. CASE At("idle") /\ pc'[cpu] = "hlt"
      <4>1. cpu \in Slot
        BY <3>3, AtKernel DEF At, BootPoint, Switching
      <4>2. halts[p] = 0
        BY <3>2, <3>3, <4>1, NoSecondHalt
      <4>3. Halt
        BY <1>1, <3>3, <4>1, OnlyHaltHalts
      <4> QED
        BY <2>1, <3>1, <3>3, <4>2, <4>3, FirstHaltOver
    <3>4. CASE ~ (At("idle") /\ pc'[cpu] = "hlt")
      BY <1>1, <2>1, <3>1, <3>2, <3>4, ComingKept
    <3> QED
      BY <3>3, <3>4
  <2>2. \A p \in Slot : ~ Woken(p)' => halts'[p] = 0
    BY <1>3 DEF CountHalts
  <2>3. halts' = [p \in Slot |-> halts'[p]]
    BY <1>3 DEF CountHalts
  <2> QED
    BY <2>1, <2>2, <2>3 DEF HaltPart
<1> QED
  BY <1>2, <1>3

(* However the interrupts fall into process_yield, process_sleep,          *)
(* scheduler_schedule and idle_task, a sleeper that the timer woke is      *)
(* halted over at most once before it runs: only by an idle task that the  *)
(* tick met between its test of need_resched, or the scan before it, and   *)
(* the hlt (idle.c:9-13).  need_resched is never lost on the way.          *)
THEOREM NoLostWakeup == NapSpec => []HaltsOverOnce
<1>1. NapInit => NewsPart /\ HaltPart
  BY SchedulerAssumption
     DEF NapInit, Init, NewsPart, ScanNews, SleeperNews, IdleNews, Idling,
         FirstIsTask, Switching, HaltPart
<1>2. /\ IInv /\ IInv' /\ NewsPart /\ HaltPart
      /\ [NapNext /\ CountHalts]_<<vars, naps>>
      => NewsPart' /\ HaltPart'
  BY CountedIsNap, NapIsStep, NewsKept, HaltsKept
<1>3. HaltPart => HaltsOverOnce
  BY DEF HaltPart, HaltsOverOnce
<1> QED
  BY <1>1, <1>2, <1>3, NapInvariance, PTL DEF NapSpec

=============================================================================
