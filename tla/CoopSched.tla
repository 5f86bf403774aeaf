------------------------------ MODULE CoopSched ------------------------------
(***************************************************************************)
(* What the scheduler promises to the tasks: one holder of the processor   *)
(* at a time, which loses it only after a call that asks for it, and hands *)
(* it to a task that is ready.  A task that yields is ready at once, one   *)
(* that sleeps is asleep or has already been woken, one that exits is gone *)
(* for ever.  Run queue, flags and interrupts do not appear.               *)
(***************************************************************************)
CONSTANTS
  Proc,         (* the processes                                           *)
  NoProc        (* nobody, none of Proc: the boot code holds the processor *)

VARIABLES
  holder,       (* who has the processor                                   *)
  mode,         (* what every process is doing                             *)
  asked         (* the call a process has made and not yet returned from   *)

vars == <<holder, mode, asked>>

Init ==
  /\ holder = NoProc
  /\ mode = [p \in Proc |-> "absent"]
  /\ asked = [p \in Proc |-> "none"]

Create(p) ==
  /\ holder = NoProc
  /\ mode[p] = "absent"
  /\ mode' = [mode EXCEPT ![p] = "ready"]
  /\ UNCHANGED <<holder, asked>>

Ask(c) ==
  /\ holder # NoProc
  /\ asked[holder] = "none"
  /\ asked' = [asked EXCEPT ![holder] = c]
  /\ UNCHANGED <<holder, mode>>

(* what a call makes of the process that leaves the processor for it       *)
Outcome(c) == CASE c = "yield" -> {"ready"}
                [] c = "sleep" -> {"ready", "asleep"}
                [] c = "exit"  -> {"gone"}
                [] OTHER       -> {}

HandOver(q) ==
  /\ mode[q] = "ready"
  /\ q # holder
  /\ holder' = q
  /\ IF holder = NoProc
     THEN mode' = [mode EXCEPT ![q] = "running"]
     ELSE \E m \in Outcome(asked[holder]) :
            mode' = [mode EXCEPT ![q] = "running", ![holder] = m]
  /\ UNCHANGED asked

Resume ==
  /\ holder # NoProc
  /\ asked[holder] # "exit"
  /\ asked' = [asked EXCEPT ![holder] = "none"]
  /\ UNCHANGED <<holder, mode>>

Wake(S) ==
  /\ \A p \in S : mode[p] = "asleep"
  /\ mode' = [p \in Proc |-> IF p \in S THEN "ready" ELSE mode[p]]
  /\ UNCHANGED <<holder, asked>>

Next == \/ \E p \in Proc : Create(p) \/ HandOver(p)
        \/ \E c \in {"yield", "sleep", "exit"} : Ask(c)
        \/ Resume
        \/ \E S \in SUBSET Proc : Wake(S)

Spec == Init /\ [][Next]_vars

=============================================================================
