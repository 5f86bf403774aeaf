------------------------------ MODULE Machine ------------------------------
(***************************************************************************)
(* The kernel as it runs: kernel_main waits in hlt, and everything else    *)
(* happens inside interrupts.  Enter makes keyboard_handler call the shell *)
(* (keyboard.c:283), the shell calls elf_exec and that calls the program,  *)
(* all of it before irq_handler sends the end-of-interrupt of that key     *)
(* (irq.c:24-30).  Two loops inside turn interrupts on again in the middle *)
(* of this, keyboard_getchar and SYS_EXIT, so what keeps the shell from    *)
(* being entered a second time is only the interrupt controller, which     *)
(* still has the keyboard interrupt in service.                            *)
(*                                                                         *)
(* A handler that runs to its end with interrupts off is one action.  What *)
(* the line says is not modelled: on Enter the shell runs any command.     *)
(***************************************************************************)
EXTENDS Integers, Sequences, FiniteSets

CONSTANTS
  Key,                  (* keys that type a character                      *)
  Enter,                (* the key that does not                           *)
  NoKey,                (* the zero in an empty queue place                *)
  File,                 (* names of programs and other files               *)
  NoFile,               (* the name in an unused descriptor                *)
  KEYBOARD_QUEUE_SIZE,  (* 128                                             *)
  MAX_FD,               (* 16                                              *)
  MaxPort               (* bound: keys the keyboard holds for port 0x60    *)

ASSUME MachineAssumption ==
  /\ Enter \notin Key /\ NoKey \notin Key
  /\ NoFile \notin File
  /\ KEYBOARD_QUEUE_SIZE \in Nat \ {0}
  /\ MAX_FD \in Nat
  /\ MaxPort \in Nat

TIMER == 0        \* IRQ0 and IRQ1; the lower number has the priority
KEYBOARD == 1

Place == 0 .. KEYBOARD_QUEUE_SIZE - 1
Fd    == 0 .. MAX_FD - 1

VARIABLES
  port,       (* keys pressed and not read yet, oldest first               *)
  requested,  (* interrupts the controller has to deliver: its IRR         *)
  inService,  (* interrupts delivered and not acknowledged: its ISR        *)
  iflag,      (* the processor's interrupt flag                            *)
  stack,      (* keyboard interrupts that run a command: where each one is *)
  queue,      (* keyboard_queue                                            *)
  head,       (* keyboard_head                                             *)
  tail,       (* keyboard_tail                                             *)
  c,          (* the local of keyboard_getchar                             *)
  eax,        (* what the last keyboard_getchar returned                   *)
  images,     (* buffers of elf_exec that are allocated                    *)
  files,      (* names the file system knows                               *)
  fd_table,   (* the name behind every descriptor in use                   *)
  opened      (* descriptors the program opened itself                     *)

controller == <<requested, inService>>
ring       == <<queue, head, tail>>
fs         == <<files, fd_table, opened>>
vars == <<port, controller, iflag, stack, ring, c, eax, images, fs>>

(***************************************************************************)
(* Where a command can be: in the shell; in elf_exec; in the program; in   *)
(* keyboard_getchar before its test, halted, before reading the queue and  *)
(* before advancing keyboard_head; in the loop of SYS_EXIT; on the way     *)
(* back to irq_handler.                                                    *)
(***************************************************************************)
Point == {"shell", "exec", "program", "test", "hlt", "read", "advance",
          "exit", "return"}

Init ==
  /\ port = <<>>
  /\ requested = {} /\ inService = {}
  /\ iflag = TRUE
  /\ stack = <<>>
  /\ queue = [i \in Place |-> NoKey]
  /\ head = 0 /\ tail = 0
  /\ c = NoKey
  /\ eax = NoKey
  /\ images = 0
  /\ files \in SUBSET File
  /\ fd_table = [fd \in Fd |-> NoFile]
  /\ opened = {}

Top   == stack[Len(stack)]
At(p) == stack # <<>> /\ Top = p

(* the command at the top goes on at p                                     *)
Goto(p) == stack' = [stack EXCEPT ![Len(stack)] = p]

(***************************************************************************)
(* The devices, outside src/                                               *)
(***************************************************************************)
KeyDown(k) ==
  /\ Len(port) < MaxPort
  /\ port' = Append(port, k)
  /\ requested' = requested \cup {KEYBOARD}
  /\ UNCHANGED <<inService, iflag, stack, ring, c, eax, images, fs>>

TimerFires ==
  /\ requested' = requested \cup {TIMER}
  /\ UNCHANGED <<port, inService, iflag, stack, ring, c, eax, images, fs>>

(* Interrupt n can reach the processor: it is on, and no interrupt of the  *)
(* same or a higher priority is in service.  Of two the controller         *)
(* delivers the first; here either may go first.                           *)
Deliverable(n) ==
  /\ iflag
  /\ n \in requested
  /\ \A m \in inService : n < m

(* a mutant: every interrupt in service is acknowledged                    *)
EndOfAll(S) == {}

(* the non-specific end-of-interrupt, irq.c:30: the one of the highest     *)
(* priority is no longer in service                                        *)
EndOfInterrupt(S) == {n \in S : \E m \in S : m < n}

(* the port is read once, and asks again if another key waits              *)
ReadPort ==
  /\ port' = Tail(port)
  /\ requested' = IF Tail(port) = <<>> THEN requested \ {KEYBOARD} ELSE requested

(* a processor halted in keyboard_getchar goes on to the test              *)
Woken ==
  IF At("hlt") THEN [stack EXCEPT ![Len(stack)] = "test"] ELSE stack

(***************************************************************************)
(* Interrupts                                                              *)
(***************************************************************************)
(* IRQ0 comes and goes with interrupts off; its effect is the business of  *)
(* module Scheduler                                                        *)
TimerInterrupt ==
  /\ Deliverable(TIMER)
  /\ requested' = requested \ {TIMER}
  /\ inService' = EndOfInterrupt(inService \cup {TIMER})
  /\ stack' = Woken
  /\ UNCHANGED <<port, iflag, ring, c, eax, images, fs>>

(* mutants: tail runs past the end of the array; the queue is taken for    *)
(* full one place early                                                    *)
PushNoWrap(k) ==
  LET next == tail + 1
  IN  IF next = head
      THEN UNCHANGED ring
      ELSE /\ queue' = [queue EXCEPT ![tail] = k]
           /\ tail' = next
           /\ UNCHANGED head
PushEarly(k) ==
  LET next == (tail + 1) % KEYBOARD_QUEUE_SIZE
  IN  IF (next + 1) % KEYBOARD_QUEUE_SIZE = head
      THEN UNCHANGED ring
      ELSE /\ queue' = [queue EXCEPT ![tail] = k]
           /\ tail' = next
           /\ UNCHANGED head

keyboard_queue_push(k) ==
  LET next == (tail + 1) % KEYBOARD_QUEUE_SIZE
  IN  IF next = head
      THEN UNCHANGED ring
      ELSE /\ queue' = [queue EXCEPT ![tail] = k]
           /\ tail' = next
           /\ UNCHANGED head

(* a mutant: no end-of-interrupt for a key                                 *)
CharacterNoEoi ==
  /\ Deliverable(KEYBOARD)
  /\ port # <<>> /\ Head(port) \in Key
  /\ ReadPort
  /\ keyboard_queue_push(Head(port))
  /\ inService' = inService \cup {KEYBOARD}
  /\ stack' = Woken
  /\ UNCHANGED <<iflag, c, eax, images, fs>>

(* a key that types a character                                            *)
CharacterKey ==
  /\ Deliverable(KEYBOARD)
  /\ port # <<>> /\ Head(port) \in Key
  /\ ReadPort
  /\ keyboard_queue_push(Head(port))
  /\ inService' = EndOfInterrupt(inService \cup {KEYBOARD})
  /\ stack' = Woken
  /\ UNCHANGED <<iflag, c, eax, images, fs>>

(* a mutant: the end-of-interrupt is sent before the handler is called     *)
EnterKeyEoiFirst ==
  /\ Deliverable(KEYBOARD)
  /\ port # <<>> /\ Head(port) = Enter
  /\ ReadPort
  /\ inService' = EndOfInterrupt(inService \cup {KEYBOARD})
  /\ iflag' = FALSE
  /\ stack' = Append(Woken, "shell")
  /\ UNCHANGED <<ring, c, eax, images, fs>>

(* Enter: shell_execute is called from the handler                         *)
EnterKey ==
  /\ Deliverable(KEYBOARD)
  /\ port # <<>> /\ Head(port) = Enter
  /\ ReadPort
  /\ inService' = inService \cup {KEYBOARD}
  /\ iflag' = FALSE
  /\ stack' = Append(Woken, "shell")
  /\ UNCHANGED <<ring, c, eax, images, fs>>

(* the handler is done: end-of-interrupt, and iretd turns interrupts on    *)
HandlerReturns ==
  /\ At("return")
  /\ stack' = SubSeq(stack, 1, Len(stack) - 1)
  /\ inService' = EndOfInterrupt(inService)
  /\ iflag' = TRUE
  /\ UNCHANGED <<port, requested, ring, c, eax, images, fs>>

(***************************************************************************)
(* The shell                                                               *)
(***************************************************************************)
(* a command that leaves the file names alone, one that fails, an empty    *)
(* line                                                                    *)
OtherCommand ==
  /\ At("shell")
  /\ Goto("return")
  /\ UNCHANGED <<port, controller, iflag, ring, c, eax, images, fs>>

(* touch                                                                   *)
Touch(f) ==
  /\ At("shell")
  /\ Goto("return")
  /\ files' = files \cup {f}
  /\ UNCHANGED <<port, controller, iflag, ring, c, eax, images, fd_table, opened>>

(* rm of one file, mkfs of all                                             *)
Remove(S) ==
  /\ At("shell")
  /\ Goto("return")
  /\ files' = files \ S
  /\ UNCHANGED <<port, controller, iflag, ring, c, eax, images, fd_table, opened>>

(* run: elf_exec found the file and got a buffer for it                    *)
Run(f) ==
  /\ At("shell")
  /\ f \in files
  /\ Goto("exec")
  /\ images' = images + 1
  /\ UNCHANGED <<port, controller, iflag, ring, c, eax, fs>>

(* a mutant: elf_exec leaves the buffer behind when it gives up            *)
ExecFailsLeaking ==
  /\ At("exec")
  /\ Goto("return")
  /\ UNCHANGED <<port, controller, iflag, ring, c, eax, images, fs>>

(* the file could not be read, or is no program                            *)
ExecFails ==
  /\ At("exec")
  /\ Goto("return")
  /\ images' = images - 1
  /\ UNCHANGED <<port, controller, iflag, ring, c, eax, fs>>

(* elf_load calls the entry point, with interrupts off as they are         *)
ProgramStarts ==
  /\ At("exec")
  /\ Goto("program")
  /\ opened' = {}
  /\ UNCHANGED <<port, controller, iflag, ring, c, eax, images, files, fd_table>>

(* the entry point returns; nobody closes its descriptors                  *)
ProgramReturns ==
  /\ At("program")
  /\ Goto("return")
  /\ images' = images - 1
  /\ UNCHANGED <<port, controller, iflag, ring, c, eax, fs>>

(***************************************************************************)
(* System calls, int 0x80; SYS_WRITE and SYS_READ change nothing here      *)
(***************************************************************************)
CallGetchar ==
  /\ At("program")
  /\ Goto("test")
  /\ UNCHANGED <<port, controller, iflag, ring, c, eax, images, fs>>

(* a mutant: one character in the queue is not seen                        *)
GetcharTestOne ==
  /\ At("test")
  /\ IF head = tail \/ (head + 1) % KEYBOARD_QUEUE_SIZE = tail
     THEN Goto("hlt") /\ iflag' = TRUE
     ELSE Goto("read") /\ UNCHANGED iflag
  /\ UNCHANGED <<port, controller, ring, c, eax, images, fs>>

(* sti takes effect after the instruction that follows it, so the two are  *)
(* one step                                                                *)
GetcharTest ==
  /\ At("test")
  /\ IF head = tail
     THEN Goto("hlt") /\ iflag' = TRUE
     ELSE Goto("read") /\ UNCHANGED iflag
  /\ UNCHANGED <<port, controller, ring, c, eax, images, fs>>

GetcharRead ==
  /\ At("read")
  /\ Goto("advance")
  /\ c' = queue[head]
  /\ UNCHANGED <<port, controller, iflag, ring, eax, images, fs>>

(* back to the program, whose flags have interrupts off                    *)
GetcharAdvance ==
  /\ At("advance")
  /\ Goto("program")
  /\ head' = (head + 1) % KEYBOARD_QUEUE_SIZE
  /\ eax' = c
  /\ iflag' = FALSE
  /\ UNCHANGED <<port, controller, queue, tail, c, images, fs>>

Unused == {fd \in Fd : fd_table[fd] = NoFile}

(* fd_alloc gives the first unused entry                                   *)
fd_alloc == CHOOSE fd \in Unused : \A x \in Unused : fd <= x

SysOpen(f) ==
  /\ At("program")
  /\ f \in files /\ Unused # {}
  /\ fd_table' = [fd_table EXCEPT ![fd_alloc] = f]
  /\ opened' = opened \cup {fd_alloc}
  /\ UNCHANGED <<port, controller, iflag, stack, ring, c, eax, images, files>>

SysClose(fd) ==
  /\ At("program")
  /\ fd_table[fd] # NoFile
  /\ fd_table' = [fd_table EXCEPT ![fd] = NoFile]
  /\ opened' = opened \ {fd}
  /\ UNCHANGED <<port, controller, iflag, stack, ring, c, eax, images, files>>

(* sti; hlt forever                                                        *)
SysExit ==
  /\ At("program")
  /\ Goto("exit")
  /\ iflag' = TRUE
  /\ UNCHANGED <<port, controller, ring, c, eax, images, fs>>

Command ==
  \/ OtherCommand
  \/ \E f \in File : Touch(f) \/ Remove({f}) \/ Run(f)
  \/ Remove(File)

(* what the kernel does by itself once it is called                        *)
Kernel ==
  \/ Command
  \/ ExecFails \/ ProgramStarts
  \/ GetcharTest \/ GetcharRead \/ GetcharAdvance
  \/ HandlerReturns

(* what the program chooses to do                                          *)
Program ==
  \/ CallGetchar \/ SysExit \/ ProgramReturns
  \/ \E f \in File : SysOpen(f)
  \/ \E fd \in Fd : SysClose(fd)

KeyInterrupt == CharacterKey \/ EnterKey

Next ==
  \/ \E k \in Key \cup {Enter} : KeyDown(k)
  \/ TimerFires
  \/ TimerInterrupt \/ KeyInterrupt
  \/ Kernel
  \/ Program

Spec == Init /\ [][Next]_vars

(***************************************************************************)
(* The processor executes the kernel's code, interrupts that can be        *)
(* delivered are, and the timer never stops.  Nothing is assumed of keys   *)
(* or of programs.                                                         *)
(***************************************************************************)
Fairness ==
  /\ WF_vars(Kernel)
  /\ WF_vars(TimerInterrupt)
  /\ WF_vars(KeyInterrupt)
  /\ WF_vars(TimerFires)

FairSpec == Spec /\ Fairness

(***************************************************************************)
(* Properties                                                              *)
(***************************************************************************)
TypeOK ==
  /\ port \in Seq(Key \cup {Enter}) /\ Len(port) <= MaxPort
  /\ requested \subseteq {TIMER, KEYBOARD}
  /\ inService \subseteq {TIMER, KEYBOARD}
  /\ iflag \in BOOLEAN
  /\ stack \in Seq(Point)
  /\ queue \in [Place -> Key \cup {NoKey}]
  /\ head \in Place /\ tail \in Place
  /\ c \in Key \cup {NoKey}
  /\ eax \in Key \cup {NoKey}
  /\ images \in Nat
  /\ files \subseteq File
  /\ fd_table \in [Fd -> File \cup {NoFile}]
  /\ opened \subseteq Fd

(* keyboard_handler and the shell are not reentrant (static buffers, one   *)
(* input line): although a program's getchar and exit turn interrupts on   *)
(* inside the keyboard interrupt (keyboard.c:111, syscall.c:79), no second *)
(* command ever starts before the first has returned.                      *)
NotReentered == Len(stack) <= 1

(* The end-of-interrupt of a timer tick inside a command (irq.c:30) does   *)
(* not acknowledge the keyboard interrupt the command runs in: that one is *)
(* in service exactly as long as its command lasts.                        *)
ServiceLasts == (KEYBOARD \in inService) <=> (stack # <<>>)

(* While a command runs nothing enters the keyboard queue: a program reads *)
(* only what was typed before the Enter that started it, the command line  *)
(* itself included.                                                        *)
TypeAheadOnly == [][stack # <<>> => tail' = tail]_vars

(* A file that the running program has open is not removed or formatted    *)
(* away under its descriptor, which knows it only by name (fd.c:16).       *)
OpenFilesStay ==
  (stack # <<>> /\ Top \notin {"shell", "exec", "return"}) =>
    \A fd \in opened : fd_table[fd] \in files

(* At the prompt the buffer of every program that was run is free again,   *)
(* on each of elf_exec's ways out.                                         *)
ImagesFreed == stack = <<>> => images = 0

(* keyboard_queue as a sequence                                            *)
InQueue ==
  [i \in 1 .. (tail - head) % KEYBOARD_QUEUE_SIZE |->
     queue[(head + i - 1) % KEYBOARD_QUEUE_SIZE]]

Fifo == INSTANCE CharQueue
  WITH Char <- Key, Other <- {Enter}, NoChar <- NoKey,
       Capacity <- KEYBOARD_QUEUE_SIZE - 1,
       pressed <- port, chars <- InQueue, taken <- eax

(* The ring buffer filled in the interrupt and emptied by the system call  *)
(* (keyboard.c:94-122) is a queue.  Every key the handler reads from the   *)
(* port is in it afterwards, unless all places but the one that tells full *)
(* from empty are taken; nothing is lost otherwise, doubled or reordered,  *)
(* across the end of the array too.                                        *)
ImplementsQueue == Fifo!Spec

(* a command that no key can help any more: it has exited, or it waits for *)
(* a character and there is none                                           *)
Stuck ==
  \/ At("exit")
  \/ (At("test") \/ At("hlt")) /\ head = tail

(* A command comes back to the prompt, or is left to its program, unless   *)
(* it is stuck: no other path through shell, elf_exec or system calls      *)
(* hangs.                                                                  *)
CommandsComeBack ==
  (stack # <<>> /\ ~ At("program")) ~> (stack = <<>> \/ At("program") \/ Stuck)

(* And what is stuck stays so: its own interrupt keeps the keyboard out.   *)
StuckForGood == [][Stuck => Stuck']_vars

(* Keys are taken as long as there are any and no command runs.            *)
KeysAreTaken ==
  []<><<KeyInterrupt>>_vars \/ <>[](port = <<>>) \/ []<>(stack # <<>>)

(* "Process Exit", says syscall.c:75: the command that ran the process     *)
(* comes to its end.                                                       *)
ExitEnds == At("exit") ~> stack = <<>>

=============================================================================
