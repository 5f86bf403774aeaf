# RoxyOS: a verification project

RoxyOS is a small 32-bit x86 kernel: a boot loader, interrupt handling, a
cooperative process scheduler, a keyboard driven shell, a flat file system on
an ATA disk, a heap, an ELF loader and an `int 0x80` system call interface.
This directory holds TLA+ models of it, the TLC configurations that check
them, and proofs checked by TLAPS. `PROJECT.json` lists components, runs,
mutants, hazards and theorems, and maps every definition to the lines it
models. Paths below are relative to `src/`; file names without a directory are
in `src/kernel/`.

## 1. Inventory

### Components

| part | code | state | operations |
|---|---|---|---|
| processes | `process.c` | `process_table[]`, `current_process` | create_kernel, switch, yield, sleep, exit |
| scheduler | `scheduler.c`, `idle.c` | `processes[]`, `process_count`, `current`, `idle_process`, `need_resched`, `scheduler_ticks` | init, set_idle, add, remove, next, tick, wakeup |
| interrupts | `arch/x86/irq.c`, `irq.asm`, `pic.c` | the controller's requested and in-service bits, IF | irq_handler, end-of-interrupt |
| keyboard and line editor | `keyboard.c` | `input_buffer`, its length and cursor, modifiers; `keyboard_queue` | IRQ 1 handler, getchar, redraw |
| screen | `drivers/vga.c`, `drivers/console.c` | cells, cursor, where the input starts | putchar, putentry_at, scroll, set_cursor |
| shell | `shell.c` | none between lines | cutting a line into words, 13 commands |
| file system | `fs/simplefs.c`, `vfs.c` | superblock, file table and data sectors on the disk; nothing in RAM | format, create, find, write, read, delete, list |
| disk driver | `arch/x86/ata.c` | none; the registers are the drive's | read_sector, write_sector |
| heap | `libk/memory.c` | block headers in the heap, `heap_ptr` | kmalloc, kfree |
| loader | `elf_loader.c` | the program's memory, one buffer | elf_load, elf_exec |
| descriptors | `fd.c` | `fd_table[16]` | init, alloc, close, filename, valid |
| system calls | `syscall.c`, `arch/x86/isr.c` | none of their own | write, exit, getchar, open, read, close |
| timer | `arch/x86/pit.c`, `timer.c` | `timer_ticks` | tick, get_ticks, sleep |
| boot, tables, library | `../boot/`, `arch/x86/gdt.c`, `idt.c`, `tss.c`, `lib/user/`, `libk/string.c`, `libk/printk.c` | written once, or none | set-up, formatting |

### How they meet

Everything runs on one processor. There are two ways the kernel is put
together, and both are modelled.

*As committed*, `kernel_main` ends in `sti; hlt`. All work happens inside
interrupts: IRQ 1 -> `keyboard_handler` -> (on Enter) `shell_execute` -> file
system, or `elf_exec` -> the program, which comes back through `int 0x80`, and
only when all of that has returned does `irq_handler` send the end of the
interrupt. IRQ 0 counts ticks. Two places inside turn interrupts on again:
`keyboard_getchar` and `SYS_EXIT`.

*With tasks*, as the commented block of `kernel_main` (`kernel.c:82-96`) sets
them up: an idle process and kernel tasks that call `process_yield`,
`process_sleep` and `process_exit`. Nothing is disabled around the scheduler's
data, so IRQ 0 falls between any two statements and writes task states and
`need_resched` under them.

### What is hard, and what makes each part correct

* **Scheduler**: interrupts between two statements; the idle task's
  check-then-halt, where a tick between the test and the `hlt` wakes a task and
  the processor halts over it; the queue half shifted while the interrupt walks
  it; the wrap of a 32-bit tick counter. Correct: nothing but a saved, READY
  context is resumed; a woken task is halted over once at most, and never woken
  early; everybody ready runs.
* **Interrupts, keyboard queue, programs**: interrupts on inside an interrupt
  that is still in service; a program waiting for a key that its own interrupt
  keeps out. Correct: the shell (static buffers) is never entered twice; the
  queue is a queue; every buffer is freed; commands come back.
* **Line editor**: bytes shifted in a buffer, and a picture that is drawn by
  position while the screen scrolls under it. Correct: the shell gets what was
  typed; what is seen is what is typed.
* **File system**: sectors that fail, or a power loss between two of them;
  a drive that has not yet stored what it accepted; allocation by scanning the
  table. Correct: files share no sector; an operation touches its own file
  only; a growing file is old or new; what is lost with the power is the last
  step.
* **Heap**: headers found only by walking. Correct: blocks tile the heap, no
  byte is held twice, free neighbours merge.
* **Shell**: a line is cut in place, one pass, and its arguments are put
  together again; a command fails half way when a call below it fails. Correct:
  every line comes back to the prompt, and each command does what it says with
  the words of its line.
* **Disk driver**: a drive that works at its own pace behind a handful of
  registers, polled without a limit; a status that is stale for a moment.
  Correct: both agree on what the next word is, whole sectors go where they
  should, every call returns.
* **ELF loader**: buffer, kernel and programs in one unprotected memory, headers
  read from it while it is written. Correct: what is called is in memory as its
  headers say, and nothing else was touched.

The single hazards, each with its line and the properties that watch it, are
`hazards` in `PROJECT.json`.

## 2. Modules and how they correspond to the code

```
CoopSched   <- refined by -  Scheduler   <- SchedulerNaps (adds two ghosts)
                                            <- SchedulerProofs
CharQueue   <- refined by -  Machine     <- MachineProofs
Editor      <- refined by -  LineEditor  <- LineEditorProofs
FileStore   <- refined by -  SimpleFS    <- SimpleFSProofs
SectorIO    <- refined by -  Ata         <- AtaProofs
Allocator   <- refined by -  Heap        <- HeapProofs
Notebook    <- refined by -  Shell       <- ShellProofs
   (Shell extends CommandLine, Notebook extends Words)
                             ElfLoader   <- ElfLoaderProofs
```

Every `MC...` module instantiates the module behind its prefix for TLC; Heap
needs none, its constants are numbers.
Definitions whose comment says "a mutant" are the same operation with a
plausible mistake; no specification uses them, they show that each property
can fail.

### Scheduler

Variables carry the names of the C globals and locals; `pc` says which
statement each context stands at and `cpu` whose stack the processor is on. A
statement that touches a field IRQ 0 also touches is one step, because the
interrupt may come before and after it. `Tick` is the whole of
`timer_interrupt`, `scheduler_tick` and `scheduler_wakeup`: `irq.asm` runs with
interrupts off. `Boot` is the commented block of `kernel_main`; the order of
creation, `scheduler_add` and `sti` is the block's. `process_switch` is two
steps, the marks (`SwitchMark`) and the change of stacks (`SwitchEnter`).
Locals are reset when the function that owns them is left, which merges states
that differ in dead values only. `timer_ticks` and `wakeup_tick` are numbers
modulo `TickMod` (2^32 in the kernel).

`idle_task` (`idle.c:7-17`) has three points: `idle`, in front of `hlt`; `hlt`,
halted; and `check`, in front of the test of `need_resched`. Interrupts are on
at all of them after the first turn, so a tick at `idle` is consumed there and
the processor halts all the same (`Halt`) until the next interrupt. What then
holds is `HaltsOverOnce`.

*SchedulerNaps* adds two ghosts for each process: `nap`, when its nap began and
how long it was to be, so that "early" and "late" can be said although the
counter wraps; and `halts`, how often the idle task has halted since the
process was woken.

*CoopSched* is what the scheduler promises its tasks: the processor changes
hands only when its owner asked, and only to a task that is ready.

### Machine

The kernel as committed, from the interrupt controller to system calls. A
handler that runs to its end with interrupts off is one action. A keyboard
interrupt that runs a command is an element of `stack`, with the point it has
reached; that the stack never holds two is the first thing the model shows, and
nothing in the actions assumes it. `requested` and `inService` are the 8259's
registers: an interrupt is delivered if none of the same or a higher priority
is in service. The end-of-interrupt of `irq.c` names no interrupt and clears
the highest one in service. When both interrupts wait the model delivers either
first, which allows more than the hardware does. Which command a line names is
left open: on Enter the shell runs any. A program is any sequence of system
calls. `keyboard_getchar` is four points (test, hlt, read, advance), because
interrupts are on in between. `opened` is a history variable: the descriptors
the running program opened. `files` is all that Machine keeps of the file
system.

*CharQueue* is the promise of the keyboard queue: keys, which can be seen as
soon as they are pressed, are accepted in their order; the character of an
accepted key goes to the end of the queue, and is dropped only when the queue is
full; characters come out in their order, each once. A queue that loses a
character it has room for is no implementation of it.

### LineEditor

One action is one keyboard interrupt. Enter runs the shell inside it; Machine
shows that no other key is handled until it returns (`NotReentered`), so Enter
is one action here too, and of the shell only what it prints matters. Screen
operations are functions of a record of the screen, in the order in which
`keyboard_redraw_input` makes them: clear the old cells, write the new ones by
position, then set the cursor, which may scroll. The longest line fits on the
screen wherever it begins (`LineEditorAssumption`; 255 characters on 25 rows of
80): on a smaller screen `input_start_y` would stop at 0 while the line scrolls
on, and the picture would be wrong. `longest` is history. What is
behind the cursor need not be visible: when a character inserted in the last
row pushes the end of the line below the screen, the redraw drops it until the
cursor gets there. `ScreenShowsLine` therefore speaks of what is before the
cursor, and of what was erased.

*Editor* is a line with a cursor: insert, erase, move. It allows a key to change
nothing, and does not say which character a key with Shift gives.

### CommandLine and Shell

CommandLine is the loop of `shell_execute` (`shell.c:267-295`), one turn of a
loop per action, over a copy of the line with the zeroes it writes. Shell is
what `keyboard_handler` does with a line: cut it, find the command by its name,
run it, come back to the prompt. `cmd_write` and `cmd_echo` go through their
arguments one turn at a time; the other commands are one action each. Below
them `files` stands for the table and the data of `simplefs.c` as far as names
and texts of less than a sector go (a line is shorter than one): each call may
fail, and a write that fails at its entry has already changed the sector of a
file that had one. `mkfs` says it is done in any case (`shell.c:249-251`) and
leaves any of the files, since `simplefs_format` goes on when a sector cannot
be written. That a read which fails is taken for a missing name by `touch` is
SimpleFS's subject and not here. `simplefs_create` copies a name into the 32
bytes of its field without looking (`fs/simplefs.c:135`): `NamesFit` is the
assumption that no name a line creates is longer. `print` stands for the
commands that only print (`help`, `version`, `clear`, `ls`, `diskread`, and
`diskwrite`, which writes sector 100: behind the kernel image and before
`SIMPLEFS_START_SECTOR`). `run` is in Machine and ElfLoader. `out` is what the
user reads, without the wording.

*Words* says what the words of a line are by where they begin and end, and
*Notebook* what the shell promises its user: each command as one step, in terms
of the words of the line; a failed one changes nothing, except that an
interrupted overwrite may show the beginning of the new text. Of `mkfs` it
promises less: the notes it leaves are as they were.

### Ata

Driver and drive, each with a program of its own, and between them `regs`,
`dev` (of which `BSY` and `DRQ` are the shown part), `error` and the data port,
which stands for word `at` of the drive's `sector`. Every access to a port that
can matter is a step. The turns of a polling loop that change nothing are left
out: `ata_wait_busy` and `ata_wait_drq` are their last turns. The drive is not
in the repository. What the model assumes of it is what `ata.c` relies on: BSY
is up within the four status reads of `ata_delay`, and within one access to a
port behind the last word (so that the very first read there may be stale,
which `WriteReturns` shows); a busy drive shows no ERR and no DF; a command
once accepted comes to an end. It may refuse any command and may lose any
sector after the transfer, with ERR or DF, and the power may fail.

*SectorIO* is what the file system builds on, and what SimpleFS uses as one
step: whole sectors, in order; a write that is reported done is with the drive,
stored before the next call reads or writes, unless it is lost without a word.

### ElfLoader

`elf_exec` and `elf_load` over one memory of cells. The image lies in the heap,
is read back from there at each turn of the loop (`ehdr` and `segment` are
expressions over `mem`), and the program then writes what it owns until it
returns. A cell holds a byte, a whole ELF header or a whole program header, so
offsets count cells; that `elf_load` reads the fields of a header without
looking at the size of the file, so that a file cut off inside its headers is
judged by what lies in the heap behind it, cannot be told at this grain. The
loader trusts a file with a good header; `Sound` says what that trust is: the
headers speak of cells that are in the file, and of addresses in the area
behind the heap where programs are linked (`ELF_LOAD_BASE`). A read may fail
half way; the heap may hand out any place (Heap shows that what it hands out is
nobody else's).

### SimpleFS

`table` and `data` are the disk as the drive has it. Calls come one at a time;
one that writes at most one sector is one action, `simplefs_write` and
`simplefs_format` take a step per sector and the power may fail between two
(`PowerLoss`). The drive may say that a sector is written before it has stored
it (`Ata`, `WriteReturns`). `safe` is the disk without the sector it was given
last: a loss of power leaves either. `DriveStores` says why no more is at
stake: each call waits for the drive before it gives a command (`ata.c:64`,
`:91`). A sector is stored whole or not at all.

Sizes are counted in sectors and a sector holds one value: the
`(size + 511) / 512` of the allocator and of the loops is what a size is here.
`simplefs_read` also compares and copies bytes (lines 312 to 334); that, and
how a sector is filled up that is only partly used, is abstracted. The
superblock is written and never read back and is left out. The disk may fail to
read, fail to write and say so, or lose a write without saying so
(`ata_write_sector` does not look at the status after the transfer).
`cmd_write` writes one sector; the model allows the larger writes `vfs_write`
accepts. The search of `simplefs_alloc_sector` is by where a free run ends
(`RunEnds`), from which its beginning is computed as in line 81.

*FileStore* is a map from names to contents. Create, write, read and delete
succeed as a whole or fail without effect, except that an overwrite in place
may stop half way. Format always says it is done: no file is left then, unless
the disk missed a write (`MayMiss`), when any of the files may be there as they
were. A loss of power ends the call in progress and takes back its last step or
nothing; the step before is safe as soon as the next is taken.

### Heap

`block` holds the headers the walk meets, by address; `kmalloc` and `kfree`
run with interrupts off and are one action each. Callers are any that free what
they got, once; `held` is their side. `kmalloc` and `kfree` are stated with
sets: the blocks that fit, the blocks that merging absorbs. The two loops of
`memory.c` are there too, turn by turn (`WalkTurn`, `CoalesceTurn`), and
`WalksAgree` says that they end and do what the sets say. Sums do not wrap in
the model; in the kernel the only caller asks for a file's size, far below 2^32.

*Allocator* is the promise to callers: what is handed out lies in the heap
and overlaps nothing held.

## 3. What is checked

| run | instance | shows |
|---|---|---|
| `sched` | 4 slots, slice 2, counter mod 2 | `WalkComplete`, `SwitchTargetSaved`, `ExitIsFinal`, Scheduler implements CoopSched; a ready task runs, a sleeping one returns |
| `sched_naps` | 3 slots, naps 0..3, counter mod 6 | no nap ends early and each interrupt wakes everybody due, unless the counter wrapped during the nap; idle halts over a woken task once at most (`HaltsOverOnce`) |
| `machine` | 2 keys, 2 files, queue 3, 1 descriptor, 2 keys waiting | `NotReentered`, `ServiceLasts`, `OpenFilesStay`, `ImagesFreed`, `TypeAheadOnly`, the queue implements CharQueue; commands come back unless stuck, keys are taken while no command runs |
| `machine_exit` | 1 key, 1 file, queue 2, no descriptor | **violated**, see findings |
| `line_editor` | screen 2 x 3, buffer 5 | `ShellGetsTheLine`, `ScreenShowsLine`, and LineEditor implements Editor |
| `shell` | lines up to 5 and some longer ones, 4 arguments, 1 file | `PromptComesBack`, and Shell implements Notebook |
| `ata` | registers of 1 bit, sectors of 2 words, 3 addresses, all faults | `InPhase`, `CallsReturn`, and Ata implements SectorIO |
| `elf` | 5 files over 10 cells of memory | `LoadedAsSaid`, `KeepsToItsOwn` |
| `fs_faults` | 2 names, 3 entries, 4 sectors, all faults, power loss with or without the last sector | `NoSharedSectors`, `OthersUntouched`, `GrowthKeepsOld` |
| `fs_store` | 2 names, 2 entries, 4 sectors, writes up to 3, reported write errors, power loss as above | `UniqueNames`, and SimpleFS implements FileStore |
| `fs_mkfs` | 2 names, 3 entries, 3 sectors | **violated**, see findings |
| `heap_small` | 80 bytes, sizes 0, 3, 8, 20, 28 | `Tiled`, `HeldIsUsed`, `NoFreeNeighbours`, `WalksAgree`, and Heap implements Allocator |

Why the bounds are enough. *Scheduler*: idle and three tasks are the fewest for
which a round robin can starve somebody, or a removal in the middle of the
queue can skip somebody. A counter of 2 values wraps in every long behaviour;
naps need 6 values to end both before and behind the wrap. *Machine*: a queue
of 3 places can be empty, full and wrapped, one descriptor can be free, taken
and left open. The keyboard holds two keys for the port (`MaxPort`), so that
the controller has to ask again for the second. *LineEditor*: a line of 4
characters is longer than two rows of 2, so that it wraps, reaches the last row
and scrolls the screen while it is edited in the middle. *Shell*: all lines of
up to five of two letters and the space have up to three words, spaces at
either end and several between; the longer ones overfill `argv`, write two
texts of which one begins like the other, and reach every command with and
without its arguments. *Ata*: registers of one bit make an address of four, and
the three addresses tell each register from the others; of two words one is not
the last. *ElfLoader*: the files are programs with one segment and with two
that overlap, memory larger and smaller than the file's part, one to skip, and
two kinds of files that are none; the heap has two places for the largest.
*SimpleFS*: three entries over two sectors of the table have neighbours in the
same sector and in another; four sectors can be full, or too fragmented for a
write that would fit. *Heap*: 80 bytes are four blocks and more, with sizes on
both sides of the rounding to four and of the split threshold.

Symmetry is used in `fs_faults` and `fs_store` (names and contents, no
liveness). No run switches the deadlock check off.

### Fairness

* Scheduler: weak fairness of the boot code, of the kernel's and the tasks' own
  steps (the processor executes what it stands at; a task that computes for
  ever without calling the scheduler is outside, as the scheduler is
  cooperative) and of `Tick` (the PIT is programmed once and never stopped).
* Machine: weak fairness of the kernel's steps, of the delivery of each
  interrupt and of the timer. Nothing is assumed of keys or programs.
* Shell: a command goes on until the prompt; interrupts wait while it runs.
* Ata: the driver goes on, and so does the drive with a command it has
  accepted. The second is an assumption about the device: `ata.c` has no limit
  for its patience, and hangs with a drive that never answers.

### Findings

* `fs_mkfs`: `simplefs_format` ignores failed writes (`fs/simplefs.c:106`,
  `:111`) and `mkfs` prints "SimpleFS formatted." (`shell.c:251`) although the
  table still holds files. FileStore and Notebook promise of a format what the
  code does: the answer is always the same, and files may be left as they were.
* `machine_exit`: `SYS_EXIT` prints "Process Exit" (`syscall.c:75`) and then
  loops with interrupts on, inside the keyboard interrupt. It never returns to
  `elf_exec`, whose buffer stays allocated, and no key reaches the shell again.
  The theorem `StuckStays` says the same of a program that waits in
  `keyboard_getchar` once the queue is empty: it can read only what was typed
  before it started.

## 4. What is proved

For every value of the constants, from the assumptions named in the modules.

**SchedulerProofs** (assumption `SchedulerAssumption`). `TypeCorrect`,
`QueueIsWhole`, `SwitchesAreSafe`, `ExitedStayExited`, `NoLostWakeup`,
`Refinement` (of CoopSched). None of the properties is inductive: that the
queue stays complete depends on nobody resurrecting an exited process, which
depends on the targets of switches, which depends on what every suspended
context was doing. `IInv` carries that in named parts: `BootPart` (the boot
stack is left for good), `ParkedPart` (whoever is off the processor is parked
in `process_switch` or has not started), `RunnerPart` (what the runner is
doing), `CurrentPart`, `TargetPart`, `ExitPart`, `IdlePart`, `QueuePart` (who
is in the queue while it is being shifted). `NoLostWakeup` needs besides what
the scan knows (`NewsPart`): whoever is READY behind its index (`Visited`)
became so after it was looked at, and has left `need_resched` set, since
nothing clears that during a scan. So whenever the idle task is about to halt
over a task the timer has woken, `need_resched` is set (`ReadyIsKnown`): the
tick fell between the test and the `hlt`, or into the scan. After that one halt
the test leads to a scan that does not miss the task (`Coming`, `HaltPart`).
This is said for the specification with the ghosts, and so are
`NapsLastLongEnough` and `NobodyOversleeps`: no nap ends early, and no
interrupt leaves a sleeper whose time has come, for counters of any width as
long as the counter did not wrap during the nap. Only `process_sleep` makes a
task BLOCKED, between its two assignments nobody is woken, and `wakeup_tick` is
the nap's beginning plus its length (`NapPart`).

**MachineProofs** (`MachineAssumption`). `TypeCorrect`, `ShellIsNotReentered`,
`KeyboardStaysInService`, `BuffersComeBack`, `OpenFilesAreThere`,
`OnlyTypeAhead`, `StuckStays`, `Refinement` (of CharQueue). The argument: the
keyboard interrupt is in service exactly while there is a command
(`InServiceIs`, which also says that the timer's never outlives its handler),
so the controller delivers no second one, so the stack holds at most one
command and each of its steps finds what the step before has left (`ImagesAre`,
`OpenFilesStay`). For the queue `QueuePart` says what `keyboard_getchar` knows
between its two statements; the lemmas `PushAppends`, `AdvanceTakes` and
`FullHasNoRoom` do the arithmetic of the ring with its one unused place.

**HeapProofs** (`HeapAssumption`: the heap starts at a multiple of four).
`TypeCorrect`, `BlocksTileTheHeap`, `HeldBlocksAreUsed`, `FreeBlocksAreMerged`,
`NothingIsLost`, `Refinement` (of Allocator). Here the checked invariants are
inductive together. Two lemmas carry the weight: `BlockBefore` (in a tiled heap
every block but the first begins where another ends) gives merging, and
`SplitKeeps` that the header cut out of a block lies where none was. For
refinement, a used block lies wholly before or behind the one handed out.
`LoopsDoWhatTheSetsSay` is `WalksAgree`: by induction over the turns, the walk
of `find_free_block` has met exactly the headers before where it is (`Walked`;
so the first fit is the lowest), and `coalesce_blocks` is done with the blocks
before the one it is at, which reaches to where all is still as it was
(`MergedPart`, with `GoOn`, `TakeIn` and `BreakOff` for the three ways a turn
may go). Each turn gets past a header, so `Turns` of them reach the end.

**AtaProofs** (`AtaAssumption`: registers, sectors and addresses of any size).
`StayInPhase` and `Refinement` (of SectorIO). `InPhase` holds because at each
point of the driver the drive can be in few states (`DevPart`), an error is
only shown by a drive that has given up (`BusyPart`), and what lies in the
registers belongs to the call in progress (`CommandPart`, `CallPart`);
`DataPart` says which words have crossed so far, for the refinement. The lemma
`RegistersNameAddress` does the arithmetic: the four fields that
`ata.c:66-73` cuts an address into, put together again, are that address.

**SimpleFSProofs** (`SimpleFSAssumption`: tables and disks of any size).
`NothingIsShared`, `OthersKeepTheirs` and `OldContentsStay` for all faults and
every loss of power; `NamesAreUnique` when sectors can be read (a failed read
makes `simplefs_find` say there is no such name); `Refinement` (of FileStore)
when besides no failed write goes unreported, that is for
`Faults \subseteq {"write"}`. Needed beyond the checked invariants: that an
entry's size and its number of sectors belong together (`SizePart`), and where
a write in progress stands (`WritePart`): in the sectors of its own entry
(`InPlace`), or in sectors that no entry has (`Elsewhere`), which the allocator
found free over their whole length (`AllocatedIsFree`). The disk that `safe`
describes has the same invariant, being the disk of one step before
(`SafePart`, `GoodDisk`; `SafeNames` for the names), so a loss of power leads
back into it. For refinement, the sectors written so far hold the beginning of
the new contents (`Copied`), entries not in use are empty (`NoLeftovers`), and a
format that missed no sector has emptied the entries behind it (`Emptied`).

**ElfLoaderProofs** (`ElfLoaderAssumption`: files of any length and number of
segments whose headers are `Sound`). `ProgramsAreLoaded` and
`NothingElseIsTouched`. The image lies in the heap and the segments behind it
(`ImagePart`), so the headers read back from memory are still the file's
(`LoopPart`); `LoadedPart` is `LoadedAsSaid` for the segments done so far.

**LineEditorProofs** (`LineEditorAssumption`: a buffer and a screen of any
size, any keys). `ShellGetsWhatIsTyped` and `Refinement` (of Editor). The
invariant `LineIs`: the buffer holds characters up to `input_length` and a zero
there. `TypeBytes` and `BackspaceBytes` say byte by byte what the two shifting
loops do, the lemmas `Inserted` and `Erased` the same of Editor's sequences.
`PictureIsRight` is `ScreenShowsLine`, and `CursorStaysOnScreen` that
`vga_putchar`, which does not look, writes inside the screen's memory. Two
characters never share a cell (`PlacesDiffer`, from division with remainder);
what is printed keeps the cursor on the screen (`PutsKeeps`, by induction over
the string); and a redraw (`RedrawShows`) moves the cursor by one place at
most, so everything before it is still on the screen when the cells are
written, the screen scrolls by one row at most, and there is a row above the
input to scroll away.

**ShellProofs** (`CommandLineAssumption`, `ShellAssumption`: lines of any
length over any characters whose names fit in an entry, an `argv` of any size).
`EachArgumentIsAWord`: when the pass of `shell_execute` over the line is done,
the strings in `argv` are the words of the line, whole, in order, and none is
missing but those for which `argv` has no place. `PassStaysInCopy`: the pass
never leaves the copy. The invariant says where the zeroes stand, exactly over
the spaces behind words up to `token` (`CopyPart`), which words are known
(`StartPart`, `SeenPart`) and where those behind end (`EndPart`). `Refinement`
(of Notebook): `argv` being the first words of the line (`WordsInArgv`), the
text that `cmd_write` and `cmd_echo` put together is after each turn what
Notebook joins from as many words (`TextPart`, with `JoinMore` for one turn), a
file never holds more than its sector (`FilesPart`), and then every command
maps to Notebook's, a failed write and a `mkfs` that leaves files included.

Induction. The library's induction theorems take an operator as a parameter,
which the provers cannot instantiate. What is defined by recursion over numbers
(a loop turn by turn, a string character by character) is proved about all the
same: `WFMin` and `NatLessThanWellFounded` of WellFoundedInduction speak of
sets, and give that a set of naturals has a least member (`Least`) and that one
with 0 and with the successor of each member holds all (`Induction`). The
modules that need these two lemmas state and prove them.

Model-checked only: what holds under fairness (`ReadyRuns`, `SleepReturns`,
`CommandsComeBack`, `KeysAreTaken`, `PromptComesBack`, `CallsReturn`), which is
beyond the prover. Every other property of a passing run is a theorem.

## 5. What is not modelled

Boot sectors and the tables written once at boot (straight-line code); port
programming other than the disk's; exceptions, which print and halt;
formatting of numbers; the busy wait of `timer.c`, which nobody calls; user
mode, whose call is commented out; process stacks and register contents;
colours and the hardware cursor's ports. Headers of executables that are not
`Sound`, files cut off inside a header, and names longer than their field.

## 6. Plan

Order of work, most important behaviour first. Done: Scheduler with CoopSched
and its proofs; SimpleFS with FileStore and its proofs; Heap with Allocator and
its proofs; Machine with CharQueue and its proofs; LineEditor with Editor and
its proofs; Ata with SectorIO and its proofs; ElfLoader and its proofs; Shell
with Notebook and its proofs.

Next: the part of `PromptComesBack` and `CallsReturn` that is not temporal, a
measure that every step of a command or of a call makes smaller.
