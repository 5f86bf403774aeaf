--------------------------- MODULE MachineProofs ---------------------------
(***************************************************************************)
(* Proofs about Machine, for any number of keys, files, descriptors and    *)
(* queue places.                                                           *)
(*                                                                         *)
(* The argument: the keyboard interrupt is in service exactly while there  *)
(* is a command, the controller delivers no second one meanwhile, so there *)
(* is never more than one command and every step of it finds the stack as  *)
(* the step before has left it.                                            *)
(***************************************************************************)
EXTENDS Machine, SequenceTheorems, WellFoundedInduction, TLAPS

(***************************************************************************)
(* The inductive invariant                                                 *)
(***************************************************************************)
(* ServiceLasts, and the timer interrupt is never left in service          *)
InServiceIs == inService = IF stack = <<>> THEN {} ELSE {KEYBOARD}

(* ImagesFreed, followed through elf_exec: one buffer from its allocation  *)
(* until it is freed                                                       *)
ImagesAre ==
  images = IF stack = <<>> \/ Top \in {"shell", "return"} THEN 0 ELSE 1

IInv ==
  /\ TypeOK
  /\ NotReentered
  /\ InServiceIs
  /\ ImagesAre
  /\ OpenFilesStay

(***************************************************************************)
(* The stack                                                               *)
(***************************************************************************)
(* p is the point of the one command on stack s                            *)
OneAt(s, p) ==
  s \in Seq(Point) /\ s # <<>> /\ Len(s) = 1 /\ s[1] = p /\ s[Len(s)] = p

(* With a command on the stack, its point is the only element.             *)
LEMMA OneCommand ==
  ASSUME TypeOK, NotReentered, stack # <<>>
  PROVE  OneAt(stack, Top) /\ Top \in Point
<1>1. stack \in Seq(Point)
  BY DEF TypeOK
<1>2. Len(stack) = 1
  <2>1. Len(stack) \in Nat \ {0}
    BY <1>1, EmptySeq
  <2>2. Len(stack) <= 1
    BY DEF NotReentered
  <2>3. ASSUME NEW n \in Nat \ {0}, n <= 1 PROVE n = 1
    BY <2>3, SMT
  <2> QED
    BY <2>1, <2>2, <2>3, Zenon
<1>3. stack[1] \in Point
  BY <1>1, <1>2, ElementOfSeq
<1> QED
  BY <1>1, <1>2, <1>3 DEF Top, OneAt

(* Replacing the top replaces everything.                                  *)
LEMMA ReplaceTop ==
  ASSUME TypeOK, NotReentered, stack # <<>>, NEW p \in Point
  PROVE  OneAt([stack EXCEPT ![Len(stack)] = p], p)
<1> DEFINE s == [stack EXCEPT ![Len(stack)] = p]
<1>1. stack \in Seq(Point) /\ Len(stack) = 1
  BY OneCommand DEF OneAt
<1>2. s \in Seq(Point) /\ Len(s) = 1 /\ s[1] = p
  BY <1>1, ExceptSeq
<1>3. s # <<>>
  BY <1>2, EmptySeq
<1> QED
  BY <1>2, <1>3 DEF OneAt

(* An interrupt that does not start a command leaves no command, or the    *)
(* one there is where it is, or awake.                                     *)
LEMMA WokenResult ==
  ASSUME TypeOK, NotReentered
  PROVE  /\ stack = <<>> => Woken = <<>>
         /\ stack # <<>> => OneAt(Woken, IF Top = "hlt" THEN "test" ELSE Top)
         /\ Woken \in Seq(Point)
<1>1. CASE stack = <<>>
  BY <1>1, EmptySeq DEF Woken, At
<1>2. CASE stack # <<>>
  <2>1. OneAt(stack, Top)
    BY <1>2, OneCommand
  <2>2. OneAt([stack EXCEPT ![Len(stack)] = "test"], "test")
    BY <1>2, ReplaceTop DEF Point
  <2> QED
    BY <1>2, <2>1, <2>2 DEF Woken, At, OneAt
<1> QED
  BY <1>1, <1>2

(***************************************************************************)
(* Descriptors and queue places                                            *)
(***************************************************************************)
(* A set of numbers has a least one.                                       *)
LEMMA LeastExists ==
  ASSUME NEW S, S \subseteq Nat, S # {}
  PROVE  \E x \in S : \A y \in S : x <= y
<1>1. PICK x \in S : \A y \in S : ~ (<<y, x>> \in OpToRel(<, Nat))
  BY NatLessThanWellFounded, WFMin
<1>2. \A y \in S : x <= y
  <2> SUFFICES ASSUME NEW y \in S PROVE x <= y
    OBVIOUS
  <2>1. x \in Nat /\ y \in Nat /\ <<y, x>> \in Nat \X Nat
    OBVIOUS
  <2>2. ~ (y < x)
    BY <1>1, <2>1, Zenon DEF OpToRel
  <2> QED
    BY <2>1, <2>2
<1> QED
  BY <1>2

(* fd_alloc gives an unused descriptor if there is one.                    *)
LEMMA FdAllocUnused ==
  ASSUME Unused # {}
  PROVE  fd_alloc \in Unused /\ fd_alloc \in Fd
<1>1. Unused \subseteq Fd /\ Unused \subseteq Nat
  BY MachineAssumption DEF Unused, Fd
<1>2. \E fd \in Unused : \A x \in Unused : fd <= x
  BY <1>1, LeastExists
<1> QED
  BY <1>1, <1>2 DEF fd_alloc

(* The place after a place is one, at the end of the array too.            *)
LEMMA NextPlace ==
  ASSUME NEW i \in Place
  PROVE  (i + 1) % KEYBOARD_QUEUE_SIZE \in Place
  BY MachineAssumption DEF Place

(***************************************************************************)
(* The steps of a command                                                  *)
(***************************************************************************)
LEMMA OtherCommandStep ==
  ASSUME IInv, OtherCommand
  PROVE  IInv'
<1>1. OneAt(stack, "shell")
  BY OneCommand DEF IInv, OtherCommand, At, OneAt
<1>2. OneAt(stack', "return")
  BY <1>1, ReplaceTop DEF IInv, OtherCommand, Goto, OneAt, Point
<1>3. TypeOK'
  BY <1>1, <1>2, MachineAssumption DEF IInv, TypeOK, Place, Fd,
     OtherCommand, controller, ring, fs, OneAt
<1>4. NotReentered'
  BY <1>2 DEF NotReentered, OneAt
<1>5. InServiceIs'
  BY <1>1, <1>2 DEF IInv, InServiceIs, OneAt, OtherCommand, controller
<1>6. ImagesAre'
  BY <1>1, <1>2 DEF IInv, ImagesAre, Top, OneAt, OtherCommand
<1>7. OpenFilesStay'
  BY <1>1, <1>2 DEF IInv, OpenFilesStay, Top, OneAt, OtherCommand, fs
<1> QED
  BY <1>3, <1>4, <1>5, <1>6, <1>7 DEF IInv

LEMMA TouchStep ==
  ASSUME IInv, NEW f \in File, Touch(f)
  PROVE  IInv'
<1>1. OneAt(stack, "shell")
  BY OneCommand DEF IInv, Touch, At, OneAt
<1>2. OneAt(stack', "return")
  BY <1>1, ReplaceTop DEF IInv, Touch, Goto, OneAt, Point
<1>3. TypeOK'
  BY <1>1, <1>2, MachineAssumption DEF IInv, TypeOK, Place, Fd, Touch,
     controller, ring, fs, OneAt
<1>4. NotReentered'
  BY <1>2 DEF NotReentered, OneAt
<1>5. InServiceIs'
  BY <1>1, <1>2 DEF IInv, InServiceIs, OneAt, Touch, controller
<1>6. ImagesAre'
  BY <1>1, <1>2 DEF IInv, ImagesAre, Top, OneAt, Touch
<1>7. OpenFilesStay'
  BY <1>1, <1>2 DEF IInv, OpenFilesStay, Top, OneAt, Touch, fs
<1> QED
  BY <1>3, <1>4, <1>5, <1>6, <1>7 DEF IInv

LEMMA RemoveStep ==
  ASSUME IInv, NEW S, Remove(S)
  PROVE  IInv'
<1>1. OneAt(stack, "shell")
  BY OneCommand DEF IInv, Remove, At, OneAt
<1>2. OneAt(stack', "return")
  BY <1>1, ReplaceTop DEF IInv, Remove, Goto, OneAt, Point
<1>3. TypeOK'
  BY <1>1, <1>2, MachineAssumption DEF IInv, TypeOK, Place, Fd, Remove,
     controller, ring, fs, OneAt
<1>4. NotReentered'
  BY <1>2 DEF NotReentered, OneAt
<1>5. InServiceIs'
  BY <1>1, <1>2 DEF IInv, InServiceIs, OneAt, Remove, controller
<1>6. ImagesAre'
  BY <1>1, <1>2 DEF IInv, ImagesAre, Top, OneAt, Remove
<1>7. OpenFilesStay'
  BY <1>1, <1>2 DEF IInv, OpenFilesStay, Top, OneAt, Remove, fs
<1> QED
  BY <1>3, <1>4, <1>5, <1>6, <1>7 DEF IInv

LEMMA RunStep ==
  ASSUME IInv, NEW f, Run(f)
  PROVE  IInv'
<1>1. OneAt(stack, "shell")
  BY OneCommand DEF IInv, Run, At, OneAt
<1>2. OneAt(stack', "exec")
  BY <1>1, ReplaceTop DEF IInv, Run, Goto, OneAt, Point
<1>3. TypeOK'
  BY <1>1, <1>2, MachineAssumption DEF IInv, TypeOK, Place, Fd, Run,
     controller, ring, fs, OneAt
<1>4. NotReentered'
  BY <1>2 DEF NotReentered, OneAt
<1>5. InServiceIs'
  BY <1>1, <1>2 DEF IInv, InServiceIs, OneAt, Run, controller
<1>6. ImagesAre'
  BY <1>1, <1>2 DEF IInv, ImagesAre, Top, OneAt, Run
<1>7. OpenFilesStay'
  BY <1>1, <1>2 DEF IInv, OpenFilesStay, Top, OneAt, Run, fs
<1> QED
  BY <1>3, <1>4, <1>5, <1>6, <1>7 DEF IInv

LEMMA ExecFailsStep ==
  ASSUME IInv, ExecFails
  PROVE  IInv'
<1>1. OneAt(stack, "exec")
  BY OneCommand DEF IInv, ExecFails, At, OneAt
<1>2. OneAt(stack', "return")
  BY <1>1, ReplaceTop DEF IInv, ExecFails, Goto, OneAt, Point
<1>3. TypeOK'
  BY <1>1, <1>2, MachineAssumption DEF IInv, TypeOK, Place, Fd, ExecFails,
     controller, ring, fs, OneAt, ImagesAre, Top
<1>4. NotReentered'
  BY <1>2 DEF NotReentered, OneAt
<1>5. InServiceIs'
  BY <1>1, <1>2 DEF IInv, InServiceIs, OneAt, ExecFails, controller
<1>6. ImagesAre'
  BY <1>1, <1>2 DEF IInv, ImagesAre, Top, OneAt, ExecFails
<1>7. OpenFilesStay'
  BY <1>1, <1>2 DEF IInv, OpenFilesStay, Top, OneAt, ExecFails, fs
<1> QED
  BY <1>3, <1>4, <1>5, <1>6, <1>7 DEF IInv

LEMMA ProgramStartsStep ==
  ASSUME IInv, ProgramStarts
  PROVE  IInv'
<1>1. OneAt(stack, "exec")
  BY OneCommand DEF IInv, ProgramStarts, At, OneAt
<1>2. OneAt(stack', "program")
  BY <1>1, ReplaceTop DEF IInv, ProgramStarts, Goto, OneAt, Point
<1>3. TypeOK'
  BY <1>1, <1>2, MachineAssumption DEF IInv, TypeOK, Place, Fd,
     ProgramStarts, controller, ring, fs, OneAt
<1>4. NotReentered'
  BY <1>2 DEF NotReentered, OneAt
<1>5. InServiceIs'
  BY <1>1, <1>2 DEF IInv, InServiceIs, OneAt, ProgramStarts, controller
<1>6. ImagesAre'
  BY <1>1, <1>2 DEF IInv, ImagesAre, Top, OneAt, ProgramStarts
<1>7. OpenFilesStay'
  BY <1>1, <1>2 DEF IInv, OpenFilesStay, Top, OneAt, ProgramStarts, fs
<1> QED
  BY <1>3, <1>4, <1>5, <1>6, <1>7 DEF IInv

LEMMA ProgramReturnsStep ==
  ASSUME IInv, ProgramReturns
  PROVE  IInv'
<1>1. OneAt(stack, "program")
  BY OneCommand DEF IInv, ProgramReturns, At, OneAt
<1>2. OneAt(stack', "return")
  BY <1>1, ReplaceTop DEF IInv, ProgramReturns, Goto, OneAt, Point
<1>3. TypeOK'
  BY <1>1, <1>2, MachineAssumption DEF IInv, TypeOK, Place, Fd,
     ProgramReturns, controller, ring, fs, OneAt, ImagesAre, Top
<1>4. NotReentered'
  BY <1>2 DEF NotReentered, OneAt
<1>5. InServiceIs'
  BY <1>1, <1>2 DEF IInv, InServiceIs, OneAt, ProgramReturns, controller
<1>6. ImagesAre'
  BY <1>1, <1>2 DEF IInv, ImagesAre, Top, OneAt, ProgramReturns
<1>7. OpenFilesStay'
  BY <1>1, <1>2 DEF IInv, OpenFilesStay, Top, OneAt, ProgramReturns, fs
<1> QED
  BY <1>3, <1>4, <1>5, <1>6, <1>7 DEF IInv

LEMMA CallGetcharStep ==
  ASSUME IInv, CallGetchar
  PROVE  IInv'
<1>1. OneAt(stack, "program")
  BY OneCommand DEF IInv, CallGetchar, At, OneAt
<1>2. OneAt(stack', "test")
  BY <1>1, ReplaceTop DEF IInv, CallGetchar, Goto, OneAt, Point
<1>3. TypeOK'
  BY <1>1, <1>2, MachineAssumption DEF IInv, TypeOK, Place, Fd, CallGetchar,
     controller, ring, fs, OneAt
<1>4. NotReentered'
  BY <1>2 DEF NotReentered, OneAt
<1>5. InServiceIs'
  BY <1>1, <1>2 DEF IInv, InServiceIs, OneAt, CallGetchar, controller
<1>6. ImagesAre'
  BY <1>1, <1>2 DEF IInv, ImagesAre, Top, OneAt, CallGetchar
<1>7. OpenFilesStay'
  BY <1>1, <1>2 DEF IInv, OpenFilesStay, Top, OneAt, CallGetchar, fs
<1> QED
  BY <1>3, <1>4, <1>5, <1>6, <1>7 DEF IInv

LEMMA GetcharReadStep ==
  ASSUME IInv, GetcharRead
  PROVE  IInv'
<1>1. OneAt(stack, "read")
  BY OneCommand DEF IInv, GetcharRead, At, OneAt
<1>2. OneAt(stack', "advance")
  BY <1>1, ReplaceTop DEF IInv, GetcharRead, Goto, OneAt, Point
<1>3. TypeOK'
  BY <1>1, <1>2, MachineAssumption DEF IInv, TypeOK, Place, Fd, GetcharRead,
     controller, ring, fs, OneAt
<1>4. NotReentered'
  BY <1>2 DEF NotReentered, OneAt
<1>5. InServiceIs'
  BY <1>1, <1>2 DEF IInv, InServiceIs, OneAt, GetcharRead, controller
<1>6. ImagesAre'
  BY <1>1, <1>2 DEF IInv, ImagesAre, Top, OneAt, GetcharRead
<1>7. OpenFilesStay'
  BY <1>1, <1>2 DEF IInv, OpenFilesStay, Top, OneAt, GetcharRead, fs
<1> QED
  BY <1>3, <1>4, <1>5, <1>6, <1>7 DEF IInv

LEMMA GetcharAdvanceStep ==
  ASSUME IInv, GetcharAdvance
  PROVE  IInv'
<1>1. OneAt(stack, "advance")
  BY OneCommand DEF IInv, GetcharAdvance, At, OneAt
<1>2. OneAt(stack', "program")
  BY <1>1, ReplaceTop DEF IInv, GetcharAdvance, Goto, OneAt, Point
<1>3. TypeOK'
  BY <1>1, <1>2, MachineAssumption, NextPlace DEF IInv, TypeOK, Place, Fd,
     GetcharAdvance, controller, ring, fs, OneAt
<1>4. NotReentered'
  BY <1>2 DEF NotReentered, OneAt
<1>5. InServiceIs'
  BY <1>1, <1>2 DEF IInv, InServiceIs, OneAt, GetcharAdvance, controller
<1>6. ImagesAre'
  BY <1>1, <1>2 DEF IInv, ImagesAre, Top, OneAt, GetcharAdvance
<1>7. OpenFilesStay'
  BY <1>1, <1>2 DEF IInv, OpenFilesStay, Top, OneAt, GetcharAdvance, fs
<1> QED
  BY <1>3, <1>4, <1>5, <1>6, <1>7 DEF IInv

LEMMA SysExitStep ==
  ASSUME IInv, SysExit
  PROVE  IInv'
<1>1. OneAt(stack, "program")
  BY OneCommand DEF IInv, SysExit, At, OneAt
<1>2. OneAt(stack', "exit")
  BY <1>1, ReplaceTop DEF IInv, SysExit, Goto, OneAt, Point
<1>3. TypeOK'
  BY <1>1, <1>2, MachineAssumption DEF IInv, TypeOK, Place, Fd, SysExit,
     controller, ring, fs, OneAt
<1>4. NotReentered'
  BY <1>2 DEF NotReentered, OneAt
<1>5. InServiceIs'
  BY <1>1, <1>2 DEF IInv, InServiceIs, OneAt, SysExit, controller
<1>6. ImagesAre'
  BY <1>1, <1>2 DEF IInv, ImagesAre, Top, OneAt, SysExit
<1>7. OpenFilesStay'
  BY <1>1, <1>2 DEF IInv, OpenFilesStay, Top, OneAt, SysExit, fs
<1> QED
  BY <1>3, <1>4, <1>5, <1>6, <1>7 DEF IInv

LEMMA SysOpenStep ==
  ASSUME IInv, NEW f \in File, SysOpen(f)
  PROVE  IInv'
<1>1. OneAt(stack, "program")
  BY OneCommand DEF IInv, SysOpen, At, OneAt
<1>2. OneAt(stack', "program")
  BY <1>1 DEF SysOpen
<1>3. TypeOK'
  BY <1>1, <1>2, MachineAssumption, FdAllocUnused DEF IInv, TypeOK, Place,
     Fd, SysOpen, controller, ring, fs, OneAt
<1>4. NotReentered'
  BY <1>2 DEF NotReentered, OneAt
<1>5. InServiceIs'
  BY <1>1, <1>2 DEF IInv, InServiceIs, OneAt, SysOpen, controller
<1>6. ImagesAre'
  BY <1>1, <1>2 DEF IInv, ImagesAre, Top, OneAt, SysOpen
<1>7. OpenFilesStay'
  BY <1>1, <1>2, FdAllocUnused DEF IInv, OpenFilesStay, Top, OneAt, SysOpen,
     fs, TypeOK
<1> QED
  BY <1>3, <1>4, <1>5, <1>6, <1>7 DEF IInv

LEMMA SysCloseStep ==
  ASSUME IInv, NEW fd \in Fd, SysClose(fd)
  PROVE  IInv'
<1>1. OneAt(stack, "program")
  BY OneCommand DEF IInv, SysClose, At, OneAt
<1>2. OneAt(stack', "program")
  BY <1>1 DEF SysClose
<1>3. TypeOK'
  BY <1>1, <1>2, MachineAssumption DEF IInv, TypeOK, Place, Fd, SysClose,
     controller, ring, fs, OneAt
<1>4. NotReentered'
  BY <1>2 DEF NotReentered, OneAt
<1>5. InServiceIs'
  BY <1>1, <1>2 DEF IInv, InServiceIs, OneAt, SysClose, controller
<1>6. ImagesAre'
  BY <1>1, <1>2 DEF IInv, ImagesAre, Top, OneAt, SysClose
<1>7. OpenFilesStay'
  BY <1>1, <1>2 DEF IInv, OpenFilesStay, Top, OneAt, SysClose, fs
<1> QED
  BY <1>3, <1>4, <1>5, <1>6, <1>7 DEF IInv

LEMMA GetcharTestStep ==
  ASSUME IInv, GetcharTest
  PROVE  IInv'
<1>1. OneAt(stack, "test")
  BY OneCommand DEF IInv, GetcharTest, At, OneAt
<1> DEFINE To(p) == [stack EXCEPT ![Len(stack)] = p]
<1>2. OneAt(stack', "hlt") \/ OneAt(stack', "read")
  <2>1. stack # <<>>
    BY <1>1 DEF OneAt
  <2>2. OneAt(To("hlt"), "hlt") /\ OneAt(To("read"), "read")
    BY <2>1, ReplaceTop DEF IInv, Point
  <2>3. stack' = To("hlt") \/ stack' = To("read")
    BY Zenon DEF GetcharTest, Goto
  <2> QED
    BY <2>2, <2>3, Zenon
<1>3. TypeOK'
  BY <1>2 DEF IInv, TypeOK, GetcharTest, controller, ring, fs, OneAt
<1>4. NotReentered'
  BY <1>2 DEF NotReentered, OneAt
<1>5. InServiceIs'
  BY <1>1, <1>2 DEF IInv, InServiceIs, OneAt, GetcharTest, controller
<1>6. ImagesAre'
  BY <1>1, <1>2 DEF IInv, ImagesAre, Top, OneAt, GetcharTest
<1>7. OpenFilesStay'
  BY <1>1, <1>2 DEF IInv, OpenFilesStay, Top, OneAt, GetcharTest, fs
<1> QED
  BY <1>3, <1>4, <1>5, <1>6, <1>7 DEF IInv

(***************************************************************************)
(* The devices, and the interrupts                                         *)
(***************************************************************************)
LEMMA DeviceStep ==
  ASSUME IInv, TimerFires \/ \E k \in Key \cup {Enter} : KeyDown(k)
  PROVE  IInv'
<1>1. UNCHANGED <<inService, iflag, stack, ring, c, eax, images, fs>>
  BY DEF TimerFires, KeyDown
<1>2. port' \in Seq(Key \cup {Enter}) /\ Len(port') <= MaxPort
  <2>1. CASE TimerFires
    BY <2>1 DEF IInv, TypeOK, TimerFires
  <2>2. ASSUME NEW k \in Key \cup {Enter}, KeyDown(k)
        PROVE  port' \in Seq(Key \cup {Enter}) /\ Len(port') <= MaxPort
    <3>1. port \in Seq(Key \cup {Enter})
      BY DEF IInv, TypeOK
    <3>2. port' \in Seq(Key \cup {Enter}) /\ Len(port') = Len(port) + 1
      BY <2>2, <3>1, AppendProperties DEF KeyDown
    <3>3. Len(port) \in Nat /\ Len(port) < MaxPort
      BY <2>2, <3>1, LenProperties DEF KeyDown
    <3> QED
      BY <3>2, <3>3, MachineAssumption
  <2> QED
    BY <2>1, <2>2
<1>3. requested' \subseteq {TIMER, KEYBOARD}
  BY DEF IInv, TypeOK, TimerFires, KeyDown
<1>4. TypeOK'
  BY <1>1, <1>2, <1>3 DEF IInv, TypeOK, ring, fs
<1> QED
  BY <1>1, <1>4
     DEF IInv, NotReentered, InServiceIs, ImagesAre, OpenFilesStay, Top, fs

(* The tick's own end-of-interrupt leaves what was in service.             *)
LEMMA TimerInterruptStep ==
  ASSUME IInv, TimerInterrupt
  PROVE  IInv'
<1>1. stack' = Woken
  BY DEF TimerInterrupt
<1>2. /\ Woken \in Seq(Point)
      /\ stack = <<>> => Woken = <<>>
      /\ stack # <<>> => OneAt(Woken, IF Top = "hlt" THEN "test" ELSE Top)
  BY WokenResult DEF IInv
<1>3. inService' = inService
  BY DEF IInv, InServiceIs, TimerInterrupt, Deliverable, EndOfInterrupt, TIMER,
         KEYBOARD
<1>4. TypeOK'
  BY <1>1, <1>2, <1>3 DEF IInv, TypeOK, TimerInterrupt, ring, fs
<1>5. NotReentered'
  BY <1>1, <1>2, EmptySeq DEF NotReentered, OneAt
<1>6. InServiceIs'
  BY <1>1, <1>2, <1>3 DEF IInv, InServiceIs, OneAt
<1>7. ImagesAre'
  BY <1>1, <1>2 DEF IInv, ImagesAre, Top, OneAt, TimerInterrupt
<1>8. OpenFilesStay'
  BY <1>1, <1>2 DEF IInv, OpenFilesStay, Top, OneAt, TimerInterrupt, fs
<1> QED
  BY <1>4, <1>5, <1>6, <1>7, <1>8 DEF IInv

(* The heart of the matter: a keyboard interrupt that is delivered finds   *)
(* no command.                                                             *)
LEMMA KeyFindsPrompt ==
  ASSUME IInv, Deliverable(KEYBOARD)
  PROVE  stack = <<>> /\ inService = {}
  BY DEF IInv, InServiceIs, Deliverable, KEYBOARD

LEMMA ReadPortTypes ==
  ASSUME TypeOK, port # <<>>, ReadPort
  PROVE  /\ port' \in Seq(Key \cup {Enter}) /\ Len(port') <= MaxPort
         /\ requested' \subseteq {TIMER, KEYBOARD}
<1>1. port \in Seq(Key \cup {Enter}) /\ Len(port) <= MaxPort
  BY DEF TypeOK
<1>2. Tail(port) \in Seq(Key \cup {Enter}) /\ Len(Tail(port)) = Len(port) - 1
  BY <1>1, HeadTailProperties
<1>3. Len(port) \in Nat
  BY <1>1, LenProperties
<1> QED
  BY <1>1, <1>2, <1>3, MachineAssumption DEF ReadPort, TypeOK

LEMMA CharacterKeyStep ==
  ASSUME IInv, CharacterKey
  PROVE  IInv'
<1>1. stack = <<>> /\ inService = {}
  BY KeyFindsPrompt DEF CharacterKey
<1>2. stack' = <<>> /\ inService' = {}
  BY <1>1, WokenResult DEF IInv, CharacterKey, EndOfInterrupt, KEYBOARD
<1>3. /\ queue' \in [Place -> Key \cup {NoKey}]
      /\ head' \in Place /\ tail' \in Place
  BY NextPlace DEF IInv, TypeOK, CharacterKey, keyboard_queue_push, ring
<1>4. TypeOK'
  BY <1>2, <1>3, ReadPortTypes, EmptySeq DEF IInv, TypeOK, CharacterKey, fs
<1> QED
  BY <1>1, <1>2, <1>4, EmptySeq
     DEF IInv, NotReentered, InServiceIs, ImagesAre, OpenFilesStay, CharacterKey

LEMMA EnterKeyStep ==
  ASSUME IInv, EnterKey
  PROVE  IInv'
<1>1. stack = <<>> /\ inService = {}
  BY KeyFindsPrompt DEF EnterKey
<1>2. inService' = {KEYBOARD}
  BY <1>1 DEF EnterKey
<1>3. OneAt(stack', "shell")
  <2>1. stack' = Append(<<>>, "shell")
    BY <1>1, WokenResult DEF IInv, EnterKey
  <2>2. "shell" \in Point /\ <<>> \in Seq(Point) /\ Len(<<>>) = 0
    BY EmptySeq DEF Point
  <2>3. stack' \in Seq(Point) /\ Len(stack') = 1 /\ stack'[1] = "shell"
    BY <2>1, <2>2, AppendProperties
  <2>4. stack' # <<>>
    BY <2>2, <2>3
  <2> QED
    BY <2>3, <2>4 DEF OneAt
<1>4. TypeOK'
  BY <1>2, <1>3, ReadPortTypes DEF IInv, TypeOK, EnterKey, ring, fs, OneAt
<1> QED
  BY <1>1, <1>2, <1>3, <1>4
     DEF IInv, NotReentered, InServiceIs, ImagesAre, OpenFilesStay, EnterKey,
         OneAt, Top

LEMMA HandlerReturnsStep ==
  ASSUME IInv, HandlerReturns
  PROVE  IInv'
<1>1. OneAt(stack, "return")
  BY OneCommand DEF IInv, HandlerReturns, At, OneAt
<1>2. stack' = <<>>
  <2>1. stack' = SubSeq(stack, 1, 0)
    BY <1>1 DEF HandlerReturns, OneAt
  <2> QED
    BY <1>1, <2>1, SubSeqEmpty DEF OneAt
<1>3. inService' = {}
  BY <1>1 DEF IInv, InServiceIs, OneAt, HandlerReturns, EndOfInterrupt,
                KEYBOARD
<1>4. TypeOK'
  BY <1>2, <1>3, EmptySeq DEF IInv, TypeOK, HandlerReturns, ring, fs
<1> QED
  BY <1>1, <1>2, <1>3, <1>4, EmptySeq
     DEF IInv, NotReentered, InServiceIs, ImagesAre, OpenFilesStay,
         HandlerReturns, OneAt, Top

(***************************************************************************)
(* The theorems                                                            *)
(***************************************************************************)
LEMMA InitEstablishes ==
  ASSUME Init
  PROVE  IInv
<1>1. TypeOK
  BY MachineAssumption, EmptySeq DEF Init, TypeOK, Place, Fd
<1> QED
  BY <1>1, EmptySeq
     DEF Init, IInv, NotReentered, InServiceIs, ImagesAre, OpenFilesStay

LEMMA StepPreserves ==
  ASSUME IInv, [Next]_vars
  PROVE  IInv'
<1>1. CASE TimerFires \/ \E k \in Key \cup {Enter} : KeyDown(k)
  BY <1>1, DeviceStep
<1>2. CASE TimerInterrupt \/ KeyInterrupt
  BY <1>2, TimerInterruptStep, CharacterKeyStep, EnterKeyStep DEF KeyInterrupt
<1>3. CASE Kernel
  <2>1. CASE Command
    BY <2>1, OtherCommandStep, TouchStep, RemoveStep, RunStep DEF Command
  <2> QED
    BY <1>3, <2>1, ExecFailsStep, ProgramStartsStep, GetcharTestStep,
       GetcharReadStep, GetcharAdvanceStep, HandlerReturnsStep DEF Kernel
<1>4. CASE Program
  BY <1>4, CallGetcharStep, SysExitStep, ProgramReturnsStep, SysOpenStep,
     SysCloseStep DEF Program
<1>5. CASE UNCHANGED vars
  BY <1>5 DEF vars, controller, ring, fs, IInv, TypeOK, NotReentered,
              InServiceIs, ImagesAre, OpenFilesStay, Top
<1> QED
  BY <1>1, <1>2, <1>3, <1>4, <1>5 DEF Next

(* IInv holds throughout: it is inductive.                                 *)
LEMMA Invariance == Spec => []IInv
<1>1. Init => IInv
  BY InitEstablishes
<1>2. IInv /\ [Next]_vars => IInv'
  BY StepPreserves
<1> QED
  BY <1>1, <1>2, PTL DEF Spec

(* All of Machine's state stays in range (keyboard_head and _tail inside   *)
(* the queue, descriptors inside the table).                               *)
THEOREM TypeCorrect == Spec => []TypeOK
<1>1. IInv => TypeOK
  BY DEF IInv
<1> QED
  BY <1>1, Invariance, PTL

(* The shell is never entered a second time, whatever keys are pressed     *)
(* while a program waits or has exited with interrupts on.                 *)
THEOREM ShellIsNotReentered == Spec => []NotReentered
<1>1. IInv => NotReentered
  BY DEF IInv
<1> QED
  BY <1>1, Invariance, PTL

(* The keyboard interrupt is in service exactly as long as its command     *)
(* lasts: no timer tick acknowledges it (irq.c:30).                        *)
THEOREM KeyboardStaysInService == Spec => []ServiceLasts
<1>1. IInv => ServiceLasts
  BY DEF IInv, InServiceIs, ServiceLasts
<1> QED
  BY <1>1, Invariance, PTL

(* elf_exec's buffer is free whenever the prompt is back (elf_loader.c).   *)
THEOREM BuffersComeBack == Spec => []ImagesFreed
<1>1. IInv => ImagesFreed
  BY DEF IInv, ImagesAre, ImagesFreed
<1> QED
  BY <1>1, Invariance, PTL

(* No file is removed while the running program has it open (fd.c:16).     *)
THEOREM OpenFilesAreThere == Spec => []OpenFilesStay
<1>1. IInv => OpenFilesStay
  BY DEF IInv
<1> QED
  BY <1>1, Invariance, PTL

(* No key enters the keyboard queue while a command runs                   *)
(* (keyboard.c:94-104): only CharacterKey moves keyboard_tail, and it      *)
(* finds the prompt.                                                       *)
THEOREM OnlyTypeAhead == Spec => TypeAheadOnly
<1>1. ASSUME IInv, [Next]_vars PROVE stack # <<>> => tail' = tail
  <2>1. CASE CharacterKey
    BY <1>1, <2>1, KeyFindsPrompt DEF CharacterKey
  <2>2. CASE ~ CharacterKey
    BY <1>1, <2>2
       DEF Next, Kernel, Program, Command, KeyInterrupt, KeyDown, TimerFires,
           TimerInterrupt, EnterKey, HandlerReturns, OtherCommand, Touch, Remove,
           Run, ExecFails, ProgramStarts, ProgramReturns, CallGetchar,
           GetcharTest, GetcharRead, GetcharAdvance, SysOpen, SysClose, SysExit,
           vars, ring
  <2> QED
    BY <2>1, <2>2
<1>2. IInv /\ [Next]_vars => [stack # <<>> => tail' = tail]_vars
  BY <1>1
<1> QED
  BY <1>2, Invariance, PTL DEF Spec, TypeAheadOnly

(* A program that exits, or waits on an empty queue, stays where it is:    *)
(* the loops at keyboard.c:108 and syscall.c:77 are left by no interrupt.  *)
THEOREM StuckStays == Spec => StuckForGood
<1>1. ASSUME IInv, Next, Stuck PROVE Stuck'
  <2>1. /\ stack # <<>> /\ OneAt(stack, Top)
        /\ Top \in {"exit", "test", "hlt"}
        /\ Top # "exit" => head = tail
    BY <1>1, OneCommand DEF IInv, Stuck, At
  <2>2. ~ KeyInterrupt
    BY <1>1, <2>1, KeyFindsPrompt DEF KeyInterrupt, CharacterKey, EnterKey
  <2>3. CASE GetcharTest
    <3>1. OneAt(stack', "hlt")
      <4>1. OneAt([stack EXCEPT ![Len(stack)] = "hlt"], "hlt")
        BY <1>1, <2>1, ReplaceTop DEF IInv, Point
      <4>2. head = tail /\ stack' = [stack EXCEPT ![Len(stack)] = "hlt"]
        BY <2>1, <2>3 DEF GetcharTest, At, Goto
      <4> QED
        BY <4>1, <4>2, Zenon
    <3>2. head = tail /\ UNCHANGED <<head, tail>>
      BY <2>1, <2>3 DEF GetcharTest, At, ring
    <3> QED
      BY <3>1, <3>2 DEF Stuck, At, Top, OneAt
  <2>4. CASE TimerInterrupt
    <3>1. OneAt(stack', IF Top = "hlt" THEN "test" ELSE Top)
      BY <1>1, <2>1, <2>4, WokenResult DEF IInv, TimerInterrupt
    <3>2. UNCHANGED <<head, tail>>
      BY <2>4 DEF TimerInterrupt, ring
    <3> QED
      BY <2>1, <3>1, <3>2 DEF Stuck, At, Top, OneAt
  <2>5. CASE TimerFires \/ \E k \in Key \cup {Enter} : KeyDown(k)
    BY <1>1, <2>5 DEF TimerFires, KeyDown, ring, Stuck, At, Top
  <2>6. ~ Program /\ (Kernel => GetcharTest)
    BY <2>1
       DEF At, Kernel, Program, Command, HandlerReturns, OtherCommand, Touch,
           Remove, Run, ExecFails, ProgramStarts, ProgramReturns, CallGetchar,
           GetcharRead, GetcharAdvance, SysOpen, SysClose, SysExit
  <2> QED
    BY <1>1, <2>2, <2>3, <2>4, <2>5, <2>6 DEF Next
<1>2. UNCHANGED vars => (Stuck => Stuck')
  BY DEF vars, ring, Stuck, At, Top
<1>3. IInv /\ [Next]_vars => [Stuck => Stuck']_vars
  BY <1>1, <1>2
<1> QED
  BY <1>3, Invariance, PTL DEF Spec, StuckForGood

(***************************************************************************)
(* The keyboard queue is CharQueue                                         *)
(***************************************************************************)
(* keyboard_getchar reads and advances in two statements: between them     *)
(* there is something in the queue, and c is the first of it.              *)
QueuePart ==
  /\ At("read") \/ At("advance") => head # tail
  /\ At("advance") => c = queue[head]

(* What % does to the sum and the difference of two places.               *)
LEMMA WrapsUp ==
  ASSUME NEW n \in Nat \ {0}, NEW x \in 0 .. 2 * n - 1
  PROVE  x % n = IF x < n THEN x ELSE x - n
  OBVIOUS

LEMMA WrapsDown ==
  ASSUME NEW n \in Nat \ {0}, NEW x \in -n .. n - 1
  PROVE  x % n = IF x < 0 THEN x + n ELSE x
  OBVIOUS

(* How many places lie between head and tail, with the wrap written out.   *)
Count == IF head <= tail THEN tail - head ELSE tail - head + KEYBOARD_QUEUE_SIZE

(* Place i of the queue as a sequence, with the wrap written out.          *)
PlaceOf(i) ==
  IF head + i - 1 < KEYBOARD_QUEUE_SIZE
  THEN head + i - 1
  ELSE head + i - 1 - KEYBOARD_QUEUE_SIZE

LEMMA PlacesAre ==
  ASSUME head \in Place, tail \in Place
  PROVE  /\ (tail - head) % KEYBOARD_QUEUE_SIZE = Count
         /\ Count \in Nat /\ Count < KEYBOARD_QUEUE_SIZE
         /\ Count = 0 <=> head = tail
         /\ \A i \in 1 .. Count :
              /\ (head + i - 1) % KEYBOARD_QUEUE_SIZE = PlaceOf(i)
              /\ PlaceOf(i) \in Place
<1> DEFINE n == KEYBOARD_QUEUE_SIZE
<1>1. n \in Nat \ {0} /\ head \in 0 .. n - 1 /\ tail \in 0 .. n - 1
  BY MachineAssumption DEF Place
<1>2. (tail - head) % n = Count
  <2> DEFINE x == tail - head
  <2>1. x \in -n .. n - 1
    BY <1>1
  <2>2. x % n = IF x < 0 THEN x + n ELSE x
    <3> HIDE DEF n, x
    <3> QED
      BY <1>1, <2>1, WrapsDown
  <2> QED
    BY <1>1, <2>2 DEF Count
<1>3. Count \in Nat /\ Count < n /\ (Count = 0 <=> head = tail)
  BY <1>1 DEF Count
<1>4. ASSUME NEW i \in 1 .. Count
      PROVE  (head + i - 1) % n = PlaceOf(i) /\ PlaceOf(i) \in Place
  <2>1. i \in Nat /\ i >= 1 /\ i < n
    BY <1>1, <1>3
  <2> DEFINE x == head + i - 1
  <2>2. x \in 0 .. 2 * n - 1
    BY <1>1, <2>1
  <2>3. x % n = IF x < n THEN x ELSE x - n
    <3> HIDE DEF n, x
    <3> QED
      BY <1>1, <2>2, WrapsUp
  <2>4. PlaceOf(i) = IF x < n THEN x ELSE x - n
    BY <1>1, <2>1 DEF PlaceOf
  <2>5. PlaceOf(i) \in Place
    BY <1>1, <2>2, <2>4 DEF Place
  <2> QED
    <3> HIDE DEF n
    <3> QED
      BY <2>3, <2>4, <2>5
<1> QED
  BY <1>2, <1>3, <1>4

(* The queue is a sequence of Count characters.                            *)
QueueIs ==
  /\ InQueue \in Seq(Key \cup {NoKey})
  /\ Len(InQueue) = Count
  /\ \A i \in 1 .. Count : InQueue[i] = queue[PlaceOf(i)]

LEMMA InQueueIs == TypeOK => QueueIs
<1> SUFFICES ASSUME TypeOK PROVE QueueIs
  OBVIOUS
<1>1. head \in Place /\ tail \in Place /\ queue \in [Place -> Key \cup {NoKey}]
  BY DEF TypeOK
<1>2. InQueue = [i \in 1 .. Count |-> queue[(head + i - 1) % KEYBOARD_QUEUE_SIZE]]
  BY <1>1, PlacesAre, Zenon DEF InQueue
<1>3. \A i \in 1 .. Count : InQueue[i] = queue[PlaceOf(i)] /\ PlaceOf(i) \in Place
  BY <1>1, <1>2, PlacesAre
<1>4. InQueue \in [1 .. Count -> Key \cup {NoKey}]
  BY <1>1, <1>2, <1>3
<1>5. Count \in Nat
  BY <1>1, PlacesAre
<1> QED
  BY <1>3, <1>4, <1>5, LenProperties DEF QueueIs

LEMMA QueuePartKept ==
  ASSUME IInv, QueuePart, [Next]_vars
  PROVE  QueuePart'
<1> USE DEF IInv
<1>1. CASE GetcharTest
  <2>1. OneAt(stack, "test")
    BY <1>1, OneCommand DEF GetcharTest, At, OneAt
  <2>2. CASE head = tail
    <3>1. stack' = [stack EXCEPT ![Len(stack)] = "hlt"]
      BY <1>1, <2>2, Zenon DEF GetcharTest, Goto
    <3>2. OneAt(stack', "hlt")
      BY <2>1, <3>1, ReplaceTop DEF Point, OneAt
    <3> QED
      BY <3>2 DEF QueuePart, At, Top, OneAt
  <2>3. CASE head # tail
    <3>1. stack' = [stack EXCEPT ![Len(stack)] = "read"]
      BY <1>1, <2>3, Zenon DEF GetcharTest, Goto
    <3>2. OneAt(stack', "read")
      BY <2>1, <3>1, ReplaceTop DEF Point, OneAt
    <3> QED
      BY <1>1, <2>3, <3>2 DEF QueuePart, At, Top, OneAt, GetcharTest, ring
  <2> QED
    BY <2>2, <2>3
<1>2. CASE GetcharRead
  <2>1. OneAt(stack, "read") /\ head # tail
    BY <1>2, OneCommand DEF GetcharRead, At, OneAt, QueuePart
  <2>2. OneAt(stack', "advance")
    BY <1>2, <2>1, ReplaceTop DEF GetcharRead, Goto, OneAt, Point
  <2> QED
    BY <1>2, <2>1, <2>2 DEF QueuePart, At, Top, OneAt, GetcharRead, ring
<1>3. CASE KeyInterrupt
  <2>1. stack = <<>>
    BY <1>3, KeyFindsPrompt DEF KeyInterrupt, CharacterKey, EnterKey
  <2>2. stack' = <<>> \/ stack' = Append(<<>>, "shell")
    BY <1>3, <2>1, WokenResult DEF KeyInterrupt, CharacterKey, EnterKey
  <2>3. stack' = <<>> \/ stack'[Len(stack')] = "shell"
    BY <2>2, AppendProperties, EmptySeq
  <2> QED
    BY <2>3 DEF QueuePart, At, Top
<1>4. CASE TimerInterrupt
  <2>1. UNCHANGED <<queue, head, tail, c>> /\ stack' = Woken
    BY <1>4 DEF TimerInterrupt, ring
  <2>2. CASE stack = <<>>
    BY <2>1, <2>2, WokenResult DEF QueuePart, At
  <2>3. CASE stack # <<>>
    <3>1. OneAt(stack', IF Top = "hlt" THEN "test" ELSE Top)
      BY <2>1, <2>3, WokenResult
    <3>2. /\ At("read")' => At("read")
          /\ At("advance")' => At("advance")
      BY <2>3, <3>1 DEF At, Top, OneAt
    <3> QED
      BY <2>1, <3>2 DEF QueuePart
  <2> QED
    BY <2>2, <2>3
<1>5. CASE \/ TimerFires \/ (\E k \in Key \cup {Enter} : KeyDown(k))
           \/ (\E f \in File : SysOpen(f)) \/ (\E fd \in Fd : SysClose(fd))
           \/ UNCHANGED vars
  BY <1>5 DEF TimerFires, KeyDown, SysOpen, SysClose, vars, ring, QueuePart, At, Top
<1>6. CASE HandlerReturns
  <2>1. OneAt(stack, "return")
    BY <1>6, OneCommand DEF HandlerReturns, At, OneAt
  <2>2. stack' = SubSeq(stack, 1, 0)
    BY <1>6, <2>1 DEF HandlerReturns, OneAt
  <2>3. stack' = <<>>
    BY <2>1, <2>2, SubSeqEmpty DEF OneAt
  <2> QED
    BY <2>3 DEF QueuePart, At
<1>7. ASSUME NEW p \in Point \ {"read", "advance"}, stack # <<>>, Goto(p)
      PROVE  QueuePart'
  <2>1. OneAt(stack', p)
    BY <1>7, ReplaceTop DEF Goto
  <2> QED
    BY <2>1 DEF QueuePart, At, Top, OneAt
<1>8. CASE \/ Command \/ ExecFails \/ ProgramStarts \/ GetcharAdvance
           \/ CallGetchar \/ SysExit \/ ProgramReturns
  <2>1. stack # <<>> /\ \E p \in Point \ {"read", "advance"} : Goto(p)
    BY <1>8 DEF Command, OtherCommand, Touch, Remove, Run, ExecFails,
       ProgramStarts, GetcharAdvance, CallGetchar, SysExit, ProgramReturns, At,
       Point
  <2> QED
    BY <1>7, <2>1
<1> QED
  BY <1>1, <1>2, <1>3, <1>4, <1>5, <1>6, <1>8 DEF Next, Kernel, Program

(* A character that is pushed comes last.                                  *)
LEMMA PushAppends ==
  ASSUME TypeOK, TypeOK', NEW k \in Key,
         (tail + 1) % KEYBOARD_QUEUE_SIZE # head, keyboard_queue_push(k)
  PROVE  Len(InQueue) < KEYBOARD_QUEUE_SIZE - 1 /\ InQueue' = Append(InQueue, k)
<1> DEFINE n == KEYBOARD_QUEUE_SIZE
<1>1. n \in Nat \ {0} /\ head \in 0 .. n - 1 /\ tail \in 0 .. n - 1
  BY MachineAssumption DEF TypeOK, Place
<1>2. /\ queue' = [queue EXCEPT ![tail] = k]
      /\ tail' = (tail + 1) % n /\ head' = head
      /\ queue \in [Place -> Key \cup {NoKey}]
  BY DEF keyboard_queue_push, TypeOK
<1>3. tail' = IF tail = n - 1 THEN 0 ELSE tail + 1
  <2> DEFINE x == tail + 1
  <2>1. x \in 0 .. 2 * n - 1
    BY <1>1
  <2>2. x % n = IF x < n THEN x ELSE x - n
    <3> HIDE DEF n, x
    <3> QED
      BY <1>1, <2>1, WrapsUp
  <2> QED
    BY <1>1, <1>2, <2>2
<1>4. Count < n - 1 /\ Count' = Count + 1 /\ Count \in Nat
  BY <1>1, <1>2, <1>3 DEF Count
<1>5. /\ InQueue \in Seq(Key \cup {NoKey}) /\ Len(InQueue) = Count
      /\ \A i \in 1 .. Count : InQueue[i] = queue[PlaceOf(i)]
  BY InQueueIs DEF QueueIs
<1>6. /\ InQueue' \in Seq(Key \cup {NoKey}) /\ Len(InQueue') = Count'
      /\ \A i \in 1 .. Count' : InQueue'[i] = queue'[PlaceOf(i)']
  <2>1. QueueIs'
    BY InQueueIs, PTL
  <2> QED
    BY <2>1 DEF QueueIs
<1>7. \A i \in 1 .. Count + 1 : PlaceOf(i)' = PlaceOf(i)
  BY <1>2 DEF PlaceOf
<1>8. \A i \in 1 .. Count : PlaceOf(i) \in Place /\ PlaceOf(i) # tail
  BY <1>1 DEF PlaceOf, Count, Place
<1>9. PlaceOf(Count + 1) = tail
  BY <1>1, <1>4 DEF PlaceOf, Count
<1>10. tail \in Place
  BY DEF TypeOK
<1> HIDE DEF n
<1>11. \A i \in 1 .. Count : InQueue'[i] = InQueue[i]
  BY <1>2, <1>4, <1>5, <1>6, <1>7, <1>8
<1>12. InQueue'[Count + 1] = k
  BY <1>2, <1>4, <1>6, <1>7, <1>9, <1>10
<1> DEFINE t == Append(InQueue, k)
<1>13. /\ t \in Seq(Key \cup {NoKey}) /\ Len(t) = Count + 1
       /\ \A i \in 1 .. Count : t[i] = InQueue[i]
       /\ t[Count + 1] = k
  BY <1>5, AppendProperties
<1>14. \A i \in 1 .. Len(t) : InQueue'[i] = t[i]
  <2> HIDE DEF t
  <2> SUFFICES ASSUME NEW i \in 1 .. Count + 1 PROVE InQueue'[i] = t[i]
    BY <1>13
  <2>1. CASE i = Count + 1
    BY <2>1, <1>12, <1>13
  <2>2. CASE i # Count + 1
    <3>1. i \in 1 .. Count
      BY <1>4, <2>2
    <3> QED
      BY <3>1, <1>11, <1>13
  <2> QED
    BY <2>1, <2>2
<1>15. InQueue' = t
  <2> HIDE DEF t
  <2> QED
    BY <1>4, <1>6, <1>13, <1>14, SeqEqual
<1> QED
  BY <1>4, <1>5, <1>15 DEF n

(* keyboard_getchar takes the first.                                       *)
LEMMA AdvanceTakes ==
  ASSUME TypeOK, TypeOK', QueuePart, GetcharAdvance
  PROVE  InQueue # <<>> /\ eax' = Head(InQueue) /\ InQueue' = Tail(InQueue)
<1> DEFINE n == KEYBOARD_QUEUE_SIZE
<1>1. n \in Nat \ {0} /\ head \in 0 .. n - 1 /\ tail \in 0 .. n - 1
  BY MachineAssumption DEF TypeOK, Place
<1>2. /\ head # tail /\ eax' = queue[head]
      /\ head' = (head + 1) % n /\ queue' = queue /\ tail' = tail
  BY DEF GetcharAdvance, QueuePart
<1>3. head' = IF head = n - 1 THEN 0 ELSE head + 1
  <2> DEFINE x == head + 1
  <2>1. x \in 0 .. 2 * n - 1
    BY <1>1
  <2>2. x % n = IF x < n THEN x ELSE x - n
    <3> HIDE DEF n, x
    <3> QED
      BY <1>1, <2>1, WrapsUp
  <2> QED
    BY <1>1, <1>2, <2>2
<1>4. Count \in Nat \ {0} /\ Count' = Count - 1
  BY <1>1, <1>2, <1>3 DEF Count
<1>5. /\ InQueue \in Seq(Key \cup {NoKey}) /\ Len(InQueue) = Count
      /\ \A i \in 1 .. Count : InQueue[i] = queue[PlaceOf(i)]
  BY InQueueIs DEF QueueIs
<1>6. /\ InQueue' \in Seq(Key \cup {NoKey}) /\ Len(InQueue') = Count'
      /\ \A i \in 1 .. Count' : InQueue'[i] = queue'[PlaceOf(i)']
  <2>1. QueueIs'
    BY InQueueIs, PTL
  <2> QED
    BY <2>1 DEF QueueIs
<1>7. PlaceOf(1) = head
  BY <1>1 DEF PlaceOf
<1>8. \A i \in 1 .. Count - 1 : PlaceOf(i)' = PlaceOf(i + 1)
  BY <1>1, <1>2, <1>3 DEF PlaceOf, Count
<1> HIDE DEF n
<1>9. InQueue # <<>>
  BY <1>4, <1>5, EmptySeq
<1> DEFINE t == Tail(InQueue)
<1>10. /\ Head(InQueue) = InQueue[1]
       /\ t \in Seq(Key \cup {NoKey}) /\ Len(t) = Count - 1
       /\ \A i \in 1 .. Count - 1 : t[i] = InQueue[i + 1]
  BY <1>4, <1>5, <1>9, HeadTailProperties
<1>11. eax' = Head(InQueue)
  BY <1>2, <1>4, <1>5, <1>7, <1>10
<1>12. \A i \in 1 .. Len(t) : InQueue'[i] = t[i]
  <2> HIDE DEF t
  <2> SUFFICES ASSUME NEW i \in 1 .. Count - 1 PROVE InQueue'[i] = t[i]
    BY <1>10
  <2>1. i \in 1 .. Count' /\ i + 1 \in 1 .. Count
    BY <1>4
  <2>2. InQueue'[i] = queue[PlaceOf(i + 1)]
    BY <1>2, <1>6, <1>8, <2>1
  <2> QED
    BY <1>5, <1>10, <2>1, <2>2
<1>13. InQueue' = t
  <2> HIDE DEF t
  <2> QED
    BY <1>4, <1>6, <1>10, <1>12, SeqEqual
<1> QED
  BY <1>9, <1>11, <1>13

(* A full ring holds as many characters as CharQueue has room for.         *)
LEMMA FullHasNoRoom ==
  ASSUME TypeOK, (tail + 1) % KEYBOARD_QUEUE_SIZE = head
  PROVE  Len(InQueue) = KEYBOARD_QUEUE_SIZE - 1
<1> DEFINE n == KEYBOARD_QUEUE_SIZE
           x == tail + 1
<1>1. n \in Nat \ {0} /\ head \in 0 .. n - 1 /\ tail \in 0 .. n - 1
  BY MachineAssumption DEF TypeOK, Place
<1>2. x \in 0 .. 2 * n - 1
  BY <1>1
<1>3. x % n = IF x < n THEN x ELSE x - n
  <2> HIDE DEF n, x
  <2> QED
    BY <1>1, <1>2, WrapsUp
<1>4. head = IF tail = n - 1 THEN 0 ELSE tail + 1
  BY <1>1, <1>3
<1>5. Count = n - 1
  BY <1>1, <1>4 DEF Count
<1> QED
  BY <1>5, InQueueIs DEF QueueIs

(* What neither presses a key nor accepts one, nor takes a character.      *)
LEMMA OthersLeaveQueue ==
  ASSUME [Next]_vars, ~ CharacterKey, ~ EnterKey, ~ GetcharAdvance,
         ~ \E k \in Key \cup {Enter} : KeyDown(k)
  PROVE  UNCHANGED <<port, queue, head, tail, eax>>
  BY DEF Next, Kernel, Program, Command, KeyInterrupt, TimerFires,
     TimerInterrupt, HandlerReturns, OtherCommand, Touch, Remove, Run,
     ExecFails, ProgramStarts, ProgramReturns, CallGetchar, GetcharTest,
     GetcharRead, SysOpen, SysClose, SysExit, vars, ring

(* keyboard_queue, a ring with one place unused (keyboard.c:94-122), is a  *)
(* bounded queue: each character the handler reads is in it, in its turn,  *)
(* unless the ring was full; and each comes out once.                      *)
THEOREM Refinement == Spec => ImplementsQueue
<1>1. Init => Fifo!Init
  <2> SUFFICES ASSUME Init PROVE Fifo!Init
    OBVIOUS
  <2>1. TypeOK /\ head = tail
    BY InitEstablishes DEF IInv, Init
  <2>2. Count = 0
    BY <2>1, PlacesAre DEF TypeOK
  <2>3. InQueue = <<>>
    BY <2>1, <2>2, InQueueIs, EmptySeq DEF QueueIs
  <2> QED
    BY <2>3 DEF Init, Fifo!Init
<1>2. Init => QueuePart
  BY DEF Init, QueuePart, At
<1>3. IInv /\ QueuePart /\ [Next]_vars => QueuePart'
  BY QueuePartKept
<1>4. ASSUME IInv, IInv', QueuePart, [Next]_vars
      PROVE  [Fifo!Next]_<<port, InQueue, eax>>
  <2>1. CASE CharacterKey
    <3>1. /\ port # <<>> /\ port' = Tail(port)
          /\ Head(port) \in Key /\ keyboard_queue_push(Head(port)) /\ eax' = eax
      BY <2>1 DEF CharacterKey, ReadPort
    <3>2. InQueue' = IF Fifo!HasRoom THEN Append(InQueue, Head(port)) ELSE InQueue
      <4>1. CASE (tail + 1) % KEYBOARD_QUEUE_SIZE = head
        <5>1. InQueue' = InQueue
          BY <3>1, <4>1 DEF keyboard_queue_push, ring, InQueue
        <5>2. ~ Fifo!HasRoom
          BY <1>4, <4>1, FullHasNoRoom, MachineAssumption DEF IInv, Fifo!HasRoom
        <5> QED
          BY <5>1, <5>2
      <4>2. CASE (tail + 1) % KEYBOARD_QUEUE_SIZE # head
        BY <1>4, <3>1, <4>2, PushAppends DEF IInv, Fifo!HasRoom
      <4> QED
        BY <4>1, <4>2
    <3>3. Fifo!Accept
      BY <3>1, <3>2 DEF Fifo!Accept
    <3> QED
      BY <3>3 DEF Fifo!Next
  <2>2. CASE EnterKey
    <3>1. /\ port # <<>> /\ port' = Tail(port)
          /\ Head(port) \notin Key /\ UNCHANGED <<InQueue, eax>>
      BY <2>2, MachineAssumption DEF EnterKey, ReadPort, ring, InQueue
    <3>2. Fifo!Accept
      BY <3>1 DEF Fifo!Accept
    <3> QED
      BY <3>2 DEF Fifo!Next
  <2>3. CASE \E k \in Key \cup {Enter} : KeyDown(k)
    BY <2>3 DEF KeyDown, ring, InQueue, Fifo!Next, Fifo!Press
  <2>4. CASE GetcharAdvance
    BY <1>4, <2>4, AdvanceTakes DEF IInv, GetcharAdvance, Fifo!Next, Fifo!Take
  <2>5. CASE /\ ~ CharacterKey /\ ~ EnterKey /\ ~ GetcharAdvance
             /\ ~ \E k \in Key \cup {Enter} : KeyDown(k)
    BY <1>4, <2>5, OthersLeaveQueue DEF InQueue
  <2> QED
    BY <2>1, <2>2, <2>3, <2>4, <2>5
<1> QED
  BY <1>1, <1>2, <1>3, <1>4, Invariance, PTL DEF Spec, ImplementsQueue, Fifo!Spec

=============================================================================
