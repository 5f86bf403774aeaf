-------------------------- MODULE LineEditorProofs --------------------------
(***************************************************************************)
(* Proofs about LineEditor, for an input buffer of any size, a screen of   *)
(* any size and any keys.                                                  *)
(*                                                                         *)
(* The argument: input_buffer holds characters up to input_length and a    *)
(* zero there, so the shell's copy ends where the line does; and what each *)
(* key does to the bytes, said byte by byte, is what it should do to the   *)
(* line.                                                                   *)
(*                                                                         *)
(* The picture: a place is a row and a column, and two characters never    *)
(* share one.  Nothing that is printed moves the cursor off the screen (by *)
(* induction over the characters of a string).  A redraw moves it by one   *)
(* place at most, so the place it draws last before scrolling is on the    *)
(* screen, it scrolls by one row at most, and the input, which fits on the *)
(* screen, then starts in a row to scroll.                                 *)
(***************************************************************************)
EXTENDS LineEditor, SequenceTheorems, WellFoundedInduction, TLAPS

(***************************************************************************)
(* The invariant                                                           *)
(***************************************************************************)
LineIs ==
  /\ input_length \in 0 .. INPUT_BUFFER_SIZE - 1
  /\ cursor_position \in 0 .. input_length
  /\ input_buffer \in [Index -> Char \cup {Nul}]
  /\ \A j \in 0 .. input_length - 1 : input_buffer[j] \in Char
  /\ input_buffer[input_length] = Nul

ModifiersAre == shift_pressed \in BOOLEAN /\ caps_lock \in BOOLEAN

IInv == LineIs /\ ModifiersAre

LEMMA NulIsNoChar == Nul \notin Char
  BY LineEditorAssumption

LEMMA Sizes ==
  /\ VGA_WIDTH \in Nat \ {0} /\ VGA_HEIGHT \in Nat \ {0}
  /\ INPUT_BUFFER_SIZE \in Nat \ {0}
  BY LineEditorAssumption

(* The line as a sequence.                                                 *)
LEMMA TypedIs ==
  ASSUME LineIs
  PROVE  /\ Typed \in Seq(Char)
         /\ Len(Typed) = input_length
         /\ \A j \in 1 .. input_length : Typed[j] = input_buffer[j - 1]
<1>1. input_length \in Nat
  BY Sizes DEF LineIs
<1>2. \A j \in 1 .. input_length : input_buffer[j - 1] \in Char
  BY <1>1 DEF LineIs
<1>3. Typed \in [1 .. input_length -> Char]
  BY <1>2 DEF Typed
<1> QED
  BY <1>1, <1>3, LenProperties DEF Typed

(***************************************************************************)
(* The keys                                                                *)
(***************************************************************************)
(* What Type does to the buffer.                                           *)
LEMMA TypeBytes ==
  ASSUME IInv, NEW k \in Letter \cup Sign, Type(k)
  PROVE  /\ IInv'
         /\ input_length' = input_length + 1
         /\ cursor_position' = cursor_position + 1
         /\ \E ch \in Char : \A j \in 0 .. input_length :
              input_buffer'[j] = IF j = cursor_position THEN ch
                                 ELSE IF j > cursor_position
                                 THEN input_buffer[j - 1]
                                 ELSE input_buffer[j]
<1> DEFINE ch == [key |-> k, shifted |-> Shifted(k)]
<1>1. /\ input_length < INPUT_BUFFER_SIZE - 1
      /\ input_length' = input_length + 1
      /\ cursor_position' = cursor_position + 1
      /\ input_buffer' =
           [j \in Index |->
              IF j = cursor_position THEN ch
              ELSE IF j = input_length + 1 THEN Nul
              ELSE IF cursor_position < j /\ j <= input_length
              THEN input_buffer[j - 1] ELSE input_buffer[j]]
      /\ UNCHANGED <<shift_pressed, caps_lock>>
  BY DEF Type, modifiers
<1>2. ch \in Char
  BY DEF IInv, ModifiersAre, Shifted, Char
<1> HIDE DEF ch
<1>3. /\ INPUT_BUFFER_SIZE \in Nat /\ input_length \in Nat /\ cursor_position \in Nat
      /\ cursor_position <= input_length
      /\ input_buffer \in [Index -> Char \cup {Nul}]
      /\ \A j \in 0 .. input_length - 1 : input_buffer[j] \in Char
  BY Sizes DEF IInv, LineIs
<1>4. /\ \A j \in 0 .. input_length + 1 : j \in Index
      /\ \A j \in 1 .. input_length : j - 1 \in 0 .. input_length - 1
      /\ \A j \in Index : j \in Nat
  BY <1>1, <1>3 DEF Index
<1>5. \A j \in 0 .. input_length :
        input_buffer'[j] = IF j = cursor_position THEN ch
                           ELSE IF j > cursor_position
                           THEN input_buffer[j - 1]
                           ELSE input_buffer[j]
  BY <1>1, <1>3, <1>4
<1>6. input_buffer'[input_length + 1] = Nul
  BY <1>1, <1>3, <1>4
<1>7. input_buffer' \in [Index -> Char \cup {Nul}]
  <2> SUFFICES ASSUME NEW j \in Index
               PROVE  (IF j = cursor_position THEN ch
                       ELSE IF j = input_length + 1 THEN Nul
                       ELSE IF cursor_position < j /\ j <= input_length
                       THEN input_buffer[j - 1] ELSE input_buffer[j])
                        \in Char \cup {Nul}
    BY <1>1
  <2>1. cursor_position < j /\ j <= input_length => input_buffer[j - 1] \in Char
    BY <1>3, <1>4
  <2> QED
    BY <1>2, <1>3, <2>1
<1>8. \A j \in 0 .. input_length : input_buffer'[j] \in Char
  <2> SUFFICES ASSUME NEW j \in 0 .. input_length
               PROVE  input_buffer'[j] \in Char
    OBVIOUS
  <2>1. j > cursor_position => j - 1 \in 0 .. input_length - 1
    BY <1>3
  <2>2. j < cursor_position => j \in 0 .. input_length - 1
    BY <1>3
  <2> QED
    BY <1>2, <1>3, <1>5, <2>1, <2>2
<1>9. IInv'
  BY <1>1, <1>3, <1>6, <1>7, <1>8 DEF IInv, LineIs, ModifiersAre
<1> QED
  BY <1>1, <1>2, <1>5, <1>9

(* What Backspace does to the buffer.                                      *)
LEMMA BackspaceBytes ==
  ASSUME IInv, Backspace
  PROVE  /\ IInv'
         /\ cursor_position > 0
         /\ input_length' = input_length - 1
         /\ cursor_position' = cursor_position - 1
         /\ \A j \in 0 .. input_length - 2 :
              input_buffer'[j] = IF j < cursor_position - 1
                                 THEN input_buffer[j]
                                 ELSE input_buffer[j + 1]
<1>1. /\ cursor_position > 0
      /\ input_length' = input_length - 1
      /\ cursor_position' = cursor_position - 1
      /\ input_buffer' =
           [j \in Index |->
              IF j = input_length - 1 THEN Nul
              ELSE IF cursor_position - 1 <= j /\ j < input_length - 1
              THEN input_buffer[j + 1] ELSE input_buffer[j]]
      /\ UNCHANGED <<shift_pressed, caps_lock>>
  BY DEF Backspace, modifiers
<1>2. /\ INPUT_BUFFER_SIZE \in Nat /\ input_length \in Nat /\ cursor_position \in Nat
      /\ cursor_position <= input_length /\ input_length < INPUT_BUFFER_SIZE
      /\ input_buffer \in [Index -> Char \cup {Nul}]
      /\ \A j \in 0 .. input_length - 1 : input_buffer[j] \in Char
  BY Sizes DEF IInv, LineIs
<1>3. /\ \A j \in 0 .. input_length - 1 : j \in Index
      /\ \A j \in Index : j \in Nat
  BY <1>2 DEF Index
<1>4. \A j \in 0 .. input_length - 2 :
        input_buffer'[j] = IF j < cursor_position - 1
                           THEN input_buffer[j] ELSE input_buffer[j + 1]
  BY <1>1, <1>2, <1>3
<1>5. input_buffer'[input_length - 1] = Nul
  BY <1>1, <1>2, <1>3
<1>6. input_buffer' \in [Index -> Char \cup {Nul}]
  <2> SUFFICES ASSUME NEW j \in Index
               PROVE  (IF j = input_length - 1 THEN Nul
                       ELSE IF cursor_position - 1 <= j /\ j < input_length - 1
                       THEN input_buffer[j + 1] ELSE input_buffer[j])
                        \in Char \cup {Nul}
    BY <1>1
  <2>1. cursor_position - 1 <= j /\ j < input_length - 1
          => input_buffer[j + 1] \in Char
    BY <1>2, <1>3
  <2> QED
    BY <1>2, <2>1
<1>7. \A j \in 0 .. input_length - 2 : input_buffer'[j] \in Char
  BY <1>1, <1>2, <1>4
<1>8. IInv'
  <2>1. \A j \in 0 .. input_length' - 1 : input_buffer'[j] \in Char
    BY <1>1, <1>2, <1>7
  <2> QED
    BY <1>1, <1>2, <1>5, <1>6, <2>1 DEF IInv, LineIs, ModifiersAre
<1> QED
  BY <1>1, <1>4, <1>8

LEMMA MoveBytes ==
  ASSUME IInv, NEW at, MoveCursor(at)
  PROVE  IInv' /\ at \in 0 .. input_length /\ cursor_position' = at
         /\ UNCHANGED <<input_buffer, input_length>>
BY DEF MoveCursor, IInv, LineIs, ModifiersAre

LEMMA EnterBytes ==
  ASSUME IInv, NEW out, NEW clear, EnterKey(out, clear)
  PROVE  IInv' /\ input_length' = 0 /\ cursor_position' = 0
<1>1. /\ input_length' = 0 /\ cursor_position' = 0
      /\ input_buffer' = [input_buffer EXCEPT ![0] = Nul]
      /\ UNCHANGED <<shift_pressed, caps_lock>>
  BY DEF EnterKey, modifiers
<1>2. 0 \in Index /\ 0 \in 0 .. INPUT_BUFFER_SIZE - 1
  BY Sizes DEF Index
<1> QED
  BY <1>1, <1>2 DEF IInv, LineIs, ModifiersAre

(* The other scan codes leave the line alone.                              *)
LEMMA OtherBytes ==
  ASSUME IInv,
         ExtendedPrefix \/ ExtendedIgnored \/ Modifier \/ UNCHANGED vars
  PROVE  IInv' /\ UNCHANGED line
BY DEF ExtendedPrefix, ExtendedIgnored, Modifier, vars, modifiers, line, IInv,
   LineIs, ModifiersAre

LEMMA InitLine == Init => IInv
<1> SUFFICES ASSUME Init PROVE IInv
  OBVIOUS
<1>1. /\ input_buffer = [i \in Index |-> Nul]
      /\ input_length = 0 /\ cursor_position = 0
      /\ shift_pressed = FALSE /\ caps_lock = FALSE
  BY DEF Init
<1>2. 0 \in Index /\ 0 \in 0 .. INPUT_BUFFER_SIZE - 1
  BY Sizes DEF Index
<1>3. input_buffer \in [Index -> Char \cup {Nul}] /\ input_buffer[input_length] = Nul
  BY <1>1, <1>2
<1>4. /\ input_length \in 0 .. INPUT_BUFFER_SIZE - 1
      /\ cursor_position \in 0 .. input_length
      /\ 0 .. input_length - 1 = {}
  BY <1>1, <1>2
<1>5. LineIs
  BY <1>3, <1>4 DEF LineIs
<1>6. ModifiersAre
  BY <1>1 DEF ModifiersAre
<1> QED
  BY <1>5, <1>6 DEF IInv

LEMMA StepKeeps == IInv /\ [Next]_vars => IInv'
BY TypeBytes, BackspaceBytes, MoveBytes, EnterBytes, OtherBytes
   DEF Next, LeftArrow, RightArrow

LEMMA Invariance == Spec => []IInv
  BY InitLine, StepKeeps, PTL DEF Spec

(***************************************************************************)
(* What the shell gets                                                     *)
(***************************************************************************)
(* The characters before the first zero are what is typed.                 *)
LEMMA FirstZero == LineIs => ShellGetsTheLine
<1> SUFFICES ASSUME LineIs PROVE CString(input_buffer) = Typed
  BY DEF ShellGetsTheLine
<1> DEFINE Ends(n) == /\ \A j \in 0 .. n - 1 : input_buffer[j] # Nul
                      /\ n = INPUT_BUFFER_SIZE \/ input_buffer[n] = Nul
<1>1. /\ input_length \in 0 .. INPUT_BUFFER_SIZE /\ INPUT_BUFFER_SIZE \in Nat
      /\ input_length < INPUT_BUFFER_SIZE
      /\ input_buffer[input_length] = Nul
      /\ \A j \in 0 .. input_length - 1 : input_buffer[j] # Nul
  BY Sizes, NulIsNoChar DEF LineIs
<1>2. Ends(input_length)
  BY <1>1
<1>3. ASSUME NEW n \in 0 .. INPUT_BUFFER_SIZE, Ends(n)
      PROVE  n = input_length
  <2>1. ~ (n < input_length)
    BY <1>1, <1>3
  <2>2. ~ (input_length < n)
    BY <1>1, <1>3
  <2> QED
    BY <1>1, <2>1, <2>2
<1> HIDE DEF Ends
<1>4. (CHOOSE n \in 0 .. INPUT_BUFFER_SIZE : Ends(n)) = input_length
  BY <1>1, <1>2, <1>3
<1> QED
  BY <1>4 DEF CString, Typed, Ends

(* The string shell_execute copies (shell.c:273) is what is typed, whatever *)
(* was inserted or erased where.                                           *)
THEOREM ShellGetsWhatIsTyped == Spec => []ShellGetsTheLine
<1>1. IInv => ShellGetsTheLine
  BY FirstZero DEF IInv
<1> QED
  BY <1>1, Invariance, PTL

(***************************************************************************)
(* The line as Editor has it                                               *)
(***************************************************************************)
With(s, n, e) == SubSeq(s, 1, n) \o <<e>> \o SubSeq(s, n + 1, Len(s))

(* One element more, the others where they were or one further.            *)
Insertion(S, s, n, e) ==
  /\ With(s, n, e) \in Seq(S) /\ Len(With(s, n, e)) = Len(s) + 1
  /\ \A j \in 1 .. Len(s) + 1 :
       With(s, n, e)[j] = IF j <= n THEN s[j]
                          ELSE IF j = n + 1 THEN e ELSE s[j - 1]

LEMMA Inserted ==
  ASSUME NEW S, NEW s \in Seq(S), NEW n \in 0 .. Len(s), NEW e \in S
  PROVE  Insertion(S, s, n, e)
<1> DEFINE a == SubSeq(s, 1, n)
           b == SubSeq(s, n + 1, Len(s))
           ae == a \o <<e>>
<1>1. Len(s) \in Nat /\ \A j \in 1 .. Len(s) : s[j] \in S
  BY LenProperties, ElementOfSeq
<1>2. a \in Seq(S) /\ Len(a) = n /\ \A j \in 1 .. n : a[j] = s[j]
  <2>1. \A j \in 1 .. n : s[j] \in S
    BY <1>1
  <2>2. /\ a \in Seq(S) /\ Len(a) = IF 1 <= n THEN n - 1 + 1 ELSE 0
        /\ \A j \in 1 .. n - 1 + 1 : a[j] = s[1 + j - 1]
    BY <2>1, SubSeqProperties
  <2> HIDE DEF a
  <2> QED
    BY <1>1, <2>2
<1>3. /\ b \in Seq(S) /\ Len(b) = Len(s) - n
      /\ \A j \in 1 .. Len(s) - n : b[j] = s[n + j]
  <2>1. \A j \in n + 1 .. Len(s) : s[j] \in S
    BY <1>1
  <2>2. /\ b \in Seq(S)
        /\ Len(b) = IF n + 1 <= Len(s) THEN Len(s) - (n + 1) + 1 ELSE 0
        /\ \A j \in 1 .. Len(s) - (n + 1) + 1 : b[j] = s[n + 1 + j - 1]
    BY <1>1, <2>1, SubSeqProperties
  <2> HIDE DEF b
  <2> QED
    BY <1>1, <2>2
<1> HIDE DEF a, b
<1>4. <<e>> \in Seq(S) /\ Len(<<e>>) = 1 /\ <<e>>[1] = e
  OBVIOUS
<1>5. /\ ae \in Seq(S) /\ Len(ae) = n + 1
      /\ \A j \in 1 .. n + 1 : ae[j] = IF j <= n THEN s[j] ELSE e
  <2>1. /\ ae \in Seq(S) /\ Len(ae) = n + 1
        /\ \A j \in 1 .. n + 1 : ae[j] = IF j <= n THEN a[j] ELSE <<e>>[j - n]
    BY <1>2, <1>4, ConcatProperties
  <2>2. \A j \in 1 .. n + 1 : (j <= n => j \in 1 .. n) /\ (~ (j <= n) => j - n = 1)
    BY <1>1
  <2> HIDE DEF ae
  <2> QED
    BY <1>2, <1>4, <2>1, <2>2
<1> HIDE DEF ae
<1> DEFINE t == ae \o b
<1>6. /\ t \in Seq(S) /\ Len(t) = Len(s) + 1
      /\ \A j \in 1 .. Len(s) + 1 :
           t[j] = IF j <= n + 1 THEN ae[j] ELSE b[j - (n + 1)]
  <2>1. /\ t \in Seq(S) /\ Len(t) = Len(ae) + Len(b)
        /\ \A j \in 1 .. Len(ae) + Len(b) :
             t[j] = IF j <= Len(ae) THEN ae[j] ELSE b[j - Len(ae)]
    BY <1>3, <1>5, ConcatProperties
  <2>2. Len(ae) + Len(b) = Len(s) + 1
    BY <1>1, <1>3, <1>5
  <2> HIDE DEF t
  <2> QED
    BY <1>5, <2>1, <2>2
<1> HIDE DEF t
<1>7. \A j \in 1 .. Len(s) + 1 :
        t[j] = IF j <= n THEN s[j] ELSE IF j = n + 1 THEN e ELSE s[j - 1]
  <2> SUFFICES ASSUME NEW j \in 1 .. Len(s) + 1
               PROVE  t[j] = IF j <= n THEN s[j]
                             ELSE IF j = n + 1 THEN e ELSE s[j - 1]
    OBVIOUS
  <2>1. CASE j <= n + 1
    <3>1. j \in 1 .. n + 1
      BY <2>1
    <3>2. t[j] = IF j <= n THEN s[j] ELSE e
      BY <1>5, <1>6, <2>1, <3>1
    <3> QED
      BY <1>1, <2>1, <3>2
  <2>2. CASE ~ (j <= n + 1)
    <3>1. j - (n + 1) \in 1 .. Len(s) - n /\ n + (j - (n + 1)) = j - 1
      BY <1>1, <2>2
    <3>2. t[j] = s[n + (j - (n + 1))]
      BY <1>3, <1>6, <2>2, <3>1
    <3> QED
      BY <1>1, <2>2, <3>1, <3>2
  <2> QED
    BY <2>1, <2>2
<1> QED
  BY <1>6, <1>7 DEF t, ae, a, b, With, Insertion

Without(s, n) == SubSeq(s, 1, n - 1) \o SubSeq(s, n + 1, Len(s))

LEMMA Erased ==
  ASSUME NEW S, NEW s \in Seq(S), NEW n \in 1 .. Len(s)
  PROVE  /\ Without(s, n) \in Seq(S) /\ Len(Without(s, n)) = Len(s) - 1
         /\ \A j \in 1 .. Len(s) - 1 :
              Without(s, n)[j] = IF j < n THEN s[j] ELSE s[j + 1]
<1> DEFINE a == SubSeq(s, 1, n - 1)
           b == SubSeq(s, n + 1, Len(s))
<1>1. Len(s) \in Nat /\ \A j \in 1 .. Len(s) : s[j] \in S
  BY LenProperties, ElementOfSeq
<1>2. a \in Seq(S) /\ Len(a) = n - 1 /\ \A j \in 1 .. n - 1 : a[j] = s[j]
  <2>1. \A j \in 1 .. n - 1 : s[j] \in S
    BY <1>1
  <2>2. /\ a \in Seq(S) /\ Len(a) = IF 1 <= n - 1 THEN n - 1 - 1 + 1 ELSE 0
        /\ \A j \in 1 .. n - 1 - 1 + 1 : a[j] = s[1 + j - 1]
    BY <1>1, <2>1, SubSeqProperties
  <2> HIDE DEF a
  <2> QED
    BY <1>1, <2>2
<1>3. /\ b \in Seq(S) /\ Len(b) = Len(s) - n
      /\ \A j \in 1 .. Len(s) - n : b[j] = s[n + j]
  <2>1. \A j \in n + 1 .. Len(s) : s[j] \in S
    BY <1>1
  <2>2. /\ b \in Seq(S)
        /\ Len(b) = IF n + 1 <= Len(s) THEN Len(s) - (n + 1) + 1 ELSE 0
        /\ \A j \in 1 .. Len(s) - (n + 1) + 1 : b[j] = s[n + 1 + j - 1]
    BY <1>1, <2>1, SubSeqProperties
  <2> HIDE DEF b
  <2> QED
    BY <1>1, <2>2
<1> HIDE DEF a, b
<1> DEFINE t == a \o b
<1>4. /\ t \in Seq(S) /\ Len(t) = Len(s) - 1
      /\ \A j \in 1 .. Len(s) - 1 : t[j] = IF j <= n - 1 THEN a[j] ELSE b[j - (n - 1)]
  <2>1. /\ t \in Seq(S) /\ Len(t) = Len(a) + Len(b)
        /\ \A j \in 1 .. Len(a) + Len(b) :
             t[j] = IF j <= Len(a) THEN a[j] ELSE b[j - Len(a)]
    BY <1>2, <1>3, ConcatProperties
  <2>2. Len(a) + Len(b) = Len(s) - 1
    BY <1>1, <1>2, <1>3
  <2> HIDE DEF t
  <2> QED
    BY <1>2, <2>1, <2>2
<1> HIDE DEF t
<1>5. \A j \in 1 .. Len(s) - 1 : t[j] = IF j < n THEN s[j] ELSE s[j + 1]
  <2> SUFFICES ASSUME NEW j \in 1 .. Len(s) - 1
               PROVE  t[j] = IF j < n THEN s[j] ELSE s[j + 1]
    OBVIOUS
  <2>1. CASE j < n
    BY <1>1, <1>2, <1>4, <2>1
  <2>2. CASE ~ (j < n)
    <3>1. j - (n - 1) \in 1 .. Len(s) - n /\ n + (j - (n - 1)) = j + 1
      BY <1>1, <2>2
    <3>2. t[j] = s[n + (j - (n - 1))]
      BY <1>1, <1>3, <1>4, <2>2, <3>1
    <3> QED
      BY <1>1, <2>2, <3>1, <3>2
  <2> QED
    BY <2>1, <2>2
<1> QED
  BY <1>4, <1>5 DEF t, a, b, Without

(* The new line.                                                           *)
TypedShape ==
  /\ Typed \in Seq(Char)
  /\ Len(Typed) = input_length
  /\ \A j \in 1 .. input_length : Typed[j] = input_buffer[j - 1]

LEMMA TypedLater == IInv' =>
  /\ Typed' \in Seq(Char)
  /\ Len(Typed') = input_length'
  /\ \A j \in 1 .. input_length' : Typed'[j] = input_buffer'[j - 1]
<1>1. IInv => TypedShape
  BY TypedIs DEF IInv, TypedShape
<1>2. IInv' => TypedShape'
  BY <1>1, PTL
<1> QED
  BY <1>2 DEF TypedShape

LEMMA TypeMaps ==
  ASSUME IInv, NEW k \in Letter \cup Sign, Type(k)
  PROVE  \E ch \in Char : Lines!Type(ch)
<1>1. PICK ch \in Char : \A j \in 0 .. input_length :
        input_buffer'[j] = IF j = cursor_position THEN ch
                           ELSE IF j > cursor_position
                           THEN input_buffer[j - 1]
                           ELSE input_buffer[j]
  BY TypeBytes
<1>2. /\ input_length' = input_length + 1
      /\ cursor_position' = cursor_position + 1
      /\ IInv'
      /\ input_length < INPUT_BUFFER_SIZE - 1
  BY TypeBytes DEF Type
<1>3. /\ Typed \in Seq(Char) /\ Len(Typed) = input_length
      /\ \A j \in 1 .. input_length : Typed[j] = input_buffer[j - 1]
      /\ input_length \in Nat /\ cursor_position \in 0 .. input_length
  BY TypedIs, Sizes DEF IInv, LineIs
<1>4. /\ Typed' \in Seq(Char) /\ Len(Typed') = input_length + 1
      /\ \A j \in 1 .. input_length + 1 : Typed'[j] = input_buffer'[j - 1]
  BY <1>2, TypedLater
<1> DEFINE n == cursor_position
           t == With(Typed, n, ch)
<1>5. /\ t \in Seq(Char) /\ Len(t) = Len(Typed) + 1
      /\ \A j \in 1 .. Len(Typed) + 1 :
           t[j] = IF j <= n THEN Typed[j] ELSE IF j = n + 1 THEN ch ELSE Typed[j - 1]
  <2>1. Typed \in Seq(Char) /\ n \in 0 .. Len(Typed) /\ ch \in Char
    BY <1>1, <1>3
  <2>2. Insertion(Char, Typed, n, ch)
    BY <2>1, Inserted
  <2> QED
    BY <2>2 DEF Insertion
<1> HIDE DEF t
<1>6. \A j \in 1 .. Len(Typed') : Typed'[j] = t[j]
  <2> SUFFICES ASSUME NEW j \in 1 .. input_length + 1 PROVE Typed'[j] = t[j]
    BY <1>4
  <2>1. /\ Typed'[j] = input_buffer'[j - 1]
        /\ j - 1 \in 0 .. input_length
    BY <1>3, <1>4
  <2>2. CASE j <= n
    <3>1. j \in 1 .. input_length /\ j - 1 < n
      BY <1>3, <2>2
    <3>2. Typed'[j] = input_buffer[j - 1]
      BY <1>1, <1>3, <2>1, <3>1
    <3> QED
      BY <1>3, <1>5, <2>2, <3>1, <3>2
  <2>3. CASE j = n + 1
    BY <1>1, <1>3, <1>5, <2>1, <2>3
  <2>4. CASE j > n + 1
    <3>1. j - 1 \in 1 .. input_length /\ j - 1 > n
      BY <1>3, <2>4
    <3>2. Typed'[j] = input_buffer[j - 1 - 1]
      BY <1>1, <1>3, <2>1, <3>1
    <3> QED
      BY <1>3, <1>5, <2>4, <3>1, <3>2
  <2> QED
    BY <1>3, <2>2, <2>3, <2>4
<1>7. Typed' = t
  BY <1>3, <1>4, <1>5, <1>6, SeqEqual
<1> QED
  BY <1>2, <1>3, <1>7 DEF t, With, Lines!Type, Lines!Before, Lines!Behind

LEMMA BackspaceMaps ==
  ASSUME IInv, Backspace
  PROVE  Lines!Erase
<1>1. /\ cursor_position > 0
      /\ input_length' = input_length - 1
      /\ cursor_position' = cursor_position - 1
      /\ IInv'
      /\ \A j \in 0 .. input_length - 2 :
           input_buffer'[j] = IF j < cursor_position - 1
                              THEN input_buffer[j] ELSE input_buffer[j + 1]
  BY BackspaceBytes
<1>2. /\ Typed \in Seq(Char) /\ Len(Typed) = input_length
      /\ \A j \in 1 .. input_length : Typed[j] = input_buffer[j - 1]
      /\ input_length \in Nat /\ cursor_position \in 1 .. input_length
  BY <1>1, TypedIs, Sizes DEF IInv, LineIs
<1>3. /\ Typed' \in Seq(Char) /\ Len(Typed') = input_length - 1
      /\ \A j \in 1 .. input_length - 1 : Typed'[j] = input_buffer'[j - 1]
  BY <1>1, TypedLater
<1> DEFINE n == cursor_position
           t == Without(Typed, n)
<1>4. /\ t \in Seq(Char) /\ Len(t) = Len(Typed) - 1
      /\ \A j \in 1 .. Len(Typed) - 1 :
           t[j] = IF j < n THEN Typed[j] ELSE Typed[j + 1]
  <2>1. n \in 1 .. Len(Typed)
    BY <1>2
  <2> QED
    BY <1>2, <2>1, Erased
<1> HIDE DEF t
<1>5. \A j \in 1 .. Len(Typed') : Typed'[j] = t[j]
  <2> SUFFICES ASSUME NEW j \in 1 .. input_length - 1 PROVE Typed'[j] = t[j]
    BY <1>3
  <2>1. Typed'[j] = IF j - 1 < n - 1 THEN input_buffer[j - 1]
                    ELSE input_buffer[j - 1 + 1]
    <3>1. j - 1 \in 0 .. input_length - 2
      BY <1>2
    <3> QED
      BY <1>1, <1>3, <3>1
  <2>2. j \in 1 .. input_length /\ j + 1 \in 1 .. input_length
    BY <1>2
  <2> QED
    BY <1>2, <1>4, <2>1, <2>2
<1>6. Typed' = t
  BY <1>2, <1>3, <1>4, <1>5, SeqEqual
<1> QED
  BY <1>1, <1>2, <1>6 DEF t, Without, Lines!Erase, Lines!Behind

(* keyboard.c implements Editor, for a buffer of any size: shifting the    *)
(* bytes by one (keyboard.c:260-320), at either end and in the middle,     *)
(* inserts and erases where the cursor is, and nothing else.               *)
THEOREM Refinement == Spec => ImplementsEditor
<1>1. Init => Lines!Init
  BY DEF Init, Lines!Init, Typed
<1>2. ASSUME IInv, [Next]_vars PROVE [Lines!Next]_<<Typed, cursor_position>>
  <2>1. CASE \E k \in Letter \cup Sign : Type(k)
    BY <1>2, <2>1, TypeMaps DEF Lines!Next
  <2>2. CASE Backspace
    BY <1>2, <2>2, BackspaceMaps DEF Lines!Next
  <2>3. CASE LeftArrow \/ RightArrow
    <3>1. /\ cursor_position' \in 0 .. input_length
          /\ UNCHANGED <<input_buffer, input_length>>
          /\ \/ cursor_position' = cursor_position - 1
             \/ cursor_position' = cursor_position + 1
      BY <1>2, <2>3, MoveBytes DEF LeftArrow, RightArrow
    <3>2. Typed' = Typed /\ Len(Typed) = input_length
      BY <1>2, <3>1, TypedIs DEF Typed, IInv
    <3>3. cursor_position \in Int /\ input_length \in Int
      BY <1>2 DEF IInv, LineIs
    <3> QED
      BY <3>1, <3>2, <3>3 DEF Lines!Next, Lines!Left, Lines!Right
  <2>4. ASSUME NEW out, NEW clear, EnterKey(out, clear)
        PROVE  Lines!Next
    <3>1. input_length' = 0 /\ cursor_position' = 0
      BY <1>2, <2>4, EnterBytes
    <3>2. Typed' = <<>>
      BY <3>1 DEF Typed
    <3> QED
      BY <3>1, <3>2 DEF Lines!Next, Lines!Submit
  <2>5. CASE ExtendedPrefix \/ ExtendedIgnored \/ Modifier \/ UNCHANGED vars
    BY <1>2, <2>5, OtherBytes DEF line, Typed
  <2> QED
    BY <1>2, <2>1, <2>2, <2>3, <2>4, <2>5 DEF Next
<1> QED
  BY <1>1, <1>2, Invariance, PTL DEF Spec, ImplementsEditor, Lines!Spec

(***************************************************************************)
(* Rows and columns                                                        *)
(***************************************************************************)
LEMMA DivMod ==
  ASSUME NEW w \in Nat \ {0}, NEW a \in Nat
  PROVE  /\ a \div w \in Nat /\ a % w \in 0 .. w - 1
         /\ a = w * (a \div w) + (a % w)
OBVIOUS

LEMMA Times ==
  ASSUME NEW w \in Nat \ {0}, NEW p \in Int, NEW q \in Int, p < q
  PROVE  w * p + w <= w * q
OBVIOUS

(* What comes later is not in an earlier row; the next place is in this    *)
(* row or the next one; two places differ in their row or their column.    *)
LEMMA RowsGrow ==
  ASSUME NEW w \in Nat \ {0}, NEW a \in Nat, NEW b \in Nat, a <= b
  PROVE  a \div w <= b \div w
<1> DEFINE p == a \div w
           q == b \div w
<1>1. /\ p \in Nat /\ q \in Nat /\ a % w \in 0 .. w - 1 /\ b % w \in 0 .. w - 1
      /\ a = w * p + (a % w) /\ b = w * q + (b % w)
  BY DivMod
<1>2. w * p \in Int /\ w * q \in Int
  BY <1>1
<1> HIDE DEF p, q
<1>3. q < p => w * q + w <= w * p
  BY <1>1, Times
<1>4. p <= q
  BY <1>1, <1>2, <1>3
<1> QED
  BY <1>4 DEF p, q

LEMMA NextRow ==
  ASSUME NEW w \in Nat \ {0}, NEW a \in Nat, NEW b, b = a + 1
  PROVE  b \div w <= a \div w + 1
<1> DEFINE p == a \div w
           q == b \div w
<1>1. /\ p \in Nat /\ a % w \in 0 .. w - 1 /\ a = w * p + (a % w)
  BY DivMod
<1>2. /\ q \in Nat /\ b % w \in 0 .. w - 1 /\ b = w * q + (b % w)
  <2>1. b \in Nat
    OBVIOUS
  <2> QED
    BY <2>1, DivMod
<1>3. w * p \in Int /\ w * q \in Int
  BY <1>1, <1>2
<1>4. w * (p + 1) = w * p + w /\ w * (p + 1) \in Int
  BY <1>1
<1> HIDE DEF p, q
<1>5. p + 1 < q => w * (p + 1) + w <= w * q
  BY <1>1, <1>2, Times
<1>6. q <= p + 1
  BY <1>1, <1>2, <1>3, <1>4, <1>5
<1> QED
  BY <1>6 DEF p, q

LEMMA RowBelow ==
  ASSUME NEW w \in Nat \ {0}, NEW h \in Nat, NEW a \in Nat, a < w * h
  PROVE  a \div w < h
<1> DEFINE p == a \div w
<1>1. p \in Nat /\ a % w \in 0 .. w - 1 /\ a = w * p + (a % w)
  BY DivMod
<1>2. w * p \in Int /\ w * h \in Int
  BY <1>1
<1> HIDE DEF p
<1>3. h = p \/ h < p => w * h <= w * p
  BY <1>1, <1>2, Times
<1>4. p < h
  BY <1>1, <1>2, <1>3
<1> QED
  BY <1>4 DEF p

(***************************************************************************)
(* The state of the screen                                                 *)
(***************************************************************************)
IsRecord(s) == s = [cell |-> s.cell, x |-> s.x, y |-> s.y,
                    startx |-> s.startx, starty |-> s.starty]

IsScreen(s, height) ==
  /\ IsRecord(s)
  /\ s.x \in 0 .. VGA_WIDTH - 1 /\ s.y \in 0 .. height
  /\ s.startx \in 0 .. VGA_WIDTH - 1 /\ s.starty \in 0 .. VGA_HEIGHT - 1

ScreenIs(s) == IsScreen(s, VGA_HEIGHT - 1)

LEMMA Fields ==
  ASSUME NEW c, NEW x, NEW y, NEW sx, NEW sy, NEW s,
         s = [cell |-> c, x |-> x, y |-> y, startx |-> sx, starty |-> sy]
  PROVE  s.cell = c /\ s.x = x /\ s.y = y /\ s.startx = sx /\ s.starty = sy
OBVIOUS

Column(s, i) == (s.startx + i) % VGA_WIDTH
Row(s, i)    == s.starty + ((s.startx + i) \div VGA_WIDTH)

LEMMA PlaceIs ==
  ASSUME NEW s, NEW i
  PROVE  keyboard_get_screen_pos(s, i) = <<Column(s, i), Row(s, i)>>
BY DEF keyboard_get_screen_pos, Column, Row

(* Where character i of the input belongs.                                 *)
LEMMA Places ==
  ASSUME NEW s, ScreenIs(s), NEW i \in Nat
  PROVE  /\ Column(s, i) \in 0 .. VGA_WIDTH - 1
         /\ Row(s, i) \in Nat /\ s.starty <= Row(s, i)
         /\ keyboard_get_screen_pos(s, i) \in Cell <=> Row(s, i) < VGA_HEIGHT
         /\ i < INPUT_BUFFER_SIZE => Row(s, i) - s.starty < VGA_HEIGHT
<1> DEFINE a == s.startx + i
           p == a \div VGA_WIDTH
<1>1. /\ VGA_WIDTH \in Nat \ {0} /\ VGA_HEIGHT \in Nat \ {0}
      /\ INPUT_BUFFER_SIZE \in Nat /\ a \in Nat /\ s.starty \in Nat
  BY Sizes DEF ScreenIs, IsScreen
<1>2. p \in Nat /\ a % VGA_WIDTH \in 0 .. VGA_WIDTH - 1
  BY <1>1, DivMod
<1>3. i < INPUT_BUFFER_SIZE => p < VGA_HEIGHT
  <2> SUFFICES ASSUME i < INPUT_BUFFER_SIZE PROVE p < VGA_HEIGHT
    OBVIOUS
  <2> DEFINE area == VGA_WIDTH * VGA_HEIGHT
  <2>1. area \in Nat /\ VGA_WIDTH - 1 + INPUT_BUFFER_SIZE <= area
    BY <1>1, LineEditorAssumption
  <2>2. s.startx <= VGA_WIDTH - 1 /\ s.startx \in Nat
    BY Sizes DEF ScreenIs, IsScreen
  <2> HIDE DEF area
  <2>3. a < area
    BY <1>1, <2>1, <2>2
  <2> HIDE DEF a
  <2> QED
    BY <1>1, <2>3, RowBelow DEF area
<1>4. Column(s, i) = a % VGA_WIDTH /\ Row(s, i) = s.starty + p
  BY DEF Column, Row
<1> HIDE DEF a, p
<1>5. keyboard_get_screen_pos(s, i) \in Cell <=> Row(s, i) < VGA_HEIGHT
  <2>1. keyboard_get_screen_pos(s, i) = <<Column(s, i), Row(s, i)>>
    BY PlaceIs
  <2>2. Row(s, i) \in Nat /\ Column(s, i) \in 0 .. VGA_WIDTH - 1
    BY <1>1, <1>2, <1>4
  <2>3. Row(s, i) \in 0 .. VGA_HEIGHT - 1 <=> Row(s, i) < VGA_HEIGHT
    BY <1>1, <2>2
  <2> QED
    BY <2>1, <2>2, <2>3 DEF Cell
<1> QED
  BY <1>1, <1>2, <1>3, <1>4, <1>5

LEMMA PlacesGrow ==
  ASSUME NEW s, ScreenIs(s), NEW i \in Nat, NEW j \in Nat, i <= j
  PROVE  Row(s, i) <= Row(s, j) /\ (j <= i + 1 => Row(s, j) <= Row(s, i) + 1)
<1> DEFINE a == s.startx + i
           b == s.startx + j
<1>1. /\ VGA_WIDTH \in Nat \ {0} /\ a \in Nat /\ b \in Nat /\ a <= b
      /\ s.starty \in Nat /\ s.startx \in Nat
  BY Sizes DEF ScreenIs, IsScreen
<1>2. j <= i + 1 => b = a \/ b = a + 1
  BY <1>1
<1>3. /\ Row(s, i) = s.starty + (a \div VGA_WIDTH)
      /\ Row(s, j) = s.starty + (b \div VGA_WIDTH)
  BY DEF Row
<1> HIDE DEF a, b
<1>4. a \div VGA_WIDTH <= b \div VGA_WIDTH
  BY <1>1, RowsGrow
<1>5. a \div VGA_WIDTH \in Nat /\ b \div VGA_WIDTH \in Nat
  BY <1>1, DivMod
<1>6. j <= i + 1 => b \div VGA_WIDTH <= (a \div VGA_WIDTH) + 1
  <2>1. CASE b = a
    BY <1>5, <2>1
  <2>2. CASE b = a + 1
    BY <1>1, <2>2, NextRow
  <2> QED
    BY <1>2, <2>1, <2>2
<1> QED
  BY <1>1, <1>3, <1>4, <1>5, <1>6

LEMMA PlacesDiffer ==
  ASSUME NEW s, ScreenIs(s), NEW i \in Nat, NEW j \in Nat,
         keyboard_get_screen_pos(s, i) = keyboard_get_screen_pos(s, j)
  PROVE  i = j
<1> DEFINE a == s.startx + i
           b == s.startx + j
<1>1. /\ VGA_WIDTH \in Nat \ {0} /\ a \in Nat /\ b \in Nat
      /\ s.starty \in Nat /\ s.startx \in Nat
  BY Sizes DEF ScreenIs, IsScreen
<1>2. /\ a % VGA_WIDTH = b % VGA_WIDTH
      /\ s.starty + (a \div VGA_WIDTH) = s.starty + (b \div VGA_WIDTH)
  BY DEF keyboard_get_screen_pos
<1> HIDE DEF a, b
<1>3. /\ a \div VGA_WIDTH \in Nat /\ b \div VGA_WIDTH \in Nat
      /\ a = VGA_WIDTH * (a \div VGA_WIDTH) + (a % VGA_WIDTH)
      /\ b = VGA_WIDTH * (b \div VGA_WIDTH) + (b % VGA_WIDTH)
  BY <1>1, DivMod
<1>4. a \div VGA_WIDTH = b \div VGA_WIDTH
  BY <1>1, <1>2, <1>3
<1>5. a = b
  BY <1>2, <1>3, <1>4
<1> QED
  BY <1>1, <1>5 DEF a, b

(***************************************************************************)
(* What vga.c does to the state of the screen                              *)
(***************************************************************************)
(* Two fields are changed one after the other.                             *)
LEMMA OneByOne ==
  ASSUME NEW f, NEW a, NEW b, NEW u, NEW v
  PROVE  [f EXCEPT ![a] = u, ![b] = v] = [[f EXCEPT ![a] = u] EXCEPT ![b] = v]
OBVIOUS

LEMMA CellAndY ==
  ASSUME NEW s, IsRecord(s), NEW u, NEW v
  PROVE  [s EXCEPT !.cell = u, !.y = v]
           = [cell |-> u, x |-> s.x, y |-> v,
              startx |-> s.startx, starty |-> s.starty]
<1> DEFINE r == [s EXCEPT !.cell = u]
<1>1. [s EXCEPT !.cell = u, !.y = v] = [r EXCEPT !.y = v]
  BY OneByOne
<1>2. r = [cell |-> u, x |-> s.x, y |-> s.y,
           startx |-> s.startx, starty |-> s.starty]
  BY DEF IsRecord
<1> HIDE DEF r
<1>3. [r EXCEPT !.y = v]
        = [cell |-> u, x |-> s.x, y |-> v,
           startx |-> s.startx, starty |-> s.starty]
  BY <1>2
<1> QED
  BY <1>1, <1>3, Zenon

LEMMA XAndY ==
  ASSUME NEW s, IsRecord(s), NEW u, NEW v
  PROVE  [s EXCEPT !.x = u, !.y = v]
           = [cell |-> s.cell, x |-> u, y |-> v, startx |-> s.startx, starty |-> s.starty]
<1> DEFINE r == [s EXCEPT !.x = u]
<1>1. [s EXCEPT !.x = u, !.y = v] = [r EXCEPT !.y = v]
  BY OneByOne
<1>2. r = [cell |-> s.cell, x |-> u, y |-> s.y, startx |-> s.startx, starty |-> s.starty]
  BY DEF IsRecord
<1> HIDE DEF r
<1>3. [r EXCEPT !.y = v]
        = [cell |-> s.cell, x |-> u, y |-> v, startx |-> s.startx, starty |-> s.starty]
  BY <1>2
<1> QED
  BY <1>1, <1>3, Zenon

LEMMA StartXAndY ==
  ASSUME NEW s, IsRecord(s), NEW u, NEW v
  PROVE  [s EXCEPT !.startx = u, !.starty = v]
           = [cell |-> s.cell, x |-> s.x, y |-> s.y, startx |-> u, starty |-> v]
<1> DEFINE r == [s EXCEPT !.startx = u]
<1>1. [s EXCEPT !.startx = u, !.starty = v] = [r EXCEPT !.starty = v]
  BY OneByOne
<1>2. r = [cell |-> s.cell, x |-> s.x, y |-> s.y, startx |-> u, starty |-> s.starty]
  BY DEF IsRecord
<1> HIDE DEF r
<1>3. [r EXCEPT !.starty = v]
        = [cell |-> s.cell, x |-> s.x, y |-> s.y, startx |-> u, starty |-> v]
  BY <1>2
<1> QED
  BY <1>1, <1>3, Zenon

LEMMA ScrollIs ==
  ASSUME NEW s, IsScreen(s, VGA_HEIGHT), NEW n \in Nat
  PROVE  vga_scroll(s, n) =
           [cell |-> [p \in Cell |-> IF p[2] + n >= VGA_HEIGHT THEN Blank
                                     ELSE s.cell[<<p[1], p[2] + n>>]],
            x |-> s.x, y |-> VGA_HEIGHT - 1, startx |-> s.startx,
            starty |-> IF s.starty > n THEN s.starty - n ELSE 0]
<1> DEFINE c == [p \in Cell |-> IF p[2] + n >= VGA_HEIGHT THEN Blank
                                ELSE s.cell[<<p[1], p[2] + n>>]]
           m == [cell |-> c, x |-> s.x, y |-> VGA_HEIGHT - 1,
                 startx |-> s.startx, starty |-> s.starty]
<1>1. Moved(s, n) = [s EXCEPT !.cell = c, !.y = VGA_HEIGHT - 1]
  BY DEF Moved
<1> HIDE DEF c
<1>2. [s EXCEPT !.cell = c, !.y = VGA_HEIGHT - 1] = m
  <2>1. IsRecord(s)
    BY DEF IsScreen
  <2> QED
    BY <2>1, CellAndY, Zenon
<1>3. vga_scroll(s, n) = [m EXCEPT !.starty = IF @ > n THEN @ - n ELSE 0]
  BY <1>1, <1>2 DEF vga_scroll
<1>4. vga_scroll(s, n) = [cell |-> c, x |-> s.x, y |-> VGA_HEIGHT - 1,
                          startx |-> s.startx,
                          starty |-> IF s.starty > n THEN s.starty - n ELSE 0]
  BY <1>3
<1> QED
  BY <1>4 DEF c

LEMMA ScrollKeeps ==
  ASSUME NEW s, IsScreen(s, VGA_HEIGHT), NEW n \in Nat
  PROVE  ScreenIs(vga_scroll(s, n))
<1> DEFINE t == vga_scroll(s, n)
           c == [p \in Cell |-> IF p[2] + n >= VGA_HEIGHT THEN Blank
                                ELSE s.cell[<<p[1], p[2] + n>>]]
<1>1. t = [cell |-> c, x |-> s.x, y |-> VGA_HEIGHT - 1, startx |-> s.startx,
           starty |-> IF s.starty > n THEN s.starty - n ELSE 0]
  BY ScrollIs
<1> HIDE DEF t, c
<1>2. /\ t.cell = c /\ t.x = s.x /\ t.y = VGA_HEIGHT - 1 /\ t.startx = s.startx
      /\ t.starty = IF s.starty > n THEN s.starty - n ELSE 0
  BY <1>1
<1>3. t = [cell |-> t.cell, x |-> t.x, y |-> t.y,
           startx |-> t.startx, starty |-> t.starty]
  BY <1>1, <1>2
<1>4. ScreenIs(t)
  BY <1>2, <1>3, Sizes DEF IsScreen, ScreenIs, IsRecord
<1> QED
  BY <1>4 DEF t

LEMMA PutcharKeeps ==
  ASSUME NEW s, ScreenIs(s), NEW ch
  PROVE  ScreenIs(vga_putchar(s, ch))
<1> DEFINE drawn == IF ch = Newline THEN s
                    ELSE [s EXCEPT !.cell[<<s.x, s.y>>] = ch]
           moved == IF ch = Newline \/ s.x + 1 >= VGA_WIDTH
                    THEN [drawn EXCEPT !.x = 0, !.y = @ + 1]
                    ELSE [drawn EXCEPT !.x = @ + 1]
<1>1. PICK c : drawn = [cell |-> c, x |-> s.x, y |-> s.y,
                        startx |-> s.startx, starty |-> s.starty]
  <2>1. CASE ch = Newline
    BY <2>1 DEF ScreenIs, IsScreen, IsRecord
  <2>2. CASE ch # Newline
    <3>1. [s EXCEPT !.cell[<<s.x, s.y>>] = ch]
            = [cell |-> [s.cell EXCEPT ![<<s.x, s.y>>] = ch], x |-> s.x, y |-> s.y,
               startx |-> s.startx, starty |-> s.starty]
      BY DEF ScreenIs, IsScreen, IsRecord
    <3> QED
      BY <2>2, <3>1
  <2> QED
    BY <2>1, <2>2
<1>2. vga_putchar(s, ch) = IF moved.y >= VGA_HEIGHT THEN vga_scroll(moved, 1)
                           ELSE moved
  BY DEF vga_putchar
<1> HIDE DEF drawn
<1>3. moved = IF ch = Newline \/ s.x + 1 >= VGA_WIDTH
              THEN [cell |-> c, x |-> 0, y |-> s.y + 1,
                    startx |-> s.startx, starty |-> s.starty]
              ELSE [cell |-> c, x |-> s.x + 1, y |-> s.y,
                    startx |-> s.startx, starty |-> s.starty]
  <2>1. /\ IsRecord(drawn)
        /\ drawn.cell = c /\ drawn.x = s.x /\ drawn.y = s.y
        /\ drawn.startx = s.startx /\ drawn.starty = s.starty
    BY <1>1 DEF IsRecord
  <2> DEFINE zero == 0
             next == drawn.y + 1
  <2>2. [drawn EXCEPT !.x = 0, !.y = @ + 1] = [drawn EXCEPT !.x = zero, !.y = next]
    OBVIOUS
  <2> HIDE DEF zero, next
  <2>3. [drawn EXCEPT !.x = zero, !.y = next]
          = [cell |-> drawn.cell, x |-> zero, y |-> next,
             startx |-> drawn.startx, starty |-> drawn.starty]
    BY <2>1, XAndY, Zenon
  <2>4. zero = 0 /\ next = s.y + 1
    BY <2>1 DEF zero, next
  <2>5. [drawn EXCEPT !.x = @ + 1]
          = [cell |-> c, x |-> s.x + 1, y |-> s.y,
             startx |-> s.startx, starty |-> s.starty]
    BY <1>1
  <2> QED
    BY <2>1, <2>2, <2>3, <2>4, <2>5, Zenon
<1> HIDE DEF moved
<1>4. /\ s.x \in 0 .. VGA_WIDTH - 1 /\ s.y \in 0 .. VGA_HEIGHT - 1
      /\ s.startx \in 0 .. VGA_WIDTH - 1 /\ s.starty \in 0 .. VGA_HEIGHT - 1
      /\ VGA_WIDTH \in Nat \ {0} /\ VGA_HEIGHT \in Nat \ {0}
  BY Sizes DEF ScreenIs, IsScreen, IsRecord
<1>5. IsScreen(moved, VGA_HEIGHT)
  <2>1. CASE ch = Newline \/ s.x + 1 >= VGA_WIDTH
    <3>1. /\ moved.x = 0 /\ moved.y = s.y + 1 /\ moved.startx = s.startx
          /\ moved.starty = s.starty /\ moved.cell = c
      BY <1>3, <2>1, Fields
    <3>2. moved = [cell |-> moved.cell, x |-> moved.x, y |-> moved.y,
                   startx |-> moved.startx, starty |-> moved.starty]
      BY <1>3, <2>1, <3>1
    <3> QED
      BY <1>4, <3>1, <3>2 DEF IsScreen, IsRecord
  <2>2. CASE ~ (ch = Newline \/ s.x + 1 >= VGA_WIDTH)
    <3>1. /\ moved.x = s.x + 1 /\ moved.y = s.y /\ moved.startx = s.startx
          /\ moved.starty = s.starty /\ moved.cell = c
      BY <1>3, <2>2, Fields
    <3>2. moved = [cell |-> moved.cell, x |-> moved.x, y |-> moved.y,
                   startx |-> moved.startx, starty |-> moved.starty]
      BY <1>3, <2>2, <3>1
    <3> QED
      BY <1>4, <2>2, <3>1, <3>2 DEF IsScreen, IsRecord
  <2> QED
    BY <2>1, <2>2
<1>6. CASE moved.y >= VGA_HEIGHT
  BY <1>2, <1>5, <1>6, ScrollKeeps
<1>7. CASE ~ (moved.y >= VGA_HEIGHT)
  <2>1. moved.y \in 0 .. VGA_HEIGHT - 1
    BY <1>4, <1>5, <1>7 DEF IsScreen
  <2> QED
    BY <1>2, <1>5, <1>7, <2>1 DEF IsScreen, ScreenIs, IsRecord
<1> QED
  BY <1>6, <1>7

(***************************************************************************)
(* A string, character by character                                        *)
(***************************************************************************)
Lesser == {p \in Nat \X Nat : p[1] < p[2]}

LEMMA Least ==
  ASSUME NEW T, T \subseteq Nat, T # {}
  PROVE  \E x \in T : \A y \in T : ~ (y < x)
<1>1. IsWellFoundedOn(OpToRel(<, Nat), Nat)
  BY NatLessThanWellFounded
<1>2. IsWellFoundedOn(Lesser, Nat)
  BY <1>1 DEF OpToRel, Lesser
<1>3. PICK x \in T : \A y \in T : ~ (<<y, x>> \in Lesser)
  BY <1>2, WFMin
<1>4. ASSUME NEW y \in T, y < x
      PROVE  FALSE
  <2>1. <<y, x>> \in Nat \X Nat /\ <<y, x>>[1] = y /\ <<y, x>>[2] = x
    OBVIOUS
  <2> QED
    BY <1>3, <1>4, <2>1 DEF Lesser
<1> QED
  BY <1>4

LEMMA Induction ==
  ASSUME NEW T, 0 \in T, \A n \in Nat : n \in T => n + 1 \in T
  PROVE  Nat \subseteq T
<1> SUFFICES ASSUME Nat \ T # {} PROVE FALSE
  OBVIOUS
<1>1. PICK x \in Nat \ T : \A y \in Nat \ T : ~ (y < x)
  BY Least
<1>2. x # 0 /\ x - 1 \in Nat /\ x - 1 < x
  OBVIOUS
<1>3. x - 1 \in T
  BY <1>1, <1>2
<1>4. x - 1 + 1 = x
  OBVIOUS
<1> QED
  BY <1>2, <1>3, <1>4

(* vga_puts is vga_putchar for one character after the other.              *)
PutsStep(s, str, g, n) == IF n = 0 THEN s ELSE vga_putchar(g[n - 1], str[n])

PutsTo(s, str, g, k) == g = [n \in 0 .. k |-> PutsStep(s, str, g, n)]

LEMMA PutsIs ==
  ASSUME NEW s, NEW str \in Seq(Glyph)
  PROVE  \E g : PutsTo(s, str, g, Len(str)) /\ vga_puts(s, str) = g[Len(str)]
<1> DEFINE T == {k \in Nat : \E g : PutsTo(s, str, g, k)}
<1>1. 0 \in T
  <2> DEFINE g == [n \in 0 .. 0 |-> s]
  <2>1. \A n \in 0 .. 0 : PutsStep(s, str, g, n) = s
    BY DEF PutsStep
  <2>2. PutsTo(s, str, g, 0)
    BY <2>1 DEF PutsTo
  <2> HIDE DEF g
  <2> QED
    BY <2>2
<1>2. ASSUME NEW k \in Nat, k \in T
      PROVE  k + 1 \in T
  <2>1. PICK g : PutsTo(s, str, g, k)
    BY <1>2
  <2> DEFINE h == [n \in 0 .. k + 1 |-> PutsStep(s, str, g, n)]
  <2>2. \A n \in 0 .. k : h[n] = g[n]
    BY <2>1 DEF PutsTo
  <2>3. ASSUME NEW n \in 0 .. k + 1
        PROVE  PutsStep(s, str, h, n) = PutsStep(s, str, g, n)
    <3> HIDE DEF h
    <3>1. n # 0 => n - 1 \in 0 .. k
      OBVIOUS
    <3> QED
      BY <2>2, <3>1 DEF PutsStep
  <2>4. PutsTo(s, str, h, k + 1)
    BY <2>3 DEF PutsTo
  <2> HIDE DEF h
  <2> QED
    BY <2>4
<1>3. Nat \subseteq T
  <2> HIDE DEF T
  <2> QED
    BY <1>1, <1>2, Induction
<1>4. Len(str) \in Nat
  OBVIOUS
<1>5. \E g : PutsTo(s, str, g, Len(str))
  BY <1>3, <1>4
<1>6. vga_puts(s, str) = (CHOOSE g : PutsTo(s, str, g, Len(str)))[Len(str)]
  BY DEF vga_puts, PutsTo, PutsStep
<1> QED
  BY <1>5, <1>6

(* Whatever is printed, the cursor stays on the screen.                    *)
LEMMA PutsKeeps ==
  ASSUME NEW s, ScreenIs(s), NEW str \in Seq(Glyph)
  PROVE  ScreenIs(vga_puts(s, str))
<1> DEFINE last == Len(str)
<1>1. PICK g : PutsTo(s, str, g, last) /\ vga_puts(s, str) = g[last]
  BY PutsIs
<1>2. last \in Nat
  OBVIOUS
<1> HIDE DEF last
<1>3. ASSUME NEW n \in 0 .. last PROVE g[n] = PutsStep(s, str, g, n)
  BY <1>1 DEF PutsTo
<1> DEFINE T == {k \in Nat : k <= last => ScreenIs(g[k])}
<1>4. 0 \in T
  <2>1. g[0] = s
    BY <1>2, <1>3 DEF PutsStep
  <2> QED
    BY <2>1
<1>5. ASSUME NEW k \in Nat, k \in T
      PROVE  k + 1 \in T
  <2> SUFFICES ASSUME k + 1 <= last PROVE ScreenIs(g[k + 1])
    OBVIOUS
  <2> DEFINE n == k + 1
  <2>1. n \in 0 .. last /\ n # 0 /\ n - 1 = k /\ k <= last
    BY <1>2
  <2>2. ScreenIs(g[k])
    BY <1>5, <2>1
  <2> HIDE DEF n
  <2>3. g[n] = vga_putchar(g[n - 1], str[n])
    BY <1>3, <2>1 DEF PutsStep
  <2>4. ScreenIs(g[n])
    BY <2>1, <2>2, <2>3, PutcharKeeps
  <2> QED
    BY <2>4 DEF n
<1>6. last \in T
  <2> HIDE DEF T
  <2> QED
    BY <1>2, <1>4, <1>5, Induction
<1> QED
  BY <1>1, <1>2, <1>6

(* Where the input starts after that.                                      *)
LEMMA StartIs ==
  ASSUME NEW s, ScreenIs(s), NEW t, t = console_set_input_start(s)
  PROVE  ScreenIs(t) /\ <<t.x, t.y>> = keyboard_get_screen_pos(t, 0)
<1> DEFINE u == s.x
           v == s.y
<1>1. t = [s EXCEPT !.startx = u, !.starty = v]
  BY DEF console_set_input_start
<1>2. /\ u \in 0 .. VGA_WIDTH - 1 /\ v \in 0 .. VGA_HEIGHT - 1 /\ IsRecord(s)
      /\ VGA_WIDTH \in Nat \ {0} /\ VGA_HEIGHT \in Nat \ {0}
  BY Sizes DEF ScreenIs, IsScreen
<1> HIDE DEF u, v
<1>3. t = [cell |-> s.cell, x |-> s.x, y |-> s.y, startx |-> u, starty |-> v]
  BY <1>1, <1>2, StartXAndY, Zenon
<1>4. t.x = u /\ t.y = v /\ t.startx = u /\ t.starty = v /\ IsRecord(t)
  BY <1>3 DEF u, v, IsRecord
<1>5. ScreenIs(t)
  BY <1>2, <1>4 DEF ScreenIs, IsScreen
<1>6. (u + 0) % VGA_WIDTH = u /\ (u + 0) \div VGA_WIDTH = 0
  <2>1. u = VGA_WIDTH * (u \div VGA_WIDTH) + (u % VGA_WIDTH)
        /\ u \div VGA_WIDTH \in Nat /\ u % VGA_WIDTH \in Nat
    BY <1>2, DivMod
  <2>2. VGA_WIDTH * 0 = 0 /\ VGA_WIDTH * (u \div VGA_WIDTH) \in Int
    BY <1>2, <2>1
  <2>3. 0 < u \div VGA_WIDTH => VGA_WIDTH * 0 + VGA_WIDTH <= VGA_WIDTH * (u \div VGA_WIDTH)
    BY <1>2, <2>1, Times
  <2>4. u \div VGA_WIDTH = 0
    BY <1>2, <2>1, <2>2, <2>3
  <2> QED
    BY <1>2, <2>1, <2>2, <2>4
<1>7. v + ((u + 0) \div VGA_WIDTH) = v
  BY <1>2, <1>6
<1>8. keyboard_get_screen_pos(t, 0)
        = <<(u + 0) % VGA_WIDTH, v + ((u + 0) \div VGA_WIDTH)>>
  BY <1>4 DEF keyboard_get_screen_pos
<1> QED
  BY <1>4, <1>5, <1>6, <1>7, <1>8

(* vga_set_cursor, on the screen and one row below it.                     *)
LEMMA CursorStays ==
  ASSUME NEW s, ScreenIs(s), NEW x \in 0 .. VGA_WIDTH - 1,
         NEW y \in 0 .. VGA_HEIGHT - 1, NEW t, t = vga_set_cursor(s, x, y)
  PROVE  /\ ScreenIs(t) /\ t.x = x /\ t.y = y /\ t.cell = s.cell
         /\ t.startx = s.startx /\ t.starty = s.starty
<1>1. ~ (y - (VGA_HEIGHT - 1) > 0)
  BY Sizes
<1>2. t = [s EXCEPT !.x = x, !.y = y]
  BY <1>1 DEF vga_set_cursor
<1>3. t = [cell |-> s.cell, x |-> x, y |-> y,
           startx |-> s.startx, starty |-> s.starty]
  BY <1>2, XAndY, Zenon DEF ScreenIs, IsScreen
<1>4. /\ t.x = x /\ t.y = y /\ t.cell = s.cell
      /\ t.startx = s.startx /\ t.starty = s.starty /\ IsRecord(t)
  BY <1>3 DEF IsRecord
<1> QED
  BY <1>4 DEF ScreenIs, IsScreen

LEMMA CursorScrolls ==
  ASSUME NEW s, ScreenIs(s), s.starty >= 1, NEW x \in 0 .. VGA_WIDTH - 1,
         NEW t, t = vga_set_cursor(s, x, VGA_HEIGHT)
  PROVE  /\ ScreenIs(t) /\ t.x = x /\ t.y = VGA_HEIGHT - 1
         /\ t.startx = s.startx /\ t.starty = s.starty - 1
         /\ t.cell = [p \in Cell |-> IF p[2] + 1 >= VGA_HEIGHT THEN Blank
                                     ELSE s.cell[<<p[1], p[2] + 1>>]]
<1> DEFINE c == [p \in Cell |-> IF p[2] + 1 >= VGA_HEIGHT THEN Blank
                                ELSE s.cell[<<p[1], p[2] + 1>>]]
           r == vga_scroll(s, 1)
<1>1. /\ VGA_HEIGHT \in Nat \ {0} /\ VGA_WIDTH \in Nat \ {0}
      /\ VGA_HEIGHT - (VGA_HEIGHT - 1) = 1 /\ s.starty \in 1 .. VGA_HEIGHT - 1
  BY Sizes DEF ScreenIs, IsScreen
<1>2. t = [r EXCEPT !.x = x]
  BY <1>1 DEF vga_set_cursor
<1>3. IsScreen(s, VGA_HEIGHT)
  BY <1>1 DEF ScreenIs, IsScreen
<1>4. (IF s.starty > 1 THEN s.starty - 1 ELSE 0) = s.starty - 1
  BY <1>1
<1>5. r = [cell |-> c, x |-> s.x, y |-> VGA_HEIGHT - 1, startx |-> s.startx,
           starty |-> s.starty - 1]
  <2>1. r = [cell |-> c, x |-> s.x, y |-> VGA_HEIGHT - 1, startx |-> s.startx,
             starty |-> IF s.starty > 1 THEN s.starty - 1 ELSE 0]
    BY <1>3, ScrollIs
  <2> HIDE DEF r, c
  <2> QED
    BY <1>4, <2>1
<1> HIDE DEF r, c
<1>6. t = [cell |-> c, x |-> x, y |-> VGA_HEIGHT - 1, startx |-> s.startx,
           starty |-> s.starty - 1]
  BY <1>2, <1>5
<1>7. /\ t.x = x /\ t.y = VGA_HEIGHT - 1 /\ t.cell = c
      /\ t.startx = s.startx /\ t.starty = s.starty - 1 /\ IsRecord(t)
  BY <1>6 DEF IsRecord
<1>8. ScreenIs(t)
  BY <1>1, <1>7 DEF ScreenIs, IsScreen
<1> QED
  BY <1>7, <1>8 DEF c

(***************************************************************************)
(* The redraw                                                              *)
(***************************************************************************)
(* What is at the place of character i after the cells are written.        *)
LEMMA PaintIs ==
  ASSUME NEW s, ScreenIs(s), NEW buffer, NEW length \in Nat,
         previous_length \in Nat,
         NEW t, t = Paint(s, buffer, length)
  PROVE  /\ ScreenIs(t) /\ t.startx = s.startx /\ t.starty = s.starty
         /\ \A i \in Nat :
              LET p == keyboard_get_screen_pos(s, i)
              IN  p \in Cell =>
                    t.cell[p] = IF i < length THEN buffer[i]
                                ELSE IF i < previous_length THEN Blank
                                ELSE s.cell[p]
<1> DEFINE Drawn(p) == {i \in 0 .. length - 1 : keyboard_get_screen_pos(s, i) = p}
           Behind(p) == {i \in 0 .. previous_length - 1 :
                           keyboard_get_screen_pos(s, i) = p}
           Shown(p) == IF Drawn(p) # {} THEN buffer[CHOOSE i \in Drawn(p) : TRUE]
                       ELSE IF Behind(p) # {} THEN Blank
                       ELSE s.cell[p]
           c == [p \in Cell |-> Shown(p)]
<1>1. t = [s EXCEPT !.cell = c]
  BY DEF Paint
<1> HIDE DEF c
<1>2. t = [cell |-> c, x |-> s.x, y |-> s.y,
           startx |-> s.startx, starty |-> s.starty]
  BY <1>1 DEF ScreenIs, IsScreen, IsRecord
<1>3. /\ t.x = s.x /\ t.y = s.y /\ t.cell = c
      /\ t.startx = s.startx /\ t.starty = s.starty /\ IsRecord(t)
  BY <1>2 DEF IsRecord
<1>4. ScreenIs(t)
  BY <1>3 DEF ScreenIs, IsScreen
<1>5. ASSUME NEW i \in Nat, NEW p \in Cell, p = keyboard_get_screen_pos(s, i)
      PROVE  Shown(p) = IF i < length THEN buffer[i]
                        ELSE IF i < previous_length THEN Blank
                        ELSE s.cell[p]
  <2>1. ASSUME NEW j \in Nat, keyboard_get_screen_pos(s, j) = p
        PROVE  j = i
    BY <1>5, <2>1, PlacesDiffer
  <2>2. Drawn(p) = IF i < length THEN {i} ELSE {}
    <3>1. \A j \in Drawn(p) : j = i
      BY <2>1
    <3>2. i < length => i \in Drawn(p)
      BY <1>5
    <3>3. i \in Drawn(p) => i < length
      OBVIOUS
    <3> HIDE DEF Drawn
    <3> QED
      BY <3>1, <3>2, <3>3
  <2>3. Behind(p) = IF i < previous_length THEN {i} ELSE {}
    <3>1. \A j \in Behind(p) : j = i
      BY <2>1
    <3>2. i < previous_length => i \in Behind(p)
      BY <1>5
    <3>3. i \in Behind(p) => i < previous_length
      OBVIOUS
    <3> HIDE DEF Behind
    <3> QED
      BY <3>1, <3>2, <3>3
  <2> HIDE DEF Drawn, Behind
  <2>4. CASE i < length
    <3>1. (CHOOSE j \in Drawn(p) : TRUE) = i
      BY <2>2, <2>4
    <3> QED
      BY <2>2, <2>4, <3>1
  <2>5. CASE ~ (i < length)
    BY <2>2, <2>3, <2>5
  <2> QED
    BY <2>4, <2>5
<1>6. ASSUME NEW p \in Cell PROVE c[p] = Shown(p)
  <2> HIDE DEF Shown
  <2> QED
    BY DEF c
<1> HIDE DEF Shown
<1>7. ASSUME NEW i \in Nat, keyboard_get_screen_pos(s, i) \in Cell
      PROVE  t.cell[keyboard_get_screen_pos(s, i)]
               = IF i < length THEN buffer[i]
                 ELSE IF i < previous_length THEN Blank
                 ELSE s.cell[keyboard_get_screen_pos(s, i)]
  BY <1>3, <1>5, <1>6, <1>7
<1> QED
  BY <1>3, <1>4, <1>7

(* The picture of a buffer: up to the cursor, and what is gone.            *)
Shows(s, buffer, length, at, most) ==
  /\ <<s.x, s.y>> = keyboard_get_screen_pos(s, at)
  /\ \A i \in 0 .. at - 1 :
       s.cell[keyboard_get_screen_pos(s, i)] = buffer[i]
  /\ \A i \in length .. most - 1 :
       LET p == keyboard_get_screen_pos(s, i)
       IN  p \in Cell => s.cell[p] = Blank

Picture ==
  /\ ScreenIs(screen)
  /\ previous_length = input_length
  /\ longest \in Nat
  /\ ScreenShowsLine

LEMMA PictureShows ==
  ScreenShowsLine <=>
    Shows(screen, input_buffer, input_length, cursor_position, longest)
BY DEF ScreenShowsLine, Shows

(* The cursor moves by one place at most, so it leaves the screen by one   *)
(* row at most and that when all before it is on the screen.               *)
LEMMA RedrawShows ==
  ASSUME LineIs, Picture,
         NEW buffer, NEW length \in 0 .. INPUT_BUFFER_SIZE - 1,
         NEW at \in 0 .. length, at <= cursor_position + 1,
         NEW most \in Nat, most <= longest \/ most = length,
         keyboard_redraw_input(buffer, length, at)
  PROVE  /\ ScreenIs(screen') /\ previous_length' = length
         /\ Shows(screen', buffer, length, at, most)
<1> DEFINE d == Paint(screen, buffer, length)
           pos == keyboard_get_screen_pos(screen, at)
           x == Column(screen, at)
           y == Row(screen, at)
<1>1. /\ screen' = vga_set_cursor(d, x, y) /\ previous_length' = length
      /\ pos = <<x, y>>
  BY PlaceIs DEF keyboard_redraw_input
<1>2. /\ ScreenIs(screen) /\ previous_length \in Nat /\ length \in Nat /\ at \in Nat
      /\ cursor_position \in Nat /\ cursor_position < INPUT_BUFFER_SIZE
      /\ at < INPUT_BUFFER_SIZE /\ INPUT_BUFFER_SIZE \in Nat /\ VGA_HEIGHT \in Nat \ {0}
      /\ previous_length = input_length
      /\ VGA_WIDTH \in Nat \ {0}
  BY Sizes DEF Picture, LineIs
<1>3. /\ ScreenIs(d) /\ d.startx = screen.startx /\ d.starty = screen.starty
      /\ \A i \in Nat :
           LET p == keyboard_get_screen_pos(screen, i)
           IN  p \in Cell =>
                 d.cell[p] = IF i < length THEN buffer[i]
                             ELSE IF i < previous_length THEN Blank
                             ELSE screen.cell[p]
  BY <1>2, PaintIs
<1> HIDE DEF d
<1>4. x \in 0 .. VGA_WIDTH - 1 /\ y \in Nat /\ screen.starty <= y
      /\ y - screen.starty < VGA_HEIGHT
  BY <1>2, Places
<1> DEFINE r == Row(screen, cursor_position)
<1>5. r \in Nat /\ r < VGA_HEIGHT /\ screen.starty \in 0 .. VGA_HEIGHT - 1
  <2>1. <<screen.x, screen.y>> = keyboard_get_screen_pos(screen, cursor_position)
    BY DEF Picture, ScreenShowsLine
  <2>2. screen.y = r
    BY <2>1, PlaceIs
  <2> QED
    BY <1>2, <2>2, Places DEF ScreenIs, IsScreen
<1>6. y <= VGA_HEIGHT
  <2>1. CASE at <= cursor_position
    <3>1. y <= r
      BY <1>2, <2>1, PlacesGrow
    <3> QED
      BY <1>2, <1>4, <1>5, <3>1
  <2>2. CASE ~ (at <= cursor_position)
    <3>1. cursor_position <= at
      BY <1>2, <2>2
    <3>2. y <= r + 1
      BY <1>2, <3>1, PlacesGrow
    <3> QED
      BY <1>2, <1>4, <1>5, <3>2
  <2> QED
    BY <2>1, <2>2
<1> HIDE DEF r
<1>7. ASSUME NEW i \in 0 .. at - 1
      PROVE  /\ i \in Nat /\ i < length
             /\ Row(screen, i) \in Nat /\ Row(screen, i) < VGA_HEIGHT
             /\ Row(screen, i) <= y /\ screen.starty <= Row(screen, i)
             /\ keyboard_get_screen_pos(screen, i) \in Cell
  <2>1. i \in Nat /\ i < length /\ i <= cursor_position /\ i <= at
    BY <1>2
  <2>2. Row(screen, i) <= r /\ Row(screen, i) <= y
    BY <1>2, <2>1, PlacesGrow DEF r
  <2>3. Row(screen, i) \in Nat /\ screen.starty <= Row(screen, i)
    BY <1>2, <2>1, Places
  <2>4. Row(screen, i) < VGA_HEIGHT
    BY <1>2, <1>5, <2>2, <2>3
  <2> QED
    BY <1>2, <2>1, <2>2, <2>3, <2>4, Places
<1>8. ASSUME NEW i \in length .. most - 1,
             keyboard_get_screen_pos(screen, i) \in Cell
      PROVE  d.cell[keyboard_get_screen_pos(screen, i)] = Blank
  <2>1. i \in Nat /\ ~ (i < length) /\ i \in 0 .. longest - 1
    BY <1>2, <1>8 DEF Picture
  <2>2. CASE i < previous_length
    BY <1>3, <1>8, <2>1, <2>2
  <2>3. CASE ~ (i < previous_length)
    <3>1. i \in input_length .. longest - 1
      BY <1>2, <2>1, <2>3 DEF LineIs
    <3>2. screen.cell[keyboard_get_screen_pos(screen, i)] = Blank
      BY <1>8, <3>1 DEF Picture, ScreenShowsLine
    <3> QED
      BY <1>3, <1>8, <2>1, <2>3, <3>2
  <2> QED
    BY <2>2, <2>3
<1>9. CASE y < VGA_HEIGHT
  <2>1. y \in 0 .. VGA_HEIGHT - 1
    BY <1>2, <1>4, <1>9
  <2>2. /\ ScreenIs(screen') /\ screen'.x = x /\ screen'.y = y
        /\ screen'.cell = d.cell
        /\ screen'.startx = screen.startx /\ screen'.starty = screen.starty
    BY <1>1, <1>3, <1>4, <2>1, CursorStays
  <2>3. \A i : keyboard_get_screen_pos(screen', i) = keyboard_get_screen_pos(screen, i)
    BY <2>2 DEF keyboard_get_screen_pos
  <2>4. \A i \in 0 .. at - 1 :
          screen'.cell[keyboard_get_screen_pos(screen', i)] = buffer[i]
    BY <1>3, <1>7, <2>2, <2>3
  <2>5. Shows(screen', buffer, length, at, most)
    BY <1>1, <1>8, <2>2, <2>3, <2>4 DEF Shows
  <2> QED
    BY <1>1, <2>2, <2>5
<1>10. CASE ~ (y < VGA_HEIGHT)
  <2>1. y = VGA_HEIGHT /\ d.starty >= 1
    BY <1>2, <1>3, <1>4, <1>5, <1>6, <1>10
  <2>2. /\ ScreenIs(screen') /\ screen'.x = x /\ screen'.y = VGA_HEIGHT - 1
        /\ screen'.startx = screen.startx /\ screen'.starty = screen.starty - 1
        /\ screen'.cell = [p \in Cell |-> IF p[2] + 1 >= VGA_HEIGHT THEN Blank
                                          ELSE d.cell[<<p[1], p[2] + 1>>]]
    BY <1>1, <1>3, <1>4, <2>1, CursorScrolls
  <2>3. ASSUME NEW i \in Nat
        PROVE  /\ Column(screen', i) = Column(screen, i)
               /\ Row(screen', i) = Row(screen, i) - 1
               /\ keyboard_get_screen_pos(screen', i)
                    = <<Column(screen, i), Row(screen, i) - 1>>
               /\ keyboard_get_screen_pos(screen, i)
                    = <<Column(screen, i), Row(screen, i)>>
    <3> DEFINE q == (screen.startx + i) \div VGA_WIDTH
    <3>1. screen.startx + i \in Nat /\ screen.starty \in Int
      BY <1>2 DEF ScreenIs, IsScreen
    <3>2. q \in Nat
      BY <1>2, <3>1, DivMod
    <3>3. Row(screen, i) = screen.starty + q /\ Row(screen', i) = screen.starty - 1 + q
      BY <2>2 DEF Row
    <3> HIDE DEF q
    <3>4. Row(screen', i) = Row(screen, i) - 1
      BY <3>1, <3>2, <3>3
    <3>5. Column(screen', i) = Column(screen, i)
      BY <2>2 DEF Column
    <3> QED
      BY <3>4, <3>5, PlaceIs
  <2>4. ASSUME NEW p \in Cell
        PROVE  /\ p[2] + 1 >= VGA_HEIGHT => screen'.cell[p] = Blank
               /\ p[2] + 1 < VGA_HEIGHT =>
                    screen'.cell[p] = d.cell[<<p[1], p[2] + 1>>]
    <3>1. p[2] \in Nat
      BY DEF Cell
    <3> QED
      BY <1>2, <2>2, <3>1
  <2>5. <<screen'.x, screen'.y>> = keyboard_get_screen_pos(screen', at)
    BY <1>2, <2>1, <2>2, <2>3
  <2>6. ASSUME NEW i \in 0 .. at - 1
        PROVE  screen'.cell[keyboard_get_screen_pos(screen', i)] = buffer[i]
    <3> DEFINE a == Column(screen, i)
               b == Row(screen, i)
               p == <<a, b - 1>>
    <3>1. /\ i \in Nat /\ i < length /\ b \in Nat /\ b < VGA_HEIGHT
          /\ screen.starty <= b /\ <<a, b>> \in Cell
      BY <1>7, PlaceIs
    <3>2. a \in 0 .. VGA_WIDTH - 1
      BY <1>2, <3>1, Places
    <3> HIDE DEF a, b
    <3>3. p \in Cell /\ p[1] = a /\ p[2] = b - 1 /\ p[2] + 1 = b
      BY <1>2, <1>3, <1>5, <2>1, <3>1, <3>2 DEF Cell
    <3>4. screen'.cell[p] = d.cell[<<a, b>>]
      BY <2>4, <3>1, <3>3
    <3>5. d.cell[<<a, b>>] = buffer[i]
      BY <1>3, <2>3, <3>1 DEF a, b
    <3>6. keyboard_get_screen_pos(screen', i) = p
      BY <2>3, <3>1 DEF a, b
    <3> QED
      BY <3>4, <3>5, <3>6
  <2>7. ASSUME NEW i \in length .. most - 1,
               keyboard_get_screen_pos(screen', i) \in Cell
        PROVE  screen'.cell[keyboard_get_screen_pos(screen', i)] = Blank
    <3> DEFINE a == Column(screen, i)
               b == Row(screen, i)
               p == <<a, b - 1>>
    <3>1. i \in Nat
      BY <1>2
    <3>2. /\ keyboard_get_screen_pos(screen', i) = p
          /\ keyboard_get_screen_pos(screen, i) = <<a, b>>
      BY <2>3, <3>1
    <3>3. a \in 0 .. VGA_WIDTH - 1 /\ b \in Nat
      BY <1>2, <3>1, Places
    <3> HIDE DEF a, b
    <3>4. p \in Cell /\ p[1] = a /\ p[2] = b - 1 /\ p[2] + 1 = b
      BY <2>7, <3>2, <3>3
    <3>5. CASE b >= VGA_HEIGHT
      BY <2>4, <3>2, <3>4, <3>5
    <3>6. CASE ~ (b >= VGA_HEIGHT)
      <4>1. b < VGA_HEIGHT /\ b \in 0 .. VGA_HEIGHT - 1
        BY <1>2, <3>3, <3>6
      <4>2. screen'.cell[p] = d.cell[<<a, b>>]
        BY <2>4, <3>4, <4>1
      <4>3. <<a, b>> \in Cell
        BY <3>3, <4>1 DEF Cell
      <4>4. d.cell[<<a, b>>] = Blank
        BY <1>8, <3>2, <4>3
      <4> QED
        BY <3>2, <4>2, <4>4
    <3> QED
      BY <3>5, <3>6
  <2>8. Shows(screen', buffer, length, at, most)
    BY <2>5, <2>6, <2>7 DEF Shows
  <2> QED
    BY <1>1, <2>2, <2>8
<1> QED
  BY <1>9, <1>10

LEMMA TypeShows ==
  ASSUME IInv, Picture, NEW k \in Letter \cup Sign, Type(k)
  PROVE  Picture'
<1>1. /\ input_length < INPUT_BUFFER_SIZE - 1
      /\ input_length' = input_length + 1
      /\ cursor_position' = cursor_position + 1
      /\ keyboard_redraw_input(input_buffer', input_length', cursor_position')
      /\ longest' = IF input_length' > longest THEN input_length' ELSE longest
  BY DEF Type
<1>2. /\ INPUT_BUFFER_SIZE \in Nat /\ longest \in Nat /\ LineIs
      /\ input_length \in 0 .. INPUT_BUFFER_SIZE - 1
      /\ cursor_position \in 0 .. input_length
  BY Sizes DEF IInv, LineIs, Picture
<1> DEFINE n == input_length'
           at == cursor_position'
           most == longest'
<1>3. /\ n \in 0 .. INPUT_BUFFER_SIZE - 1 /\ at \in 0 .. n
      /\ at <= cursor_position + 1
      /\ most \in Nat
      /\ most <= longest \/ most = n
  BY <1>1, <1>2
<1>4. keyboard_redraw_input(input_buffer', n, at)
  BY <1>1
<1> HIDE DEF n, at, most
<1>5. /\ ScreenIs(screen') /\ previous_length' = n
      /\ Shows(screen', input_buffer', n, at, most)
  BY <1>2, <1>3, <1>4, RedrawShows
<1> QED
  BY <1>3, <1>5 DEF Picture, ScreenShowsLine, Shows, n, at, most

LEMMA BackspaceShows ==
  ASSUME IInv, Picture, Backspace
  PROVE  Picture'
<1>1. /\ cursor_position > 0
      /\ input_length' = input_length - 1
      /\ cursor_position' = cursor_position - 1
      /\ keyboard_redraw_input(input_buffer', input_length', cursor_position')
      /\ longest' = longest
  BY DEF Backspace
<1>2. /\ INPUT_BUFFER_SIZE \in Nat /\ longest \in Nat /\ LineIs
      /\ input_length \in 0 .. INPUT_BUFFER_SIZE - 1
      /\ cursor_position \in 0 .. input_length
  BY Sizes DEF IInv, LineIs, Picture
<1> DEFINE n == input_length'
           at == cursor_position'
<1>3. /\ n \in 0 .. INPUT_BUFFER_SIZE - 1 /\ at \in 0 .. n
      /\ at <= cursor_position + 1
  BY <1>1, <1>2
<1>4. keyboard_redraw_input(input_buffer', n, at)
  BY <1>1
<1>5. longest <= longest
  BY <1>2
<1> HIDE DEF n, at
<1>6. /\ ScreenIs(screen') /\ previous_length' = n
      /\ Shows(screen', input_buffer', n, at, longest)
  BY <1>2, <1>3, <1>4, <1>5, RedrawShows
<1> QED
  BY <1>1, <1>2, <1>6 DEF Picture, ScreenShowsLine, Shows, n, at

LEMMA MoveShows ==
  ASSUME IInv, Picture, NEW at, MoveCursor(at), at <= cursor_position + 1
  PROVE  Picture'
<1>1. /\ at \in 0 .. input_length /\ cursor_position' = at
      /\ keyboard_redraw_input(input_buffer, input_length, at)
      /\ UNCHANGED <<input_buffer, input_length, longest>>
  BY DEF MoveCursor
<1>2. /\ INPUT_BUFFER_SIZE \in Nat /\ longest \in Nat /\ longest <= longest
      /\ LineIs /\ input_length \in 0 .. INPUT_BUFFER_SIZE - 1
  BY Sizes DEF IInv, LineIs, Picture
<1>3. /\ ScreenIs(screen') /\ previous_length' = input_length
      /\ Shows(screen', input_buffer, input_length, at, longest)
  BY <1>1, <1>2, RedrawShows
<1> QED
  BY <1>1, <1>2, <1>3 DEF Picture, ScreenShowsLine, Shows

(* An empty line where the cursor is shows itself.                         *)
LEMMA EmptyShows ==
  ASSUME NEW s, ScreenIs(s), NEW t, t = console_set_input_start(s), NEW buffer
  PROVE  ScreenIs(t) /\ Shows(t, buffer, 0, 0, 0)
  BY StartIs DEF Shows

LEMMA ClearedIs == ScreenIs(Cleared)
<1> DEFINE c == [p \in Cell |-> Blank]
           t == [cell |-> c, x |-> 0, y |-> 0, startx |-> 0, starty |-> 0]
<1>1. Cleared = t
  BY DEF Cleared
<1> HIDE DEF c
<1>2. /\ t.x = 0 /\ t.y = 0 /\ t.startx = 0 /\ t.starty = 0 /\ IsRecord(t)
  BY DEF IsRecord
<1> HIDE DEF t
<1>3. ScreenIs(t)
  BY <1>2, Sizes DEF ScreenIs, IsScreen
<1> QED
  BY <1>1, <1>3

LEMMA EnterShows ==
  ASSUME IInv, Picture, NEW out \in Seq(Glyph), NEW clear, EnterKey(out, clear)
  PROVE  Picture'
<1> DEFINE base == IF clear THEN Cleared ELSE vga_putchar(screen, Newline)
           printed == vga_puts(vga_puts(base, out), Prompt)
<1>1. /\ screen' = console_set_input_start(printed)
      /\ input_length' = 0 /\ cursor_position' = 0 /\ previous_length' = 0
      /\ longest' = 0
  BY DEF EnterKey
<1>2. ScreenIs(base)
  BY ClearedIs, PutcharKeeps DEF Picture
<1> HIDE DEF base
<1>3. ScreenIs(printed)
  BY <1>2, PutsKeeps, LineEditorAssumption
<1> HIDE DEF printed
<1>4. ScreenIs(screen') /\ Shows(screen', input_buffer', 0, 0, 0)
  BY <1>1, <1>3, EmptyShows
<1> QED
  BY <1>1, <1>4 DEF Picture, ScreenShowsLine, Shows

LEMMA InitPicture == Init => Picture
<1> SUFFICES ASSUME Init PROVE Picture
  OBVIOUS
<1> DEFINE printed == vga_puts(Cleared, Prompt)
<1>1. /\ screen = console_set_input_start(printed)
      /\ input_length = 0 /\ cursor_position = 0 /\ previous_length = 0
      /\ longest = 0
  BY DEF Init
<1>2. ScreenIs(printed)
  BY ClearedIs, PutsKeeps, LineEditorAssumption
<1> HIDE DEF printed
<1>3. ScreenIs(screen) /\ Shows(screen, input_buffer, 0, 0, 0)
  BY <1>1, <1>2, EmptyShows
<1> QED
  BY <1>1, <1>3 DEF Picture, ScreenShowsLine, Shows

LEMMA StepShows == IInv /\ Picture /\ [Next]_vars => Picture'
<1> SUFFICES ASSUME IInv, Picture, [Next]_vars PROVE Picture'
  OBVIOUS
<1>1. CASE ExtendedPrefix \/ ExtendedIgnored \/ Modifier \/ UNCHANGED vars
  <2>1. UNCHANGED <<line, display, longest>>
    BY <1>1 DEF ExtendedPrefix, ExtendedIgnored, Modifier, vars
  <2> QED
    BY <2>1 DEF line, display, Picture, ScreenShowsLine
<1>2. CASE LeftArrow \/ RightArrow
  <2>1. cursor_position \in Nat
    BY Sizes DEF IInv, LineIs
  <2>2. cursor_position - 1 <= cursor_position + 1
    BY <2>1
  <2>3. cursor_position + 1 <= cursor_position + 1
    BY <2>1
  <2> QED
    BY <1>2, <2>2, <2>3, MoveShows DEF LeftArrow, RightArrow
<1>3. CASE Backspace
  BY <1>3, BackspaceShows
<1>4. CASE \E k \in Letter \cup Sign : Type(k)
  BY <1>4, TypeShows
<1>5. CASE \E out \in Output : EnterKey(out, FALSE)
  BY <1>5, EnterShows, LineEditorAssumption
<1>6. CASE EnterKey(<<>>, TRUE)
  <2>1. <<>> \in Seq(Glyph)
    OBVIOUS
  <2> QED
    BY <1>6, <2>1, EnterShows
<1> QED
  BY <1>1, <1>2, <1>3, <1>4, <1>5, <1>6 DEF Next

(* Whatever is typed, inserted, erased and scrolled, on a screen of any    *)
(* size that holds the longest line: the cursor is where the next          *)
(* character goes, what is before it is shown, what was erased is gone.    *)
THEOREM PictureIsRight == Spec => []ScreenShowsLine
<1>1. IInv /\ Picture /\ [Next]_vars => (IInv /\ Picture)'
  BY StepKeeps, StepShows
<1>2. Picture => ScreenShowsLine
  BY DEF Picture
<1> QED
  BY <1>1, <1>2, InitLine, InitPicture, PTL DEF Spec

(* vga_putchar writes at the cursor without looking (vga.c:52): it is      *)
(* always on the screen.                                                   *)
CursorOnScreen == <<screen.x, screen.y>> \in Cell

THEOREM CursorStaysOnScreen == Spec => []CursorOnScreen
<1>1. IInv /\ Picture /\ [Next]_vars => (IInv /\ Picture)'
  BY StepKeeps, StepShows
<1>2. Picture => CursorOnScreen
  BY DEF Picture, CursorOnScreen, ScreenIs, IsScreen, Cell
<1> QED
  BY <1>1, <1>2, InitLine, InitPicture, PTL DEF Spec

=============================================================================
