----------------------------- MODULE LineEditor -----------------------------
(***************************************************************************)
(* The line being typed, keyboard.c, and its picture on the screen,        *)
(* console.c and vga.c.  One action is one keyboard interrupt: a scan code *)
(* is read and handled with interrupts off.  Enter runs the shell inside   *)
(* the handler; module Machine shows that no other key is handled until it *)
(* returns, so that too is one action here, and of the shell only what it  *)
(* prints matters.                                                         *)
(*                                                                         *)
(* The redraw writes cells by their position (vga_putentry_at) and drops   *)
(* those below the screen; only after that vga_set_cursor scrolls, and     *)
(* tells console.c that the input now starts one row higher.               *)
(***************************************************************************)
EXTENDS Integers, Sequences, FiniteSets

CONSTANTS
  Letter,             (* keys shifted by Shift and by Caps Lock            *)
  Sign,               (* keys shifted by Shift alone                       *)
  VGA_WIDTH,          (* 80                                                *)
  VGA_HEIGHT,         (* 25                                                *)
  INPUT_BUFFER_SIZE,  (* 256                                               *)
  Output,             (* what commands print: sequences over Glyph         *)
  Prompt              (* what shell_print_prompt prints, likewise          *)

Special(name) == [key |-> name, shifted |-> FALSE]

Nul     == Special("nul")
Newline == Special("newline")
Blank   == Special("blank")   \* an empty cell
Text    == Special("text")    \* any character of the output or the prompt
Glyph   == {Text, Newline}

Char   == [key : Letter \cup Sign, shifted : BOOLEAN]
Index  == 0 .. INPUT_BUFFER_SIZE - 1
Cell   == (0 .. VGA_WIDTH - 1) \X (0 .. VGA_HEIGHT - 1)

ASSUME LineEditorAssumption ==
  /\ VGA_WIDTH \in Nat \ {0} /\ VGA_HEIGHT \in Nat \ {0}
  /\ INPUT_BUFFER_SIZE \in Nat \ {0}
  (* the longest line fits on the screen, wherever in its row it begins    *)
  /\ VGA_WIDTH - 1 + INPUT_BUFFER_SIZE <= VGA_WIDTH * VGA_HEIGHT
  /\ Prompt \in Seq(Glyph) /\ Output \subseteq Seq(Glyph)
  /\ Letter \cap Sign = {}
  /\ Char \cap {Nul, Newline, Blank, Text} = {}

VARIABLES
  input_buffer,       (* what is typed, zero-terminated                    *)
  input_length,
  cursor_position,
  previous_length,    (* what the last redraw drew                         *)
  shift_pressed, caps_lock, extended_scancode,
  screen,             (* cells, cursor_x and _y, input_start_x and _y      *)
  longest             (* history: the longest this line has been           *)

line      == <<input_buffer, input_length, cursor_position>>
modifiers == <<shift_pressed, caps_lock, extended_scancode>>
display   == <<screen, previous_length>>
vars == <<line, modifiers, display, longest>>

(***************************************************************************)
(* vga.c and console.c, as functions of a state s of the screen            *)
(***************************************************************************)
(* the rows move up by n                                                   *)
Moved(s, n) ==
  [s EXCEPT !.cell = [p \in Cell |->
                        IF p[2] + n >= VGA_HEIGHT THEN Blank
                        ELSE s.cell[<<p[1], p[2] + n>>]],
            !.y = VGA_HEIGHT - 1]

(* n times vga_scroll, each of which calls console_scroll_notify           *)
vga_scroll(s, n) ==
  [Moved(s, n) EXCEPT !.starty = IF @ > n THEN @ - n ELSE 0]

vga_putchar(s, ch) ==
  LET drawn == IF ch = Newline THEN s
               ELSE [s EXCEPT !.cell[<<s.x, s.y>>] = ch]
      moved == IF ch = Newline \/ s.x + 1 >= VGA_WIDTH
               THEN [drawn EXCEPT !.x = 0, !.y = @ + 1]
               ELSE [drawn EXCEPT !.x = @ + 1]
  IN  IF moved.y >= VGA_HEIGHT THEN vga_scroll(moved, 1) ELSE moved

vga_puts(s, str) ==
  LET shown[n \in 0 .. Len(str)] ==   \* with the first n characters
        IF n = 0 THEN s ELSE vga_putchar(shown[n - 1], str[n])
  IN  shown[Len(str)]

vga_set_cursor(s, x, y) ==
  LET n == y - (VGA_HEIGHT - 1)
  IN  IF n > 0 THEN [vga_scroll(s, n) EXCEPT !.x = x]
      ELSE [s EXCEPT !.x = x, !.y = y]

Cleared == [cell |-> [p \in Cell |-> Blank], x |-> 0, y |-> 0,
            startx |-> 0, starty |-> 0]

console_set_input_start(s) == [s EXCEPT !.startx = s.x, !.starty = s.y]

(* where character i of the input belongs                                  *)
keyboard_get_screen_pos(s, i) ==
  LET pos == s.startx + i
  IN  <<pos % VGA_WIDTH, s.starty + pos \div VGA_WIDTH>>

Init ==
  /\ input_buffer = [i \in Index |-> Nul]
  /\ input_length = 0 /\ cursor_position = 0 /\ previous_length = 0
  /\ shift_pressed = FALSE /\ caps_lock = FALSE /\ extended_scancode = FALSE
  /\ screen = console_set_input_start(vga_puts(Cleared, Prompt))
  /\ longest = 0

(***************************************************************************)
(* The redraw of buffer, of which length characters are in use, with the   *)
(* cursor before character at                                              *)
(***************************************************************************)
(* a mutant: the old line is not erased first                              *)
PaintOver(s, buffer, length) ==
  [s EXCEPT !.cell = [p \in Cell |->
     LET drawn == {i \in 0 .. length - 1 : keyboard_get_screen_pos(s, i) = p}
     IN  IF drawn = {} THEN s.cell[p] ELSE buffer[CHOOSE i \in drawn : TRUE]]]

(* blanks over the previous_length cells drawn last, then the characters   *)
Paint(s, buffer, length) ==
  [s EXCEPT !.cell = [p \in Cell |->
     LET drawn  == {i \in 0 .. length - 1 : keyboard_get_screen_pos(s, i) = p}
         erased == {i \in 0 .. previous_length - 1 :
                      keyboard_get_screen_pos(s, i) = p}
     IN  IF drawn # {} THEN buffer[CHOOSE i \in drawn : TRUE]
         ELSE IF erased # {} THEN Blank
         ELSE s.cell[p]]]

(* a mutant: the cursor is set, and the screen scrolled, before the cells  *)
(* are written, and these go where they would have gone before             *)
RedrawCursorFirst(buffer, length, at) ==
  LET pos   == keyboard_get_screen_pos(screen, at)
      after == vga_set_cursor(screen, pos[1], pos[2])
  IN  /\ screen' = [Paint([after EXCEPT !.starty = screen.starty], buffer, length)
                      EXCEPT !.starty = after.starty]
      /\ previous_length' = length

keyboard_redraw_input(buffer, length, at) ==
  LET pos == keyboard_get_screen_pos(screen, at)
  IN  /\ screen' = vga_set_cursor(Paint(screen, buffer, length), pos[1], pos[2])
      /\ previous_length' = length

(***************************************************************************)
(* keyboard_handler, one action per kind of scan code                      *)
(***************************************************************************)
(* 0xE0: the next scan code is an extended one                             *)
ExtendedPrefix ==
  /\ extended_scancode' = TRUE
  /\ UNCHANGED <<line, shift_pressed, caps_lock, display, longest>>

(* after it, anything but the arrows is ignored                            *)
ExtendedIgnored ==
  /\ extended_scancode
  /\ extended_scancode' = FALSE
  /\ UNCHANGED <<line, shift_pressed, caps_lock, display, longest>>

MoveCursor(at) ==
  /\ extended_scancode
  /\ extended_scancode' = FALSE
  /\ at \in 0 .. input_length
  /\ cursor_position' = at
  /\ keyboard_redraw_input(input_buffer, input_length, at)
  /\ UNCHANGED <<input_buffer, input_length, shift_pressed, caps_lock, longest>>

LeftArrow  == MoveCursor(cursor_position - 1)
RightArrow == MoveCursor(cursor_position + 1)

(* press and release of either Shift, press of Caps Lock                   *)
Modifier ==
  /\ ~ extended_scancode
  /\ \/ shift_pressed' \in BOOLEAN /\ UNCHANGED caps_lock
     \/ caps_lock' = ~ caps_lock /\ UNCHANGED shift_pressed
  /\ UNCHANGED <<line, extended_scancode, display, longest>>

(* a mutant: the last character is not moved                               *)
BackspaceShort ==
  /\ ~ extended_scancode
  /\ cursor_position > 0
  /\ input_length' = input_length - 1
  /\ cursor_position' = cursor_position - 1
  /\ input_buffer' =
       [i \in Index |->
          IF i = input_length - 1 THEN Nul
          ELSE IF cursor_position - 1 <= i /\ i < input_length - 2
          THEN input_buffer[i + 1] ELSE input_buffer[i]]
  /\ keyboard_redraw_input(input_buffer', input_length', cursor_position')
  /\ UNCHANGED <<modifiers, longest>>

Backspace ==
  /\ ~ extended_scancode
  /\ cursor_position > 0
  /\ input_length' = input_length - 1
  /\ cursor_position' = cursor_position - 1
  /\ input_buffer' =
       [i \in Index |->
          IF i = input_length - 1 THEN Nul
          ELSE IF cursor_position - 1 <= i /\ i < input_length - 1
          THEN input_buffer[i + 1] ELSE input_buffer[i]]
  /\ keyboard_redraw_input(input_buffer', input_length', cursor_position')
  /\ UNCHANGED <<modifiers, longest>>

Shifted(k) ==
  IF k \in Letter THEN shift_pressed # caps_lock ELSE shift_pressed

(* mutants: no zero is written behind the line; the characters behind the  *)
(* cursor are not moved                                                    *)
TypeNoTerminator(k) ==
  LET ch == [key |-> k, shifted |-> Shifted(k)]
  IN  /\ ~ extended_scancode
      /\ input_length < INPUT_BUFFER_SIZE - 1
      /\ input_length' = input_length + 1
      /\ cursor_position' = cursor_position + 1
      /\ input_buffer' =
           [i \in Index |->
              IF i = cursor_position THEN ch
              ELSE IF cursor_position < i /\ i <= input_length
              THEN input_buffer[i - 1] ELSE input_buffer[i]]
      /\ keyboard_redraw_input(input_buffer', input_length', cursor_position')
      /\ longest' = IF input_length' > longest THEN input_length' ELSE longest
      /\ UNCHANGED modifiers

(* a key that types a character; its other effect, keyboard_queue_push, is *)
(* in module Machine                                                       *)
Type(k) ==
  LET ch == [key |-> k, shifted |-> Shifted(k)]
  IN  /\ ~ extended_scancode
      /\ input_length < INPUT_BUFFER_SIZE - 1
      /\ input_length' = input_length + 1
      /\ cursor_position' = cursor_position + 1
      /\ input_buffer' =
           [i \in Index |->
              IF i = cursor_position THEN ch
              ELSE IF i = input_length + 1 THEN Nul
              ELSE IF cursor_position < i /\ i <= input_length
              THEN input_buffer[i - 1] ELSE input_buffer[i]]
      /\ keyboard_redraw_input(input_buffer', input_length', cursor_position')
      /\ longest' = IF input_length' > longest THEN input_length' ELSE longest
      /\ UNCHANGED modifiers

(* the shell gets the line; a command prints, or clears the screen         *)
EnterKey(out, clear) ==
  LET base == IF clear THEN Cleared ELSE vga_putchar(screen, Newline)
  IN  /\ ~ extended_scancode
      /\ screen' = console_set_input_start(vga_puts(vga_puts(base, out), Prompt))
      /\ input_length' = 0 /\ cursor_position' = 0 /\ previous_length' = 0
      /\ input_buffer' = [input_buffer EXCEPT ![0] = Nul]
      /\ longest' = 0
      /\ UNCHANGED modifiers

Next ==
  \/ ExtendedPrefix \/ ExtendedIgnored
  \/ LeftArrow \/ RightArrow
  \/ Modifier
  \/ Backspace
  \/ \E k \in Letter \cup Sign : Type(k)
  \/ \E out \in Output : EnterKey(out, FALSE)
  \/ EnterKey(<<>>, TRUE)

Spec == Init /\ [][Next]_vars

(***************************************************************************)
(* Properties                                                              *)
(***************************************************************************)
(* The picture: the cursor shown by the hardware is where the next         *)
(* character will go, everything before it is on the screen where it       *)
(* belongs, also after the redraw has scrolled the screen under the input, *)
(* and what was erased from this line is gone.  (What is behind the cursor *)
(* may not be shown: a character inserted in the last row pushes the end   *)
(* of the line below the screen, where the redraw drops it.)               *)
ScreenShowsLine ==
  /\ <<screen.x, screen.y>> = keyboard_get_screen_pos(screen, cursor_position)
  /\ \A i \in 0 .. cursor_position - 1 :
       screen.cell[keyboard_get_screen_pos(screen, i)] = input_buffer[i]
  /\ \A i \in input_length .. longest - 1 :
       LET p == keyboard_get_screen_pos(screen, i)
       IN  p \in Cell => screen.cell[p] = Blank

(* what is typed                                                           *)
Typed == [i \in 1 .. input_length |-> input_buffer[i - 1]]

(* the string at input_buffer: the characters before the first zero        *)
CString(buffer) ==
  LET end == CHOOSE n \in 0 .. INPUT_BUFFER_SIZE :
               /\ \A i \in 0 .. n - 1 : buffer[i] # Nul
               /\ n = INPUT_BUFFER_SIZE \/ buffer[n] = Nul
  IN  [i \in 1 .. end |-> buffer[i - 1]]

(* shell_execute, which copies up to the first zero (shell.c:273), gets    *)
(* what is typed and not a byte more or less.                              *)
ShellGetsTheLine == CString(input_buffer) = Typed

Lines == INSTANCE Editor
  WITH MaxLength <- INPUT_BUFFER_SIZE - 1, line <- Typed, at <- cursor_position

(* keyboard.c implements Editor: shifting the bytes of input_buffer edits  *)
(* the line as it should, wherever the cursor is.                          *)
ImplementsEditor == Lines!Spec

=============================================================================
