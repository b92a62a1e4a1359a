------------------------------ MODULE Keyboard ------------------------------
(***************************************************************************)
(* The keyboard driver, src/src/hal/x86_64/keyboard.c, and the reader of   *)
(* lines at the other end of its ring, shell_read_line() in                *)
(* src/src/core/main.c.                                                    *)
(*                                                                         *)
(* The interrupt may come between any two syscalls of the shell (a syscall *)
(* runs with interrupts off).  Of the shell's pane of the screen the model *)
(* keeps the row that is being typed on: every command leaves the cursor   *)
(* at the start of a blank row.  The second core selects no window, so its *)
(* lines go to the pane that was written to last, at any moment of the     *)
(* shell's; from then on the row is not kept, until the pane is cleared.   *)
(*                                                                         *)
(* A definition introduced by `Mistake:' is a plausible bug, used only to  *)
(* see that the properties would notice it.                                *)
(***************************************************************************)
EXTENDS Naturals, Sequences

CONSTANTS
  KBD_BUF_SIZE,     \* 32
  SHELL_LINE_MAX,   \* 64
  PROMPT,           \* 7: the length of the prompt
  COLS,             \* 78: the width of the pane
  Letter            \* the keys with two characters, a plain and a shifted one

ASSUME KeyboardAssumption ==
  /\ KBD_BUF_SIZE \in Nat /\ KBD_BUF_SIZE > 1
  /\ SHELL_LINE_MAX \in Nat \ {0} /\ PROMPT \in Nat
  /\ COLS \in Nat /\ PROMPT + SHELL_LINE_MAX <= COLS   \* no line reaches the border

Shift == {"lshift", "rshift"}
\* escape has a character that is not printable, control has none.
Key == Letter \cup Shift \cup {"enter", "backspace", "escape", "control"}
Printable == Letter \X BOOLEAN
Char == Printable \cup {<<"enter">>, <<"backspace">>, <<"escape">>}
Blank == << >>
Prompt == <<"prompt">>

VARIABLES
  kbd_buf, kbd_head, kbd_tail,
  shift_held,
  key,       \* the character the shell has read and not dealt with yet
  buf, len,  \* shell_read_line()
  cell, cx,  \* the row of the shell's pane with the prompt, and its cursor
  mixed,     \* whether the second core has written into the pane
  mode       \* whether the shell is reading a line, carrying one out or has ended
ring == <<kbd_buf, kbd_head, kbd_tail>>
row == <<cell, cx, mixed>>
line == <<buf, len, key, row>>
kvars == <<ring, shift_held, line, mode>>

-----------------------------------------------------------------------------
\* The tables scancode_lower and scancode_upper.
Decoded(k) ==
  CASE k \in Letter -> <<k, shift_held>>
    [] k \in {"enter", "backspace", "escape"} -> <<k>>

\* Mistake: the ring is full when the indices meet.
RoomToTheLast == TRUE

Room == (kbd_head + 1) % KBD_BUF_SIZE # kbd_tail

\* hal_keyboard_irq_handler().  A key that is held down repeats itself.
ShiftPressed(k) ==
  /\ k \in Shift
  /\ shift_held' = TRUE
  /\ UNCHANGED <<ring, line, mode>>

ShiftReleased(k) ==
  /\ k \in Shift
  /\ shift_held' = FALSE
  /\ UNCHANGED <<ring, line, mode>>

\* The release of an ordinary key, or a key without a character.
KeyIgnored(k) == k \notin Shift /\ UNCHANGED kvars

KeyPressed(k) ==
  /\ k \in Key \ (Shift \cup {"control"})
  /\ Room
  /\ kbd_buf' = [kbd_buf EXCEPT ![kbd_head] = Decoded(k)]
  /\ kbd_head' = (kbd_head + 1) % KBD_BUF_SIZE
  /\ UNCHANGED <<kbd_tail, shift_held, line, mode>>

KeyDropped(k) ==
  /\ k \in Key \ (Shift \cup {"control"})
  /\ ~Room
  /\ UNCHANGED kvars

hal_keyboard_irq_handler ==
  \E k \in Key :
    ShiftPressed(k) \/ ShiftReleased(k) \/ KeyIgnored(k) \/ KeyPressed(k) \/ KeyDropped(k)

-----------------------------------------------------------------------------
\* user_key_read(): SYS_KEY_READ and hal_keyboard_poll().
\* Mistake: the character is read and left in the ring.
KeyReadKept ==
  /\ mode = "reading" /\ key = << >>
  /\ kbd_head # kbd_tail
  /\ key' = <<kbd_buf[kbd_tail]>>
  /\ UNCHANGED <<ring, shift_held, buf, len, row, mode>>

KeyRead ==
  /\ mode = "reading" /\ key = << >>
  /\ kbd_head # kbd_tail
  /\ key' = <<kbd_buf[kbd_tail]>>
  /\ kbd_tail' = (kbd_tail + 1) % KBD_BUF_SIZE
  /\ UNCHANGED <<kbd_buf, kbd_head, shift_held, buf, len, row, mode>>

\* Nothing there: the shell yields and tries again.
NoKey ==
  /\ mode = "reading" /\ key = << >>
  /\ kbd_head = kbd_tail
  /\ UNCHANGED kvars

\* What a write of the shell's does to its row, while that is kept.
RowBecomes(cells, column) ==
  /\ cell' = (IF mixed THEN cell ELSE cells)
  /\ cx' = (IF mixed THEN cx ELSE column)

\* The prompt on a row of its own.
NewRow == [c \in 0 .. COLS - 1 |-> IF c < PROMPT THEN Prompt ELSE Blank]

LineEnds ==
  /\ key = <<<<"enter">>>>
  /\ mode' = "running"
  /\ key' = << >>
  /\ UNCHANGED <<ring, shift_held, buf, len, row>>

\* Mistake: the cursor goes back and the character stays.
ErasedUnblanked == cell

\* Back, a blank, and back.
Erased == [cell EXCEPT ![cx - 1] = Blank]

CharacterErased ==
  /\ key = <<<<"backspace">>>> /\ len > 0
  /\ len' = len - 1
  /\ RowBecomes(Erased, cx - 1)
  /\ key' = << >>
  /\ UNCHANGED <<ring, shift_held, buf, mixed, mode>>

LineHasRoom == len < SHELL_LINE_MAX - 1

CharacterAdded ==
  /\ key # << >> /\ key[1] \in Printable /\ LineHasRoom
  /\ buf' = [buf EXCEPT ![len] = key[1]]
  /\ len' = len + 1
  /\ RowBecomes([cell EXCEPT ![cx] = key[1]], cx + 1)
  /\ key' = << >>
  /\ UNCHANGED <<ring, shift_held, mixed, mode>>

CharacterIgnored ==
  /\ key # << >>
  /\ \/ key[1] \in Printable /\ ~LineHasRoom
     \/ key[1] = <<"escape">>
     \/ key[1] = <<"backspace">> /\ len = 0
  /\ key' = << >>
  /\ UNCHANGED <<ring, shift_held, buf, len, row, mode>>

HandleKey == LineEnds \/ CharacterErased \/ CharacterAdded \/ CharacterIgnored

\* The line has been carried out and the next one begins.
NextLine ==
  /\ mode' = "reading"
  /\ len' = 0
  /\ RowBecomes(NewRow, PROMPT)
  /\ UNCHANGED <<ring, shift_held, buf, key, mixed>>

\* `clear' blanks the pane, whatever was in it.
NextLineCleared ==
  /\ len > 0
  /\ mode' = "reading"
  /\ len' = 0
  /\ cell' = NewRow /\ cx' = PROMPT /\ mixed' = FALSE
  /\ UNCHANGED <<ring, shift_held, buf, key>>

\* `exit' ends the shell, and nobody reads the ring any more.
NoNextLine ==
  /\ len > 0
  /\ mode' = "ended"
  /\ UNCHANGED <<ring, shift_held, line>>

-----------------------------------------------------------------------------
\* ap_demo_loop(): a line in the middle of whatever the shell writes.
ApPrints ==
  /\ mixed' = TRUE
  /\ cell' = [c \in 0 .. COLS - 1 |-> Blank] /\ cx' = 0
  /\ UNCHANGED <<ring, shift_held, buf, len, key, mode>>

\* hal_keyboard_init() has thrown away what was pressed before.
KeyboardInit ==
  /\ kbd_buf = [i \in 0 .. KBD_BUF_SIZE - 1 |-> Blank]
  /\ kbd_head = 0 /\ kbd_tail = 0
  /\ shift_held = FALSE
  /\ key = << >>
  /\ buf = [i \in 0 .. SHELL_LINE_MAX - 1 |-> Blank] /\ len = 0
  /\ cell = NewRow /\ cx = PROMPT
  /\ mixed = FALSE
  /\ mode = "reading"
=============================================================================
