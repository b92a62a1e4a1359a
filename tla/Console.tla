------------------------------- MODULE Console -------------------------------
(***************************************************************************)
(* The console, src/src/hal/x86_64/console.c, with two cores that print:   *)
(* the boot processor (BSP), for kernel_main() and for the SYS_WRITE of    *)
(* the actors, and the application processor (AP) that smp.c wakes up.     *)
(*                                                                         *)
(* A call of hal_console_putchar() takes the lock, works on the window and *)
(* on the escape-sequence state, and releases the lock; the two cores      *)
(* interleave between any two steps.  A character is its class: an ESC, a  *)
(* `[', a digit, a `;', one of the final bytes J, H and m, a newline, a    *)
(* backspace, or text.  Of what is on the screen the model keeps where the *)
(* next cell is written; colours and the serial copy are left out.         *)
(*                                                                         *)
(* A definition introduced by `Mistake:' is a plausible bug, used only to  *)
(* see that the properties would notice it.                                *)
(***************************************************************************)
EXTENDS Integers, Sequences

CONSTANTS
  WindowSize,   \* WindowSize[w]: columns and rows inside the border, [w, h]
  ESC_PARAMS,   \* 4, the parameters of a sequence that are kept
  INT_RANGE,    \* 2^32, the number of values of an int
  Digits,       \* bound: the digits that are written
  LINE,         \* bound: the characters of one write
  AP_TEXT,      \* bound: the characters that the AP prints
  SPINS         \* bound: how often hal_smp_boot_ap() looks for the AP

Window == {"LOG", "SHELL"}
Writer == Window       \* the shell writes to its pane, all others to the log
Core == {"BSP", "AP"}
CharClass == {"ESC", "[", ";", "J", "H", "m", "newline", "backspace", "digit", "text"}

ASSUME ConsoleAssumption ==
  /\ WindowSize \in [Window -> [w : Nat \ {0}, h : Nat \ {0}]]
  /\ {ESC_PARAMS, LINE, AP_TEXT, SPINS} \subseteq Nat
  /\ INT_RANGE \in Nat \ {0} /\ INT_RANGE % 2 = 0
  /\ Digits \subseteq 0 .. 9

VARIABLES
  lock,             \* console_lock
  cursor,           \* windows[w].cx and .cy
  current_window,
  esc_state,        \* "NONE", "GOT_ESC" or "IN_SEQ"
  esc_params,       \* the parameters so far, of which esc_param_count are valid
  esc_cur_param,
  pc,               \* pc[c]: where core c is in hal_console_putchar()
  window,           \* window[c]: the `w' of its call
  left,             \* left[c]: the characters of its hal_console_write() to go
  flag,             \* the boot flag of the AP
  smp,              \* the progress of hal_smp_boot_ap(), at last its result
  ap,               \* "absent", "asleep", "woken", "up" or "halted"
  spin              \* the turns of its waiting loop
console == <<lock, cursor, current_window, esc_state, esc_params, esc_cur_param, pc, window>>
boot == <<flag, smp, spin>>
consolevars == <<console, left, boot, ap>>

-----------------------------------------------------------------------------
\* What a character does.  An int wraps around.
Wrapped(n) == ((n + INT_RANGE \div 2) % INT_RANGE) - INT_RANGE \div 2
Smaller(m, n) == IF m < n THEN m ELSE n

\* esc_params[esc_param_count++] = esc_cur_param, while there is room
AllParams == Append(esc_params, esc_cur_param)
KeptParams == IF Len(esc_params) < ESC_PARAMS THEN AllParams ELSE esc_params

\* Mistake: a parameter that has wrapped around is used as it is.
CoordinateUnchecked(params, i, size) ==
  IF Len(params) >= i THEN Smaller(params[i] - 1, size - 1) ELSE 0

\* The row or column of an H sequence: from 1 on, and inside the window.
Coordinate(params, i, size) ==
  IF Len(params) >= i /\ params[i] > 0 THEN Smaller(params[i] - 1, size - 1) ELSE 0

EscapeCursor(c, w) ==
  CASE c = "J" -> [cx |-> 0, cy |-> 0]
    [] c = "H" -> [cx |-> Coordinate(KeptParams, 2, WindowSize[w].w),
                   cy |-> Coordinate(KeptParams, 1, WindowSize[w].h)]
    [] OTHER -> cursor[w]

\* Past the last row the window is scrolled and the cursor is on its last row.
Scrolled(cur, w) == [cur EXCEPT !.cy = Smaller(@, WindowSize[w].h - 1)]

Backspaced(cur, w) ==
  IF cur.cx > 0 THEN [cur EXCEPT !.cx = @ - 1]
  ELSE IF cur.cy > 0 THEN [cx |-> WindowSize[w].w - 1, cy |-> cur.cy - 1]
  ELSE cur

Advanced(cur, w) ==
  Scrolled(IF cur.cx + 1 >= WindowSize[w].w THEN [cx |-> 0, cy |-> cur.cy + 1]
           ELSE [cur EXCEPT !.cx = @ + 1], w)

-----------------------------------------------------------------------------
\* hal_console_putchar() on core c.
Step(c, from, to) == pc[c] = from /\ pc' = [pc EXCEPT ![c] = to]

\* Mistake: the lock is taken whether it is free or not.
hal_spin_lock_blind(c) ==
  /\ Step(c, "spin", "locked")
  /\ lock' = 1
  /\ window' = [window EXCEPT ![c] = current_window]
  /\ UNCHANGED <<cursor, current_window, esc_state, esc_params, esc_cur_param,
                 left, boot, ap>>

\* The compare-and-swap that succeeds; then the window is looked up.
hal_spin_lock(c) ==
  /\ Step(c, "spin", "locked")
  /\ lock = 0
  /\ lock' = 1
  /\ window' = [window EXCEPT ![c] = current_window]
  /\ UNCHANGED <<cursor, current_window, esc_state, esc_params, esc_cur_param,
                 left, boot, ap>>

\* The compare-and-swap that fails, over and over.
Pause(c) == pc[c] = "spin" /\ lock = 1 /\ UNCHANGED consolevars

\* Mistake: the branch of an ESC that starts no sequence forgets the lock.
AfterEscapeUnreleased(char) ==
  IF esc_state = "GOT_ESC" /\ char # "[" THEN "out" ELSE "unlock"

\* Every branch of the state machine releases the lock.
AfterEscape(char) == "unlock"

\* The branches of the escape-sequence state machine.  The parameters are
\* reset when a sequence ends: the code resets them when the next one begins.
EscapeChar(c, char) ==
  /\ char = "ESC" \/ esc_state # "NONE"
  /\ Step(c, "locked", AfterEscape(char))
  /\ LET goes_on == esc_state = "IN_SEQ" /\ char \in {"digit", ";"}
     IN  /\ esc_state' = CASE esc_state = "NONE" -> "GOT_ESC"
                           [] esc_state = "GOT_ESC" /\ char = "[" -> "IN_SEQ"
                           [] goes_on -> "IN_SEQ"
                           [] OTHER -> "NONE"
         /\ esc_cur_param' \in IF goes_on /\ char = "digit"
                              THEN {Wrapped(esc_cur_param * 10 + d) : d \in Digits} ELSE {0}
         /\ esc_params' = IF ~goes_on THEN << >>
                          ELSE IF char = ";" THEN KeptParams ELSE esc_params
         /\ cursor' = IF esc_state = "IN_SEQ" /\ ~goes_on
                      THEN [cursor EXCEPT ![window[c]] = EscapeCursor(char, window[c])]
                      ELSE cursor
  /\ UNCHANGED <<lock, current_window, window, left, boot, ap>>

\* A newline or a backspace.
ControlChar(c, char) ==
  /\ char \in {"newline", "backspace"} /\ esc_state = "NONE"
  /\ Step(c, "locked", "unlock")
  /\ cursor' = [cursor EXCEPT ![window[c]] =
       IF char = "newline" THEN Scrolled([cx |-> 0, cy |-> @.cy + 1], window[c])
       ELSE Backspaced(@, window[c])]
  /\ UNCHANGED <<lock, current_window, esc_state, esc_params, esc_cur_param, window,
                 left, boot, ap>>

\* Any other character: the cell at the cursor, then the cursor.
PutCell(c, char) ==
  /\ char \notin {"ESC", "newline", "backspace"} /\ esc_state = "NONE"
  /\ Step(c, "locked", "put")
  /\ UNCHANGED <<lock, cursor, current_window, esc_state, esc_params, esc_cur_param, window,
                 left, boot, ap>>
Advance(c) ==
  /\ Step(c, "put", "unlock")
  /\ cursor' = [cursor EXCEPT ![window[c]] = Advanced(@, window[c])]
  /\ UNCHANGED <<lock, current_window, esc_state, esc_params, esc_cur_param, window,
                 left, boot, ap>>

hal_spin_unlock(c) ==
  /\ Step(c, "unlock", "out")
  /\ lock' = 0
  /\ UNCHANGED <<cursor, current_window, esc_state, esc_params, esc_cur_param, window,
                 left, boot, ap>>

\* The loop of hal_console_write() calls it for the next character.
NextChar(c) ==
  /\ left[c] > 0
  /\ Step(c, "out", "spin")
  /\ left' = [left EXCEPT ![c] = @ - 1]
  /\ UNCHANGED <<lock, cursor, current_window, esc_state, esc_params, esc_cur_param, window,
                 boot, ap>>

-----------------------------------------------------------------------------
\* The BSP.  hal_smp_boot_ap() clears the flag and wakes the AP, if there is
\* one, then looks for the flag a bounded number of times.
\* Mistake: the flag is not cleared.
WakeApUncleared ==
  /\ smp = "start" /\ smp' = "waiting"
  /\ ap' = IF ap = "asleep" THEN "woken" ELSE ap
  /\ UNCHANGED <<console, left, flag, spin>>

WakeAp ==
  /\ smp = "start" /\ smp' = "waiting"
  /\ flag' = 0
  /\ ap' = IF ap = "asleep" THEN "woken" ELSE ap
  /\ UNCHANGED <<console, left, spin>>
AwaitAp ==
  /\ smp = "waiting"
  /\ smp' = CASE spin = SPINS -> "0" [] flag # 0 -> "1" [] OTHER -> "waiting"
  /\ spin' = IF spin < SPINS /\ flag = 0 THEN spin + 1 ELSE 0
  /\ UNCHANGED <<console, left, flag, ap>>

\* SYS_WRITE by the shell or by another actor: hal_console_set_window(), then
\* hal_console_write().
SysWrite(who) ==
  /\ smp \in {"0", "1"}
  /\ pc["BSP"] = "out" /\ left["BSP"] = 0
  /\ current_window' = who
  /\ left' = [left EXCEPT !["BSP"] = LINE]
  /\ UNCHANGED <<lock, cursor, esc_state, esc_params, esc_cur_param, pc, window, boot, ap>>

\* The AP: ap_entry_c() raises the flag, ap_demo_loop() prints its text and halts.
ApEntry ==
  /\ ap = "woken" /\ ap' = "up"
  /\ flag' = 1
  /\ left' = [left EXCEPT !["AP"] = AP_TEXT]
  /\ UNCHANGED <<console, smp, spin>>
ApHalt ==
  /\ ap = "up"
  /\ pc["AP"] = "out" /\ left["AP"] = 0
  /\ ap' = "halted"
  /\ UNCHANGED <<console, left, boot>>

-----------------------------------------------------------------------------
\* hal_console_init().  The boot flag is in memory that nobody has cleared.
ConsoleInit ==
  /\ lock = 0
  /\ cursor = [w \in Window |-> [cx |-> 0, cy |-> 0]]
  /\ current_window = "LOG"
  /\ esc_state = "NONE" /\ esc_params = << >> /\ esc_cur_param = 0
  /\ pc = [c \in Core |-> "out"]
  /\ window = [c \in Core |-> "LOG"]
  /\ left = [c \in Core |-> 0]
  /\ flag \in {0, 1}
  /\ smp = "start"
  /\ spin = 0
  /\ ap \in {"absent", "asleep"}

\* What ap_demo_loop() prints on the AP begins with a `[' and has numbers and an
\* m in it, all of which mean something inside a sequence of the BSP's.
Written(c) == IF c = "AP" THEN {"[", "digit", "m", "text", "newline"} ELSE CharClass
Work(c) ==
  \/ NextChar(c)
  \/ hal_spin_lock(c) \/ Pause(c)
  \/ \E char \in Written(c) : EscapeChar(c, char) \/ ControlChar(c, char) \/ PutCell(c, char)
  \/ Advance(c)
  \/ hal_spin_unlock(c)
Bsp == WakeAp \/ AwaitAp \/ Work("BSP")
ConsoleNext ==
  \/ Bsp
  \/ \E who \in Writer : SysWrite(who)
  \/ ApEntry \/ ApHalt \/ Work("AP")
ConsoleSpec == ConsoleInit /\ [][ConsoleNext]_consolevars

\* Each core goes on with what it does, interrupts being off on the BSP until
\* its syscall is over.  Nothing is assumed of who wins the lock.
ConsoleFairSpec == ConsoleSpec /\ WF_consolevars(Bsp) /\ WF_consolevars(ApEntry \/ ApHalt \/ Work("AP"))

-----------------------------------------------------------------------------
\* A cursor is inside its window whenever the next character is written there,
\* whatever sequences, overflowing parameters, backspaces and lines came
\* before, from whichever core, each in the middle of the other's sequence and
\* while the other selects a pane: no cell of the border or of the other pane is
\* ever written, and no parameter outside esc_params.
CursorInside ==
  /\ Len(esc_params) <= ESC_PARAMS
  /\ \A w \in Window :
       /\ cursor[w].cx \in 0 .. WindowSize[w].w - 1
       /\ cursor[w].cy \in 0 .. WindowSize[w].h - 1

\* One core at a time is inside hal_console_putchar().
InPutchar == {c \in Core : pc[c] \in {"locked", "put", "unlock"}}
OneInPutchar == \A c, d \in InPutchar : c = d

\* hal_smp_boot_ap() returns 1 only if there is an AP and it has come up.
ApReported == smp = "1" => ap \in {"up", "halted"}

\* A SYS_WRITE comes to its end, though it shares the lock with a core that it
\* cannot preempt: the AP has only so much to print.
WriteReturns == left["BSP"] > 0 ~> (left["BSP"] = 0 /\ pc["BSP"] = "out")
=============================================================================
