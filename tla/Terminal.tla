------------------------------ MODULE Terminal ------------------------------
(***************************************************************************)
(* The shell, its keyboard and the clock: the loop of actor_shell() in     *)
(* src/src/core/main.c, reading a line and carrying it out, and            *)
(* SYS_RTC_READ, which any actor may call.  What the commands do that      *)
(* start and stop actors is in Demo.                                       *)
(***************************************************************************)
EXTENDS Keyboard, Clock

vars == <<kvars, cvars>>

\* Syscalls run with interrupts off, on one core.
KeyboardInterrupt == ~Reading /\ hal_keyboard_irq_handler /\ UNCHANGED cvars

ShellReads == ~Reading /\ (KeyRead \/ HandleKey) /\ UNCHANGED cvars
ShellYields == ~Reading /\ NoKey /\ UNCHANGED cvars

\* The command is carried out, and the prompt comes back unless it was `exit'.
ShellRuns ==
  /\ ~Reading /\ mode = "running"
  /\ NextLine \/ NextLineCleared \/ NoNextLine
  /\ UNCHANGED cvars

\* SYS_RTC_READ.  Bound: the time is asked for before anything is typed, for the
\* keyboard and the clock have nothing in common.
AskTime ==
  /\ kbd_head = 0 /\ kbd_buf[0] = Blank /\ key = << >>
  /\ RtcCalled
  /\ UNCHANGED kvars

ReadTime == hal_rtc_read /\ UNCHANGED kvars

TimeTaken ==
  /\ rtc.pc = "done"
  /\ rtc' = [pc |-> "idle"]
  /\ clock' = [uip |-> FALSE] /\ out' = << >>
  /\ UNCHANGED kvars

\* The second core runs beside all this.
SecondCore == ApPrints /\ UNCHANGED cvars

ShellWorks == ShellReads \/ ShellRuns
ClockRead == ReadTime \/ TimeTaken

Init ==
  /\ KeyboardInit
  /\ clock = [uip |-> FALSE] /\ rtc = [pc |-> "idle"] /\ out = << >>

Next ==
  \/ KeyboardInterrupt
  \/ ShellYields
  \/ ShellWorks
  \/ SecondCore
  \/ AskTime
  \/ ClockRead
  \/ (UpdateBegins \/ Update) /\ UNCHANGED kvars

Spec == Init /\ [][Next]_vars

\* The shell is scheduled again and again, and a syscall that was begun goes on;
\* the keyboard, the clock and the second core owe nothing.
FairSpec == Spec /\ WF_vars(ShellWorks) /\ WF_vars(ClockRead)

-----------------------------------------------------------------------------
\* The keyboard's ring is a queue of KBD_BUF_SIZE - 1 places: the shell gets the
\* characters once each and in the order they were typed, and a key pressed
\* while the ring is full costs nothing but itself.
Waiting ==
  [k \in 1 .. (kbd_head + KBD_BUF_SIZE - kbd_tail) % KBD_BUF_SIZE |->
     kbd_buf[(kbd_tail + k - 1) % KBD_BUF_SIZE]]
AnyChar(c) == TRUE
Ring ==
  INSTANCE DeviceQueue WITH
    Item <- Char, Capacity <- KBD_BUF_SIZE - 1, Fits <- AnyChar,
    queue <- Waiting, given <- key
KeysInOrder == Ring!Spec

\* While a line is typed its row shows the prompt, the line that would be
\* carried out if enter were pressed now, and nothing else: an erased character
\* is gone from both, and the prompt cannot be erased.  That is so until the
\* second core writes into the shell's pane, and again once it has been cleared.
\* Whatever the screen shows, there is a place left in the line for the zero at
\* its end.
ShownIsTyped ==
  /\ len < SHELL_LINE_MAX
  /\ ~mixed =>
       /\ cx = PROMPT + len
       /\ cell = [c \in 0 .. COLS - 1 |->
                    IF c < PROMPT THEN Prompt
                    ELSE IF c < cx THEN buf[c - PROMPT] ELSE Blank]

\* hal_rtc_read() tells the time of one moment, in each of the clock's formats,
\* but for the hour of noon and of midnight by a twelve-hour clock, of which
\* nothing is said: it takes each for the other.  When it gave up waiting, every
\* field is still that of the second before or the one after.
Tells(t, f) == (f = "hour" /\ ~clock.hours24 /\ t.hour \in {0, 12}) \/ out[f] = t[f]
TimeTold ==
  rtc.pc = "done" =>
    \/ \A f \in DOMAIN out : Tells(clock.now, f)
    \/ ~rtc.calm /\ \A f \in DOMAIN out : Tells(clock.was, f) \/ Tells(clock.next, f)

\* A line that was ended is carried out, whatever was typed before it, unless
\* that was a line with `exit'.
LineCarriedOut ==
  (<<"enter">> \in {Waiting[k] : k \in DOMAIN Waiting}) ~> (mode \in {"running", "ended"})
=============================================================================
