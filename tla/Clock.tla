------------------------------- MODULE Clock -------------------------------
(***************************************************************************)
(* The clock driver, src/src/hal/x86_64/rtc.c, and the CMOS clock it       *)
(* reads.  The clock sets its update-in-progress bit a while before it     *)
(* goes on to the next second; a driver that found the bit clear has that  *)
(* while (244 microseconds) to read the registers, and reading them takes  *)
(* less.  A clock that is stuck leaves the bit set.                        *)
(*                                                                         *)
(* A definition introduced by `Mistake:' is a plausible bug, used only to  *)
(* see that the properties would notice it.                                *)
(***************************************************************************)
EXTENDS Naturals, Sequences

CONSTANTS
  RTC_SPINS,   \* 1000000
  Second       \* the seconds at which the clock may be read, as <<this, the next>>

Time == [sec : 0 .. 59, min : 0 .. 59, hour : 0 .. 23, day : 1 .. 31, mon : 1 .. 12, yr : 2000 .. 2099]
ASSUME ClockAssumption == RTC_SPINS \in Nat /\ Second \subseteq Time \X Time   \* two digits are a year of this century

Register == <<"sec", "min", "hour", "day", "mon", "yr">>

VARIABLES
  clock,   \* the time, the second of the call and the next, the update bit, and the format of the registers
  rtc,     \* how far hal_rtc_read() has come, and what it has read
  out      \* what it returned
cvars == <<clock, rtc, out>>

-----------------------------------------------------------------------------
\* The clock (external): how it shows a time in its registers.
Bcd(n) == (n \div 10) * 16 + (n % 10)
Byte(n) == IF clock.binary THEN n ELSE Bcd(n)
Twelve(h) == IF h % 12 = 0 THEN 12 ELSE h % 12
Shown(r) ==
  CASE r = "hour" /\ ~clock.hours24 ->
         Byte(Twelve(clock.now.hour)) + (IF clock.now.hour < 12 THEN 0 ELSE 128)
    [] r = "yr" -> Byte(clock.now.yr % 100)
    [] OTHER -> Byte(clock.now[r])

Reading == rtc.pc \in {"wait", "read", "done"}

UpdateBegins ==
  /\ Reading /\ ~clock.uip /\ clock.now # clock.next
  /\ clock' = [clock EXCEPT !.uip = TRUE]
  /\ UNCHANGED <<rtc, out>>

Update ==
  /\ Reading /\ clock.uip /\ ~rtc.calm
  /\ clock' = [clock EXCEPT !.uip = FALSE, !.now = clock.next]
  /\ UNCHANGED <<rtc, out>>

-----------------------------------------------------------------------------
\* hal_rtc_read(), at some second and under some format.
RtcCalled ==
  /\ rtc.pc = "idle"
  /\ \E s \in Second, binary, hours24, uip \in BOOLEAN :
       clock' = [now |-> s[1], was |-> s[1], next |-> s[2], uip |-> uip, binary |-> binary, hours24 |-> hours24]
  /\ rtc' = [pc |-> "wait", spins |-> 0, calm |-> FALSE, regs |-> << >>]
  /\ UNCHANGED out

RtcSpins ==
  /\ rtc.pc = "wait" /\ clock.uip
  /\ rtc.spins < RTC_SPINS
  /\ rtc' = [rtc EXCEPT !.spins = @ + 1]
  /\ UNCHANGED <<clock, out>>

\* The bit is clear, or the wait is over without it.
RtcReads ==
  /\ rtc.pc = "wait"
  /\ rtc.spins = RTC_SPINS \/ ~clock.uip
  /\ rtc' = [rtc EXCEPT !.pc = "read", !.calm = rtc.spins < RTC_SPINS]
  /\ UNCHANGED <<clock, out>>

\* cmos_read()
RtcRegister ==
  /\ rtc.pc = "read" /\ Len(rtc.regs) < Len(Register)
  /\ rtc' = [rtc EXCEPT !.regs = Append(@, Shown(Register[Len(@) + 1]))]
  /\ UNCHANGED <<clock, out>>

bcd_to_bin(v) == (v % 16) + (v \div 16) * 10
Binary(v) == IF clock.binary THEN v ELSE bcd_to_bin(v)

\* Mistake: the afternoon bit is taken for a digit.
HourPlain(v) ==
  LET hour == Binary(v)
      pm == hour >= 128 /\ ~clock.hours24
  IN  IF pm THEN ((hour % 128) + 12) % 24 ELSE hour % 128

\* The afternoon bit is kept apart; twelve is a number like any other.
Hour(v) ==
  LET hour == Binary(v % 128)
      pm == v >= 128 /\ ~clock.hours24
  IN  IF pm THEN (hour + 12) % 24 ELSE hour

RtcReturns ==
  /\ rtc.pc = "read" /\ Len(rtc.regs) = Len(Register)
  /\ out' = [sec |-> Binary(rtc.regs[1]), min |-> Binary(rtc.regs[2]), hour |-> Hour(rtc.regs[3]),
             day |-> Binary(rtc.regs[4]), mon |-> Binary(rtc.regs[5]),
             yr |-> 2000 + Binary(rtc.regs[6])]
  /\ rtc' = [rtc EXCEPT !.pc = "done"]
  /\ UNCHANGED clock

hal_rtc_read == RtcSpins \/ RtcReads \/ RtcRegister \/ RtcReturns
=============================================================================
