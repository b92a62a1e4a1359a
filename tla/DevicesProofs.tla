--------------------------- MODULE DevicesProofs ---------------------------
(***************************************************************************)
(* What the devices of the machine promise: the console, for panes of      *)
(* every size, every number of parameters kept, every width of an int and  *)
(* every interleaving of the two cores; the shell's line and the           *)
(* keyboard's ring, for every size of either; and what the clock tells,    *)
(* for every second of this century.                                       *)
(***************************************************************************)
EXTENDS Console, Terminal, SequenceTheorems, TLAPS

-----------------------------------------------------------------------------
\* The clock.  What its registers show, for a format, and what is made of that.
ByteIn(b, n) == IF b THEN n ELSE Bcd(n)
HourIn(b, h24, h) == IF h24 THEN ByteIn(b, h) ELSE ByteIn(b, Twelve(h)) + (IF h < 12 THEN 0 ELSE 128)
ShownIn(b, h24, t) ==
  <<ByteIn(b, t.sec), ByteIn(b, t.min), HourIn(b, h24, t.hour),
    ByteIn(b, t.day), ByteIn(b, t.mon), ByteIn(b, t.yr % 100)>>
BinaryIn(b, v) == IF b THEN v ELSE bcd_to_bin(v)
HourOut(b, h24, v) ==
  IF v >= 128 /\ ~h24 THEN (BinaryIn(b, v % 128) + 12) % 24 ELSE BinaryIn(b, v % 128)
ToldHour(h24, h) == IF ~h24 /\ h \in {0, 12} THEN 12 - h ELSE h

LEMMA BcdBack ==
  ASSUME NEW b \in BOOLEAN, NEW n \in 0 .. 99
  PROVE  ByteIn(b, n) \in Nat /\ BinaryIn(b, ByteIn(b, n)) = n
BY DEF ByteIn, BinaryIn, Bcd, bcd_to_bin

\* The byte of an hour leaves the bit for the afternoon free.
HourByte(b, n) ==
  /\ ByteIn(b, n) \in 0 .. 127 /\ BinaryIn(b, ByteIn(b, n)) = n
  /\ ByteIn(b, n) % 128 = ByteIn(b, n)
  /\ (ByteIn(b, n) + 128) % 128 = ByteIn(b, n)

LEMMA HourBytes ==
  ASSUME NEW b \in BOOLEAN, NEW n \in 0 .. 23
  PROVE  HourByte(b, n)
BY DEF HourByte, ByteIn, BinaryIn, Bcd, bcd_to_bin

LEMMA HourBack ==
  ASSUME NEW b \in BOOLEAN, NEW h24 \in BOOLEAN, NEW h \in 0 .. 23
  PROVE  HourIn(b, h24, h) \in Nat /\ HourOut(b, h24, HourIn(b, h24, h)) = ToldHour(h24, h)
<1>2. CASE h24
  <2> DEFINE w == ByteIn(b, h)
  <2>1. HourByte(b, h)
    BY HourBytes
  <2>2. w \in 0 .. 127 /\ BinaryIn(b, w) = h /\ w % 128 = w
    BY <2>1 DEF HourByte
  <2>3. HourIn(b, h24, h) = w /\ ToldHour(h24, h) = h
    BY <1>2 DEF HourIn, ToldHour
  <2> HIDE DEF w
  <2>4. HourOut(b, h24, w) = h
    BY <1>2, <2>2 DEF HourOut
  <2>5. w \in Nat
    BY <2>2
  <2> QED  BY <2>3, <2>4, <2>5
<1>3. CASE ~h24
  <2>1. Twelve(h) \in 1 .. 12 /\ Twelve(h) = IF h = 0 THEN 12 ELSE IF h <= 12 THEN h ELSE h - 12
    BY DEF Twelve
  <2> DEFINE k == Twelve(h)
             w == ByteIn(b, k)
  <2>2. k \in 0 .. 23
    BY <2>1
  <2> HIDE DEF k
  <2>5. HourByte(b, k)
    BY <2>2, HourBytes
  <2>6. /\ w \in 0 .. 127 /\ BinaryIn(b, w) = k
        /\ w % 128 = w /\ (w + 128) % 128 = w
    BY <2>5 DEF HourByte
  <2> HIDE DEF w
  <2>3. CASE h < 12
    <3>1. HourIn(b, h24, h) = w
      BY <1>3, <2>6, <2>3 DEF HourIn, w, k
    <3>2. HourOut(b, h24, w) = k
      BY <1>3, <2>6 DEF HourOut
    <3>3. ToldHour(h24, h) = k
      BY <1>3, <2>1, <2>3 DEF ToldHour, k
    <3> QED  BY <2>6, <3>1, <3>2, <3>3
  <2>4. CASE ~(h < 12)
    <3>1. HourIn(b, h24, h) = w + 128
      BY <1>3, <2>4 DEF HourIn, w, k
    <3>2. HourOut(b, h24, w + 128) = (k + 12) % 24
      <4>1. w + 128 >= 128
        BY <2>6
      <4> QED  BY <1>3, <2>6, <4>1 DEF HourOut
    <3>3. (k + 12) % 24 = ToldHour(h24, h)
      BY <1>3, <2>1, <2>4, SMTT(30) DEF ToldHour, k
    <3>4. w + 128 \in Nat
      BY <2>6
    <3> QED  BY <3>1, <3>2, <3>3, <3>4
  <2> QED  BY <2>3, <2>4
<1> QED
  BY <1>2, <1>3

\* A reading is of one moment, or, when the wait was given up, of one of two.
Moments == IF rtc.calm THEN {clock.now} ELSE {clock.was, clock.next}
ClockInv ==
  /\ rtc.pc \in {"idle", "wait", "read", "done"}
  /\ Reading =>
       /\ clock \in [now : Time, was : Time, next : Time, uip : BOOLEAN,
                     binary : BOOLEAN, hours24 : BOOLEAN]
       /\ clock.now \in {clock.was, clock.next}
       /\ rtc \in [pc : {"wait", "read", "done"}, spins : Nat, calm : BOOLEAN, regs : Seq(Nat)]
       /\ rtc.pc = "wait" => rtc.regs = << >> /\ ~rtc.calm
       /\ Len(rtc.regs) <= 6
       /\ \A k \in 1 .. Len(rtc.regs) :
            \E t \in Moments : rtc.regs[k] = ShownIn(clock.binary, clock.hours24, t)[k]
       /\ TimeTold

LEMMA ReadBack ==
  ASSUME NEW b \in BOOLEAN, NEW h24 \in BOOLEAN, NEW t \in Time
  PROVE  LET r == ShownIn(b, h24, t)
         IN  /\ \A k \in 1 .. 6 : r[k] \in Nat
             /\ BinaryIn(b, r[1]) = t.sec /\ BinaryIn(b, r[2]) = t.min
             /\ HourOut(b, h24, r[3]) = ToldHour(h24, t.hour)
             /\ BinaryIn(b, r[4]) = t.day /\ BinaryIn(b, r[5]) = t.mon
             /\ 2000 + BinaryIn(b, r[6]) = t.yr
<1> DEFINE r == ShownIn(b, h24, t)
<1>1. /\ r[1] = ByteIn(b, t.sec) /\ r[2] = ByteIn(b, t.min) /\ r[3] = HourIn(b, h24, t.hour)
      /\ r[4] = ByteIn(b, t.day) /\ r[5] = ByteIn(b, t.mon) /\ r[6] = ByteIn(b, t.yr % 100)
  BY DEF ShownIn
<1>2. /\ t.sec \in 0 .. 99 /\ t.min \in 0 .. 99 /\ t.day \in 0 .. 99 /\ t.mon \in 0 .. 99
      /\ t.hour \in 0 .. 23 /\ t.yr \in 2000 .. 2099
  BY DEF Time
<1>3. t.yr % 100 \in 0 .. 99 /\ 2000 + (t.yr % 100) = t.yr
  BY <1>2, SMTT(30)
<1> HIDE DEF r
<1>4. /\ r[1] \in Nat /\ r[2] \in Nat /\ r[4] \in Nat /\ r[5] \in Nat /\ r[6] \in Nat
      /\ BinaryIn(b, r[1]) = t.sec /\ BinaryIn(b, r[2]) = t.min
      /\ BinaryIn(b, r[4]) = t.day /\ BinaryIn(b, r[5]) = t.mon
      /\ BinaryIn(b, r[6]) = t.yr % 100
  BY <1>1, <1>2, <1>3, BcdBack, SMTT(30)
<1>5. r[3] \in Nat /\ HourOut(b, h24, r[3]) = ToldHour(h24, t.hour)
  BY <1>1, <1>2, HourBack
<1>6. \A k \in 1 .. 6 : r[k] \in Nat
  <2>1. 1 .. 6 = {1, 2, 3, 4, 5, 6}
    OBVIOUS
  <2> QED  BY <1>4, <1>5, <2>1
<1> QED
  BY <1>3, <1>4, <1>5, <1>6, SMTT(30) DEF r

LEMMA ReturnTells ==
  ASSUME ClockInv, RtcReturns
  PROVE  ClockInv'
<1> DEFINE b == clock.binary
           h24 == clock.hours24
           R(t) == ShownIn(b, h24, t)
           v(k) == rtc.regs[k]
<1>0. /\ Reading /\ clock' = clock
      /\ clock \in [now : Time, was : Time, next : Time, uip : BOOLEAN,
                    binary : BOOLEAN, hours24 : BOOLEAN]
      /\ rtc \in [pc : {"wait", "read", "done"}, spins : Nat, calm : BOOLEAN, regs : Seq(Nat)]
      /\ clock.now \in {clock.was, clock.next} /\ Len(rtc.regs) = 6
      /\ \A k \in 1 .. 6 : \E t \in Moments : v(k) = R(t)[k]
  BY DEF ClockInv, RtcReturns, Reading, Register
<1>1. /\ b \in BOOLEAN /\ h24 \in BOOLEAN
      /\ clock.now \in Time /\ clock.was \in Time /\ clock.next \in Time
      /\ Moments \subseteq Time
  BY <1>0 DEF Moments
<1>2. /\ rtc'.pc = "done" /\ rtc'.regs = rtc.regs /\ rtc'.calm = rtc.calm
      /\ rtc' \in [pc : {"wait", "read", "done"}, spins : Nat, calm : BOOLEAN, regs : Seq(Nat)]
  <2>1. rtc' = [rtc EXCEPT !.pc = "done"]
    BY DEF RtcReturns
  <2> QED  BY <1>0, <2>1, ZenonT(30)
<1>3. out' = [sec |-> BinaryIn(b, v(1)), min |-> BinaryIn(b, v(2)), hour |-> HourOut(b, h24, v(3)),
              day |-> BinaryIn(b, v(4)), mon |-> BinaryIn(b, v(5)), yr |-> 2000 + BinaryIn(b, v(6))]
  BY DEF RtcReturns, Binary, Hour, BinaryIn, HourOut
<1> HIDE DEF b, h24
<1>4. ASSUME NEW t \in Time
      PROVE  /\ BinaryIn(b, R(t)[1]) = t.sec /\ BinaryIn(b, R(t)[2]) = t.min
             /\ HourOut(b, h24, R(t)[3]) = ToldHour(h24, t.hour)
             /\ BinaryIn(b, R(t)[4]) = t.day /\ BinaryIn(b, R(t)[5]) = t.mon
             /\ 2000 + BinaryIn(b, R(t)[6]) = t.yr
  BY <1>1, ReadBack
<1>5. PICK t1 \in Moments, t2 \in Moments, t3 \in Moments, t4 \in Moments, t5 \in Moments, t6 \in Moments :
        /\ v(1) = R(t1)[1] /\ v(2) = R(t2)[2] /\ v(3) = R(t3)[3]
        /\ v(4) = R(t4)[4] /\ v(5) = R(t5)[5] /\ v(6) = R(t6)[6]
  <2>1. 1 \in 1 .. 6 /\ 2 \in 1 .. 6 /\ 3 \in 1 .. 6 /\ 4 \in 1 .. 6 /\ 5 \in 1 .. 6 /\ 6 \in 1 .. 6
    OBVIOUS
  <2>2. /\ \E t \in Moments : v(1) = R(t)[1]
        /\ \E t \in Moments : v(2) = R(t)[2]
        /\ \E t \in Moments : v(3) = R(t)[3]
        /\ \E t \in Moments : v(4) = R(t)[4]
        /\ \E t \in Moments : v(5) = R(t)[5]
        /\ \E t \in Moments : v(6) = R(t)[6]
    BY <2>1, <1>0
  <2> HIDE DEF R, v
  <2> QED  BY <2>2, Zenon
<1>6. out' = [sec |-> t1.sec, min |-> t2.min, hour |-> ToldHour(h24, t3.hour),
              day |-> t4.day, mon |-> t5.mon, yr |-> t6.yr]
  <2> HIDE DEF R, v
  <2>1. /\ t1 \in Time /\ t2 \in Time /\ t3 \in Time /\ t4 \in Time /\ t5 \in Time /\ t6 \in Time
    BY <1>1
  <2>2. /\ BinaryIn(b, v(1)) = t1.sec /\ BinaryIn(b, v(2)) = t2.min
        /\ HourOut(b, h24, v(3)) = ToldHour(h24, t3.hour)
    BY <1>4, <1>5, <2>1, SMTT(30)
  <2>3. /\ BinaryIn(b, v(4)) = t4.day /\ BinaryIn(b, v(5)) = t5.mon
        /\ 2000 + BinaryIn(b, v(6)) = t6.yr
    BY <1>4, <1>5, <2>1
  <2> DEFINE x1 == BinaryIn(b, v(1))
             x2 == BinaryIn(b, v(2))
             x3 == HourOut(b, h24, v(3))
             x4 == BinaryIn(b, v(4))
             x5 == BinaryIn(b, v(5))
             x6 == 2000 + BinaryIn(b, v(6))
             h3 == ToldHour(h24, t3.hour)
  <2>4. x1 = t1.sec /\ x2 = t2.min /\ x3 = h3 /\ x4 = t4.day /\ x5 = t5.mon /\ x6 = t6.yr
    BY <2>2, <2>3
  <2>5. out' = [sec |-> x1, min |-> x2, hour |-> x3, day |-> x4, mon |-> x5, yr |-> x6]
    BY <1>3
  <2>6. out' = [sec |-> t1.sec, min |-> t2.min, hour |-> h3, day |-> t4.day, mon |-> t5.mon, yr |-> t6.yr]
    <3> HIDE DEF x1, x2, x3, x4, x5, x6, h3
    <3> QED
      BY <2>4, <2>5
  <2> QED
    BY <2>6
<1>7. TimeTold'
  <2> DEFINE tells(t, f) == (f = "hour" /\ ~h24 /\ t.hour \in {0, 12}) \/ out'[f] = t[f]
  <2>1. DOMAIN out' = {"sec", "min", "hour", "day", "mon", "yr"}
    BY <1>6
  <2>2. /\ out'["sec"] = t1.sec /\ out'["min"] = t2.min /\ out'["hour"] = ToldHour(h24, t3.hour)
        /\ out'["day"] = t4.day /\ out'["mon"] = t5.mon /\ out'["yr"] = t6.yr
    BY <1>6, SMTT(30)
  <2>3. tells(t1, "sec") /\ tells(t2, "min") /\ tells(t4, "day") /\ tells(t5, "mon") /\ tells(t6, "yr")
    BY <2>2
  <2>4. tells(t3, "hour")
    BY <2>2 DEF ToldHour
  <2>5. \A f \in DOMAIN out' : \E t \in Moments : tells(t, f)
    <3> HIDE DEF tells
    <3> QED  BY <2>1, <2>3, <2>4
  <2>6. clock'.now = clock.now /\ clock'.was = clock.was /\ clock'.next = clock.next /\ clock'.hours24 = h24
    BY <1>0 DEF h24
  <2>7. CASE rtc.calm
    <3>1. Moments = {clock.now}
      BY <2>7 DEF Moments
    <3>2. \A f \in DOMAIN out' : tells(clock.now, f)
      <4> HIDE DEF tells
      <4> QED  BY <2>5, <3>1
    <3> QED  BY <2>6, <3>2, ZenonT(30) DEF TimeTold, Tells
  <2>8. CASE ~rtc.calm
    <3>1. Moments = {clock.was, clock.next}
      BY <2>8 DEF Moments
    <3>2. \A f \in DOMAIN out' : tells(clock.was, f) \/ tells(clock.next, f)
      <4> HIDE DEF tells
      <4> QED  BY <2>5, <3>1
    <3> QED  BY <1>2, <2>6, <2>8, <3>2, ZenonT(30) DEF TimeTold, Tells
  <2> QED  BY <2>7, <2>8
<1>8. Moments' = Moments
  BY <1>0, <1>2, SMTT(30) DEF Moments
<1>9. \A k \in 1 .. Len(rtc'.regs) :
        \E t \in Moments' : rtc'.regs[k] = ShownIn(clock'.binary, clock'.hours24, t)[k]
  <2>1. rtc'.regs = rtc.regs /\ Len(rtc.regs) = 6 /\ clock' = clock
    BY <1>0, <1>2
  <2>2. \A k \in 1 .. 6 :
          \E t \in Moments : rtc.regs[k] = ShownIn(clock.binary, clock.hours24, t)[k]
    BY <1>0, SMTT(30) DEF b, h24
  <2> QED  BY <1>8, <2>1, <2>2, SMTT(30)
<1> QED
  BY <1>0, <1>2, <1>7, <1>9, ZenonT(30) DEF ClockInv

\* Each step of the clock, and of the reading, keeps the invariant.
LEMMA ClockStep ==
  ASSUME ClockInv, [Next]_vars
  PROVE  ClockInv'
<1> DEFINE C == [now : Time, was : Time, next : Time, uip : BOOLEAN, binary : BOOLEAN, hours24 : BOOLEAN]
           T == [pc : {"wait", "read", "done"}, spins : Nat, calm : BOOLEAN, regs : Seq(Nat)]
<1>1. CASE UNCHANGED cvars
  <2>1. clock' = clock /\ rtc' = rtc /\ out' = out
    BY <1>1 DEF cvars
  <2>2. Moments' = Moments /\ Reading' = Reading /\ TimeTold' = TimeTold
    BY <2>1 DEF Moments, Reading, TimeTold, Tells
  <2> QED  BY <2>1, <2>2 DEF ClockInv
<1>2. CASE RtcCalled
  <2>1. PICK s \in Second, binary \in BOOLEAN, hours24 \in BOOLEAN, uip \in BOOLEAN :
          clock' = [now |-> s[1], was |-> s[1], next |-> s[2], uip |-> uip,
                    binary |-> binary, hours24 |-> hours24]
    BY <1>2 DEF RtcCalled
  <2>2. s[1] \in Time /\ s[2] \in Time
    BY ClockAssumption, SMTT(30)
  <2>3. rtc' = [pc |-> "wait", spins |-> 0, calm |-> FALSE, regs |-> << >>]
    BY <1>2 DEF RtcCalled
  <2>4. clock' \in C /\ clock'.now = clock'.was
    BY <2>1, <2>2, SMTT(30)
  <2>5. rtc' \in T /\ rtc'.pc = "wait" /\ rtc'.regs = << >> /\ ~rtc'.calm /\ Len(rtc'.regs) = 0
    BY <2>3
  <2>6. TimeTold'
    BY <2>5 DEF TimeTold
  <2>7. 1 .. 0 = {}
    BY SMTT(30)
  <2> QED  BY <2>4, <2>5, <2>6, <2>7, SMTT(30) DEF ClockInv
<1>3. CASE TimeTaken
  BY <1>3 DEF TimeTaken, ClockInv, Reading
<1>4. CASE RtcReturns
  BY <1>4, ReturnTells
<1>5. CASE RtcRegister \/ RtcSpins \/ RtcReads \/ UpdateBegins \/ Update
  <2>0. /\ Reading /\ clock \in C /\ rtc \in T /\ clock.now \in {clock.was, clock.next}
        /\ rtc.pc = "wait" => rtc.regs = << >> /\ ~rtc.calm
        /\ Len(rtc.regs) <= 6
        /\ \A k \in 1 .. Len(rtc.regs) :
             \E t \in Moments : rtc.regs[k] = ShownIn(clock.binary, clock.hours24, t)[k]
        /\ TimeTold
    BY <1>5 DEF ClockInv, RtcRegister, RtcSpins, RtcReads, UpdateBegins, Update, Reading
  <2>1. CASE RtcRegister
    <3> DEFINE n == Len(rtc.regs)
               x == Shown(Register[n + 1])
    <3>0. rtc.regs \in Seq(Nat) /\ n \in Nat
      BY <2>0
    <3>1. /\ rtc.pc = "read" /\ n \in 0 .. 5 /\ clock' = clock /\ out' = out
          /\ rtc' = [rtc EXCEPT !.regs = Append(rtc.regs, x)]
      <4>1. Len(Register) = 6
        BY DEF Register
      <4>2. rtc.pc = "read" /\ n < 6 /\ clock' = clock /\ out' = out
        BY <2>1, <4>1 DEF RtcRegister
      <4>3. rtc' = [rtc EXCEPT !.regs = Append(rtc.regs, x)]
        BY <2>1, SMTT(30) DEF RtcRegister
      <4> HIDE DEF n, x
      <4> QED  BY <3>0, <4>2, <4>3
    <3>2. x = ShownIn(clock.binary, clock.hours24, clock.now)[n + 1]
      <4>1. n \in {0, 1, 2, 3, 4, 5}
        BY <3>1
      <4> HIDE DEF n
      <4>2. CASE n = 0
        BY <4>2 DEF x, Shown, ShownIn, Register, Byte, ByteIn
      <4>3. CASE n = 1
        BY <4>3 DEF x, Shown, ShownIn, Register, Byte, ByteIn
      <4>4. CASE n = 2
        BY <4>4 DEF x, Shown, ShownIn, Register, Byte, ByteIn, HourIn
      <4>5. CASE n = 3
        BY <4>5 DEF x, Shown, ShownIn, Register, Byte, ByteIn
      <4>6. CASE n = 4
        BY <4>6 DEF x, Shown, ShownIn, Register, Byte, ByteIn
      <4>7. CASE n = 5
        BY <4>7 DEF x, Shown, ShownIn, Register, Byte, ByteIn
      <4> QED  BY <4>1, <4>2, <4>3, <4>4, <4>5, <4>6, <4>7
    <3>3. x \in Nat
      <4>1. clock.binary \in BOOLEAN /\ clock.hours24 \in BOOLEAN /\ clock.now \in Time /\ n + 1 \in 1 .. 6
        <5> HIDE DEF n, x
        <5>1. n + 1 \in 1 .. 6
          BY <3>1, SMTT(30)
        <5> QED  BY <2>0, <5>1
      <4> HIDE DEF n, x
      <4>2. \A k \in 1 .. 6 : ShownIn(clock.binary, clock.hours24, clock.now)[k] \in Nat
        BY <4>1, ReadBack
      <4> QED  BY <3>2, <4>1, <4>2
    <3> HIDE DEF x
    <3>4. /\ rtc' \in T /\ rtc'.pc = "read" /\ rtc'.calm = rtc.calm
          /\ rtc'.regs = Append(rtc.regs, x)
      <4> DEFINE y == Append(rtc.regs, x)
      <4>1. y \in Seq(Nat)
        BY <3>0, <3>3
      <4> HIDE DEF y, n
      <4>2. rtc' = [rtc EXCEPT !.regs = y]
        BY <3>1 DEF y
      <4>3. rtc' \in T /\ rtc'.pc = "read" /\ rtc'.calm = rtc.calm /\ rtc'.regs = y
        BY <2>0, <3>1, <4>1, <4>2, ZenonT(30)
      <4> QED  BY <4>3 DEF y
    <3>5. /\ Len(rtc'.regs) = n + 1
          /\ \A k \in 1 .. n + 1 : rtc'.regs[k] = IF k = n + 1 THEN x ELSE rtc.regs[k]
      <4>1. rtc.regs \in Seq(Nat)
        BY <2>0
      <4> QED  BY <3>3, <3>4, <4>1
    <3>6. Moments' = Moments /\ clock.now \in Moments
      BY <2>0, <3>1, <3>4 DEF Moments
    <3>7. \A k \in 1 .. n + 1 :
            \E t \in Moments : rtc'.regs[k] = ShownIn(clock.binary, clock.hours24, t)[k]
      <4> SUFFICES ASSUME NEW k \in 1 .. n + 1
                   PROVE  \E t \in Moments : rtc'.regs[k] = ShownIn(clock.binary, clock.hours24, t)[k]
        OBVIOUS
      <4>1. CASE k = n + 1
        BY <3>2, <3>5, <3>6, <4>1, SMTT(30)
      <4>2. CASE k # n + 1
        <5>1. k \in 1 .. n /\ n \in Nat
          BY <3>1, <4>2
        <5> QED  BY <2>0, <3>5, <4>2, <5>1
      <4> QED  BY <4>1, <4>2
    <3>8. TimeTold'
      BY <3>4 DEF TimeTold
    <3> HIDE DEF n
    <3>9. n + 1 <= 6
      BY <3>1
    <3> QED  BY <2>0, <3>1, <3>4, <3>5, <3>6, <3>7, <3>8, <3>9, SMTT(30) DEF ClockInv
  <2>2. CASE RtcSpins
    <3>1. rtc' = [rtc EXCEPT !.spins = @ + 1] /\ rtc.pc = "wait" /\ clock' = clock
      BY <2>2 DEF RtcSpins
    <3>2. /\ rtc' \in T /\ rtc'.pc = "wait" /\ rtc'.calm = rtc.calm /\ rtc'.regs = rtc.regs
      BY <2>0, <3>1
    <3>3. Moments' = Moments
      BY <3>1, <3>2 DEF Moments
    <3>4. TimeTold'
      BY <3>2 DEF TimeTold
    <3> QED  BY <2>0, <3>1, <3>2, <3>3, <3>4 DEF ClockInv
  <2>3. CASE RtcReads
    <3>1. /\ rtc' = [rtc EXCEPT !.pc = "read", !.calm = rtc.spins < RTC_SPINS]
          /\ rtc.pc = "wait" /\ clock' = clock
      BY <2>3 DEF RtcReads
    <3>2. /\ rtc' \in T /\ rtc'.pc = "read" /\ rtc'.regs = rtc.regs /\ rtc.regs = << >>
      <4> DEFINE c == rtc.spins < RTC_SPINS
      <4>1. c \in BOOLEAN
        OBVIOUS
      <4> HIDE DEF c
      <4>2. rtc' = [rtc EXCEPT !.pc = "read", !.calm = c]
        BY <3>1 DEF c
      <4> QED  BY <2>0, <3>1, <4>1, <4>2, ZenonT(30)
    <3>3. TimeTold'
      BY <3>2 DEF TimeTold
    <3>4. Len(rtc'.regs) = 0 /\ 1 .. 0 = {}
      BY <3>2
    <3> QED  BY <2>0, <3>1, <3>2, <3>3, <3>4 DEF ClockInv
  <2>4. CASE UpdateBegins
    <3>1. clock' = [clock EXCEPT !.uip = TRUE] /\ rtc' = rtc /\ out' = out
      BY <2>4 DEF UpdateBegins
    <3>2. /\ clock' \in C /\ clock'.now = clock.now /\ clock'.was = clock.was
          /\ clock'.next = clock.next
          /\ clock'.binary = clock.binary /\ clock'.hours24 = clock.hours24
      BY <2>0, <3>1, ZenonT(30)
    <3>3. Moments' = Moments
      BY <3>1, <3>2 DEF Moments
    <3>4. TimeTold'
      BY <2>0, <3>1, <3>2 DEF TimeTold, Tells
    <3> QED  BY <2>0, <3>1, <3>2, <3>3, <3>4 DEF ClockInv
  <2>5. CASE Update
    <3>1. clock' = [clock EXCEPT !.uip = FALSE, !.now = clock.next] /\ rtc' = rtc /\ out' = out /\ ~rtc.calm
      BY <2>5 DEF Update
    <3>2. /\ clock' \in C /\ clock'.now = clock.next /\ clock'.was = clock.was
          /\ clock'.next = clock.next
          /\ clock'.binary = clock.binary /\ clock'.hours24 = clock.hours24
      BY <2>0, <3>1, ZenonT(30)
    <3>3. Moments' = Moments
      BY <3>1, <3>2 DEF Moments
    <3>4. TimeTold'
      <4> SUFFICES ASSUME rtc.pc = "done"
                   PROVE  \A f \in DOMAIN out : Tells(clock.was, f) \/ Tells(clock.next, f)
        BY <3>1, <3>2 DEF TimeTold, Tells
      <4>1. \/ \A f \in DOMAIN out : Tells(clock.now, f)
            \/ \A f \in DOMAIN out : Tells(clock.was, f) \/ Tells(clock.next, f)
        BY <2>0, ZenonT(30) DEF TimeTold
      <4> QED  BY <2>0, <4>1, ZenonT(30)
    <3> QED  BY <2>0, <3>1, <3>2, <3>3, <3>4 DEF ClockInv
  <2> QED  BY <1>5, <2>1, <2>2, <2>3, <2>4, <2>5
<1>6. \/ UNCHANGED cvars \/ RtcCalled \/ TimeTaken \/ RtcReturns
      \/ RtcRegister \/ RtcSpins \/ RtcReads \/ UpdateBegins \/ Update
  BY DEF Next, vars, KeyboardInterrupt, ShellYields, ShellWorks, ShellReads, ShellRuns, SecondCore,
     AskTime, ClockRead, ReadTime, hal_rtc_read
<1> QED
  BY <1>1, <1>2, <1>3, <1>4, <1>5, <1>6

\* hal_rtc_read(), at any second of this century and in each of the clock's four
\* formats, tells the time of one moment, but for noon and midnight by a
\* twelve-hour clock; when it gave up waiting for the update bit, each field is of
\* the second before or of the one after.
THEOREM TimeIsTold == Spec => []TimeTold
<1>1. Init => ClockInv
  BY DEF Init, ClockInv, Reading
<1>2. ClockInv => TimeTold
  BY ZenonT(30) DEF ClockInv, Reading, TimeTold
<1> QED
  BY <1>1, <1>2, ClockStep, PTL DEF Spec
-----------------------------------------------------------------------------
\* The console.
Types ==
  /\ lock \in {0, 1}
  /\ cursor \in [Window -> [cx : Nat, cy : Nat]]
  /\ current_window \in Window
  /\ esc_params \in Seq(Int)
  /\ esc_cur_param \in Int
  /\ pc \in [Core -> {"out", "spin", "locked", "put", "unlock"}]
  /\ window \in [Core -> Window]
  /\ flag \in {0, 1}
  /\ smp \in {"start", "waiting", "0", "1"}
  /\ ap \in {"absent", "asleep", "woken", "up", "halted"}

\* The lock is taken exactly while some core is in hal_console_putchar().
LockInv ==
  /\ OneInPutchar
  /\ lock = 0 <=> InPutchar = {}

\* The flag that hal_smp_boot_ap() looks at after it has cleared it is that of
\* the AP it has woken.
ApInv ==
  /\ smp = "start" => ap \in {"absent", "asleep"}
  /\ smp = "waiting" /\ flag = 1 => ap \in {"up", "halted"}
  /\ ApReported

\* The inductive invariant.
ConsoleInv == Types /\ CursorInside /\ LockInv /\ ApInv

-----------------------------------------------------------------------------
Position(w) == [cx : 0 .. WindowSize[w].w - 1, cy : 0 .. WindowSize[w].h - 1]

\* The helpers keep a cursor inside its window.
LEMMA HelpersInside ==
  ASSUME NEW w \in Window, NEW cur \in Position(w)
  PROVE  /\ Scrolled([cx |-> 0, cy |-> cur.cy + 1], w) \in Position(w)
         /\ Backspaced(cur, w) \in Position(w)
         /\ Advanced(cur, w) \in Position(w)
<1>1. WindowSize[w] \in [w : Nat \ {0}, h : Nat \ {0}]
  BY ConsoleAssumption
<1>2. /\ WindowSize[w].w \in Nat \ {0} /\ WindowSize[w].h \in Nat \ {0}
      /\ cur.cx \in 0 .. WindowSize[w].w - 1
      /\ cur.cy \in 0 .. WindowSize[w].h - 1
      /\ cur = [cx |-> cur.cx, cy |-> cur.cy]
  BY <1>1 DEF Position
<1>3. \A x \in 0 .. WindowSize[w].w - 1, y \in 0 .. WindowSize[w].h :
        Scrolled([cx |-> x, cy |-> y], w) \in Position(w)
  BY <1>2 DEF Scrolled, Smaller, Position
<1>4. Scrolled([cx |-> 0, cy |-> cur.cy + 1], w) \in Position(w)
  BY <1>2, <1>3
<1>5. Backspaced(cur, w) \in Position(w)
  BY <1>2 DEF Backspaced, Position
<1>6. Advanced(cur, w) \in Position(w)
  <2>1. CASE cur.cx + 1 >= WindowSize[w].w
    BY <1>2, <2>1, <1>4 DEF Advanced
  <2>2. CASE ~(cur.cx + 1 >= WindowSize[w].w)
    <3>1. [cur EXCEPT !.cx = @ + 1] = [cx |-> cur.cx + 1, cy |-> cur.cy]
      BY <1>2
    <3> QED
      BY <1>2, <1>3, <2>2, <3>1 DEF Advanced
  <2> QED
    BY <2>1, <2>2
<1> QED
  BY <1>4, <1>5, <1>6

\* An H sequence sets the cursor inside its window, whatever its parameters.
LEMMA EscapeInside ==
  ASSUME NEW w \in Window, NEW char, ConsoleInv
  PROVE  EscapeCursor(char, w) \in Position(w)
<1>1. /\ WindowSize[w] \in [w : Nat \ {0}, h : Nat \ {0}]
      /\ ESC_PARAMS \in Nat
  BY ConsoleAssumption
<1>2. KeptParams \in Seq(Int)
  BY DEF ConsoleInv, Types, KeptParams, AllParams
<1>3. ASSUME NEW i \in {1, 2}, NEW size \in Nat \ {0}
      PROVE  Coordinate(KeptParams, i, size) \in 0 .. size - 1
  <2>1. Len(KeptParams) >= i => KeptParams[i] \in Int
    BY <1>2
  <2> QED
    BY <2>1 DEF Coordinate, Smaller
<1>4. cursor[w] \in Position(w)
  BY DEF ConsoleInv, Types, CursorInside, Position
<1>5. WindowSize[w].w \in Nat \ {0} /\ WindowSize[w].h \in Nat \ {0}
  BY <1>1
<1>6. [cx |-> 0, cy |-> 0] \in Position(w)
  BY <1>5 DEF Position
<1>7. /\ Coordinate(KeptParams, 2, WindowSize[w].w) \in 0 .. WindowSize[w].w - 1
      /\ Coordinate(KeptParams, 1, WindowSize[w].h) \in 0 .. WindowSize[w].h - 1
  BY <1>3, <1>5
<1> QED
  BY <1>4, <1>6, <1>7 DEF EscapeCursor, Position

LEMMA ConsoleInitInv == ConsoleInit => ConsoleInv
<1> SUFFICES ASSUME ConsoleInit PROVE ConsoleInv
  OBVIOUS
<1>1. InPutchar = {}
  BY DEF ConsoleInit, InPutchar, Core
<1>2. Types
  BY DEF ConsoleInit, Types, Window, Core
<1>3. CursorInside
  <2>1. ESC_PARAMS \in Nat /\ \A w \in Window : WindowSize[w] \in [w : Nat \ {0}, h : Nat \ {0}]
    BY ConsoleAssumption
  <2> QED
    BY <2>1 DEF ConsoleInit, CursorInside
<1> QED
  BY <1>1, <1>2, <1>3 DEF ConsoleInit, ConsoleInv, LockInv, OneInPutchar, ApInv, ApReported

-----------------------------------------------------------------------------
\* A step of core c that leaves the screen alone, or moves the cursor of the
\* window it works on to another position in it.
Moves(c) ==
  \/ cursor' = cursor
  \/ \E p \in Position(window[c]) : cursor' = [cursor EXCEPT ![window[c]] = p]

\* Inside hal_console_putchar(), between taking the lock and giving it back.
LEMMA InsideInv ==
  ASSUME ConsoleInv, NEW c \in Core, NEW from \in {"locked", "put"}, NEW to \in {"put", "unlock"},
         Step(c, from, to), Moves(c),
         esc_params' \in Seq(Int), Len(esc_params') <= ESC_PARAMS, esc_cur_param' \in Int,
         UNCHANGED <<lock, current_window, window, left, boot, ap>>
  PROVE  ConsoleInv'
<1> USE DEF ConsoleInv
<1>1. c \in InPutchar /\ InPutchar' = InPutchar
  BY DEF Types, InPutchar, Step
<1>2. pc' \in [Core -> {"out", "spin", "locked", "put", "unlock"}]
  BY DEF Types, Step
<1>3. /\ cursor' \in [Window -> [cx : Nat, cy : Nat]]
      /\ \A w \in Window : /\ cursor'[w].cx \in 0 .. WindowSize[w].w - 1
                           /\ cursor'[w].cy \in 0 .. WindowSize[w].h - 1
  <2>1. CASE cursor' = cursor
    BY <2>1 DEF Types, CursorInside
  <2>2. ASSUME NEW p \in Position(window[c]), cursor' = [cursor EXCEPT ![window[c]] = p]
        PROVE  <1>3!1 /\ <1>3!2
    <3>1. window[c] \in Window
      BY DEF Types
    <3>2. WindowSize[window[c]].w \in Nat /\ WindowSize[window[c]].h \in Nat
      BY <3>1, ConsoleAssumption
    <3>3. p \in [cx : Nat, cy : Nat] /\ p.cx \in 0 .. WindowSize[window[c]].w - 1
                                     /\ p.cy \in 0 .. WindowSize[window[c]].h - 1
      BY <3>2 DEF Position
    <3> QED
      BY <2>2, <3>1, <3>3 DEF Types, CursorInside
  <2> QED
    BY <2>1, <2>2 DEF Moves
<1>4. Types'
  BY <1>2, <1>3 DEF Types, boot
<1>5. CursorInside'
  BY <1>3 DEF CursorInside
<1>6. LockInv'
  BY <1>1 DEF LockInv, OneInPutchar
<1>7. ApInv'
  BY DEF ApInv, ApReported, boot
<1> QED
  BY <1>4, <1>5, <1>6, <1>7

\* A character inside the lock.
LEMMA CharInv ==
  ASSUME ConsoleInv, NEW c \in Core, NEW char \in CharClass,
         EscapeChar(c, char) \/ ControlChar(c, char) \/ PutCell(c, char)
  PROVE  ConsoleInv'
<1>0. /\ window[c] \in Window /\ esc_params \in Seq(Int) /\ esc_cur_param \in Int
      /\ Len(esc_params) <= ESC_PARAMS /\ ESC_PARAMS \in Nat
      /\ cursor[window[c]] \in Position(window[c])
  BY ConsoleAssumption DEF ConsoleInv, Types, CursorInside, Position
<1>1. CASE EscapeChar(c, char)
  <2>1. Step(c, "locked", "unlock")
    BY <1>1 DEF EscapeChar, AfterEscape
  <2>2. Moves(c)
    BY <1>0, <1>1, EscapeInside DEF EscapeChar, Moves
  <2>3. KeptParams \in Seq(Int) /\ Len(KeptParams) <= ESC_PARAMS
    BY <1>0 DEF KeptParams, AllParams
  <2>4. esc_params' \in Seq(Int) /\ Len(esc_params') <= ESC_PARAMS
    <3>1. esc_params' \in {<< >>, KeptParams, esc_params}
      BY <1>1 DEF EscapeChar
    <3>2. << >> \in Seq(Int) /\ Len(<< >>) <= ESC_PARAMS
      BY <1>0
    <3>3. CASE esc_params' = << >>
      BY <3>2, <3>3
    <3>4. CASE esc_params' = KeptParams
      BY <2>3, <3>4
    <3>5. CASE esc_params' = esc_params
      BY <1>0, <3>5
    <3> QED
      BY <3>1, <3>3, <3>4, <3>5
  <2>5. \A n \in Int : Wrapped(n) \in Int
    <3>1. INT_RANGE \in Int /\ INT_RANGE > 0 /\ INT_RANGE \div 2 \in Int
      BY ConsoleAssumption
    <3>2. \A n \in Int : n % INT_RANGE \in Int
      BY <3>1
    <3> QED
      BY <3>1, <3>2 DEF Wrapped
  <2>6. esc_cur_param' \in Int
    <3>1. \A d \in Digits : Wrapped(esc_cur_param * 10 + d) \in Int
      BY <1>0, <2>5, ConsoleAssumption
    <3>2. esc_cur_param' \in {Wrapped(esc_cur_param * 10 + d) : d \in Digits} \cup {0}
      BY <1>1 DEF EscapeChar
    <3> QED
      BY <3>1, <3>2
  <2> QED
    BY <1>1, <2>1, <2>2, <2>4, <2>6, InsideInv DEF EscapeChar
<1>2. CASE ControlChar(c, char)
  <2>1. Moves(c)
    BY <1>0, <1>2, HelpersInside, ZenonT(30) DEF ControlChar, Moves, ConsoleInv, Types
  <2> QED
    BY <1>0, <1>2, <2>1, InsideInv DEF ControlChar
<1>3. CASE PutCell(c, char)
  BY <1>0, <1>3, InsideInv DEF PutCell, Moves
<1> QED
  BY <1>1, <1>2, <1>3

\* A step of hal_console_putchar(), or of the loop that calls it, on core c.
LEMMA WorkInv ==
  ASSUME ConsoleInv, NEW c \in Core, Work(c)
  PROVE  ConsoleInv'
<1> USE DEF ConsoleInv
<1>0. /\ pc \in [Core -> {"out", "spin", "locked", "put", "unlock"}]
      /\ window \in [Core -> Window]
      /\ current_window \in Window
  BY DEF Types
<1>1. CASE NextChar(c)
  <2>1. InPutchar' = InPutchar
    BY <1>0, <1>1 DEF NextChar, Step, InPutchar
  <2> QED
    BY <1>0, <1>1, <2>1
       DEF NextChar, Step, Types, CursorInside, LockInv, OneInPutchar,
           ApInv, ApReported, boot
<1>2. CASE hal_spin_lock(c)
  <2>1. InPutchar = {} /\ InPutchar' = {c}
    BY <1>0, <1>2 DEF hal_spin_lock, Step, InPutchar, LockInv
  <2>2. LockInv'
    BY <1>2, <2>1 DEF hal_spin_lock, LockInv, OneInPutchar
  <2> QED
    BY <1>0, <1>2, <2>2
       DEF hal_spin_lock, Step, Types, CursorInside, ApInv, ApReported, boot
<1>3. CASE Pause(c)
  BY <1>3, SMTT(30) DEF Pause, consolevars, console, boot, Types, CursorInside, LockInv, OneInPutchar, InPutchar,
              ApInv, ApReported
<1>4. CASE Advance(c)
  <2>1. cursor[window[c]] \in Position(window[c])
    BY <1>0 DEF Types, CursorInside, Position
  <2>2. Moves(c)
    BY <1>0, <1>4, <2>1, HelpersInside, ZenonT(30) DEF Advance, Moves, Types
  <2> QED
    BY <1>4, <2>2, InsideInv DEF Advance, Types, CursorInside
<1>5. CASE hal_spin_unlock(c)
  <2>1. InPutchar = {c} /\ InPutchar' = {}
    BY <1>0, <1>5 DEF hal_spin_unlock, Step, InPutchar, LockInv, OneInPutchar
  <2> QED
    BY <1>0, <1>5, <2>1
       DEF hal_spin_unlock, Step, Types, CursorInside, LockInv, OneInPutchar,
           ApInv, ApReported, boot
<1>6. ASSUME NEW char \in CharClass, EscapeChar(c, char) \/ ControlChar(c, char) \/ PutCell(c, char)
      PROVE  ConsoleInv'
  BY <1>6, CharInv
<1>7. Written(c) \subseteq CharClass
  BY DEF Written, CharClass
<1> QED
  BY <1>1, <1>2, <1>3, <1>4, <1>5, <1>6, <1>7 DEF Work

\* The hand-shake of the cores and the system calls leave the screen alone.
LEMMA OtherInv ==
  ASSUME ConsoleInv,
         WakeAp \/ AwaitAp \/ (\E who \in Writer : SysWrite(who)) \/ ApEntry \/ ApHalt
  PROVE  ConsoleInv'
<1> USE DEF ConsoleInv
<1>1. UNCHANGED <<lock, cursor, esc_state, esc_params, esc_cur_param, pc, window>>
  BY DEF WakeAp, AwaitAp, SysWrite, ApEntry, ApHalt, console
<1>2. CursorInside' /\ LockInv'
  BY <1>1 DEF CursorInside, LockInv, OneInPutchar, InPutchar
<1>3. ASSUME NEW who \in Writer, SysWrite(who)
      PROVE  Types' /\ ApInv'
  BY <1>1, <1>3 DEF SysWrite, Writer, Types, ApInv, ApReported, boot
<1>4. CASE WakeAp
  BY <1>1, <1>2, <1>4 DEF WakeAp, console, Types, ApInv, ApReported
<1>5. CASE AwaitAp
  BY <1>1, <1>2, <1>5 DEF AwaitAp, console, Types, ApInv, ApReported
<1>6. CASE ApEntry
  BY <1>1, <1>2, <1>6 DEF ApEntry, console, Types, ApInv, ApReported
<1>7. CASE ApHalt
  BY <1>1, <1>2, <1>7 DEF ApHalt, console, boot, Types, ApInv, ApReported
<1> QED
  BY <1>2, <1>3, <1>4, <1>5, <1>6, <1>7

LEMMA ConsoleNextInv == ConsoleInv /\ [ConsoleNext]_consolevars => ConsoleInv'
<1> SUFFICES ASSUME ConsoleInv, [ConsoleNext]_consolevars PROVE ConsoleInv'
  OBVIOUS
<1>1. CASE UNCHANGED consolevars
  BY <1>1 DEF ConsoleInv, consolevars, console, boot, Types, CursorInside, LockInv, OneInPutchar,
              InPutchar, ApInv, ApReported
<1>2. CASE ConsoleNext
  BY <1>2, WorkInv, OtherInv DEF ConsoleNext, Bsp, Core
<1> QED
  BY <1>1, <1>2

-----------------------------------------------------------------------------
\* Whatever sequences, overflowing parameters, backspaces and lines the two cores
\* print, hal_console_putchar() writes inside the pane, and keeps the parameters
\* inside their array; for every size of the panes and every width of an int.
THEOREM ScreenKept == ConsoleSpec => []CursorInside
<1>1. ConsoleInv => CursorInside
  BY DEF ConsoleInv
<1> QED
  BY ConsoleInitInv, ConsoleNextInv, <1>1, PTL DEF ConsoleSpec

\* The lock of console.c keeps the cores apart.
THEOREM CoresApart == ConsoleSpec => []OneInPutchar
<1>1. ConsoleInv => OneInPutchar
  BY DEF ConsoleInv, LockInv
<1> QED
  BY ConsoleInitInv, ConsoleNextInv, <1>1, PTL DEF ConsoleSpec

\* hal_smp_boot_ap() never reports a core that has not come up, whatever the boot
\* flag held before, and however long the core takes.
THEOREM ApReportTrue == ConsoleSpec => []ApReported
<1>1. ConsoleInv => ApReported
  BY DEF ConsoleInv, ApInv
<1> QED
  BY ConsoleInitInv, ConsoleNextInv, <1>1, PTL DEF ConsoleSpec

-----------------------------------------------------------------------------
\* The keyboard and the shell's line.
Places == 0 .. KBD_BUF_SIZE - 1
Index(i) == i % KBD_BUF_SIZE

RingInv ==
  /\ kbd_head \in Places /\ kbd_tail \in Places
  /\ kbd_buf = [i \in Places |-> kbd_buf[i]]
  /\ shift_held \in BOOLEAN

LineInv ==
  /\ len \in Nat
  /\ buf = [i \in 0 .. SHELL_LINE_MAX - 1 |-> buf[i]]
  /\ mixed \in BOOLEAN
  /\ ShownIsTyped

TInv == RingInv /\ LineInv

LEMMA Sizes ==
  /\ KBD_BUF_SIZE \in Nat /\ KBD_BUF_SIZE > 1
  /\ SHELL_LINE_MAX \in Nat \ {0} /\ PROMPT \in Nat
  /\ COLS \in Nat /\ PROMPT + SHELL_LINE_MAX <= COLS
BY KeyboardAssumption

\* An index that has run over the end once.
LEMMA IndexFacts ==
  ASSUME NEW i \in 0 .. 2 * KBD_BUF_SIZE - 1
  PROVE  Index(i) = IF i < KBD_BUF_SIZE THEN i ELSE i - KBD_BUF_SIZE
<1>1. CASE i < KBD_BUF_SIZE
  BY <1>1, Sizes DEF Index
<1>2. CASE ~(i < KBD_BUF_SIZE)
  <2>1. i \in KBD_BUF_SIZE .. 2 * KBD_BUF_SIZE - 1
    BY <1>2, Sizes
  <2> QED  BY <1>2, <2>1, Sizes DEF Index
<1> QED
  BY <1>1, <1>2

-----------------------------------------------------------------------------
LEMMA InitInv ==
  ASSUME Init
  PROVE  TInv
<1>1. RingInv
  <2>1. /\ kbd_buf = [i \in Places |-> Blank] /\ kbd_head = 0 /\ kbd_tail = 0
        /\ shift_held = FALSE
    BY DEF Init, KeyboardInit, Places
  <2>2. kbd_buf = [i \in Places |-> kbd_buf[i]] /\ 0 \in Places
    BY <2>1, Sizes DEF Places
  <2> QED  BY <2>1, <2>2, ZenonT(30) DEF RingInv
<1>2. LineInv
  <2>1. len = 0 /\ cx = PROMPT /\ cell = NewRow /\ mixed = FALSE /\ buf = [i \in 0 .. SHELL_LINE_MAX - 1 |-> Blank]
    BY DEF Init, KeyboardInit
  <2>2. \A c \in 0 .. COLS - 1 :
          NewRow[c] = IF c < PROMPT THEN Prompt ELSE IF c < cx THEN buf[c - PROMPT] ELSE Blank
    BY <2>1, Sizes DEF NewRow
  <2>3. ShownIsTyped
    BY <2>1, <2>2, Sizes DEF ShownIsTyped, NewRow
  <2> QED  BY <2>1, <2>3 DEF LineInv
<1> QED
  BY <1>1, <1>2 DEF TInv

\* What holds of the row while it is kept.
RowShows == cell = [c \in 0 .. COLS - 1 |->
                      IF c < PROMPT THEN Prompt ELSE IF c < cx THEN buf[c - PROMPT] ELSE Blank]

LEMMA RowStep ==
  ASSUME TInv, ~mixed, CharacterErased \/ CharacterAdded
  PROVE  cx' = PROMPT + len' /\ RowShows'
<1> USE Sizes
<1>1. /\ len \in Nat /\ len < SHELL_LINE_MAX /\ cx = PROMPT + len
      /\ buf = [i \in 0 .. SHELL_LINE_MAX - 1 |-> buf[i]]
      /\ cell = [c \in 0 .. COLS - 1 |->
                   IF c < PROMPT THEN Prompt ELSE IF c < cx THEN buf[c - PROMPT] ELSE Blank]
  BY ZenonT(30) DEF TInv, LineInv, ShownIsTyped
<1>a. /\ DOMAIN cell = 0 .. COLS - 1
      /\ \A c \in 0 .. COLS - 1 :
           cell[c] = IF c < PROMPT THEN Prompt ELSE IF c < cx THEN buf[c - PROMPT] ELSE Blank
  BY <1>1, ZenonT(30)
<1>3. CASE CharacterErased
  <2>1. len' = len - 1 /\ len > 0 /\ cx' = cx - 1 /\ buf' = buf /\ cell' = [cell EXCEPT ![cx - 1] = Blank]
    BY <1>3 DEF CharacterErased, Erased, RowBecomes
  <2>2. cx - 1 \in PROMPT .. COLS - 1
    BY <1>1, <2>1
  <2>3. \A c \in 0 .. COLS - 1 : cell'[c] = IF c = cx - 1 THEN Blank ELSE cell[c]
    BY <1>a, <2>1
  <2>4. \A c \in 0 .. COLS - 1 :
          cell'[c] = IF c < PROMPT THEN Prompt ELSE IF c < cx' THEN buf'[c - PROMPT] ELSE Blank
    <3> SUFFICES ASSUME NEW c \in 0 .. COLS - 1
                 PROVE  cell'[c] = IF c < PROMPT THEN Prompt ELSE IF c < cx' THEN buf[c - PROMPT] ELSE Blank
      BY <2>1
    <3>1. cell[c] = IF c < PROMPT THEN Prompt ELSE IF c < cx THEN buf[c - PROMPT] ELSE Blank
      BY <1>a
    <3>2. cell'[c] = IF c = cx - 1 THEN Blank ELSE cell[c]
      BY <2>3
    <3>3. cx \in Nat /\ cx' = cx - 1
      BY <1>1, <2>1
    <3>4. CASE c = cx - 1
      <4>1. ~(c < PROMPT) /\ ~(c < cx')
        BY <2>2, <3>3, <3>4
      <4> QED  BY <3>2, <3>4, <4>1
    <3>5. CASE c # cx - 1
      <4>1. c < cx <=> c < cx'
        BY <3>3, <3>5
      <4> QED  BY <3>1, <3>2, <3>5, <4>1
    <3> QED  BY <3>4, <3>5
  <2>5. cell' = [c \in 0 .. COLS - 1 |-> cell'[c]]
    BY <1>1, <2>1, ZenonT(30)
  <2>6. cell' = [c \in 0 .. COLS - 1 |->
                   IF c < PROMPT THEN Prompt ELSE IF c < cx' THEN buf'[c - PROMPT] ELSE Blank]
    BY <2>4, <2>5
  <2>7. len' \in Nat /\ len' < SHELL_LINE_MAX /\ cx' = PROMPT + len'
    BY <1>1, <2>1
  <2> QED  BY <2>6, <2>7 DEF RowShows
<1>4. CASE CharacterAdded
  <2>1. /\ len < SHELL_LINE_MAX - 1 /\ len' = len + 1 /\ cx' = cx + 1
        /\ buf' = [buf EXCEPT ![len] = key[1]] /\ cell' = [cell EXCEPT ![cx] = key[1]]
    BY <1>4 DEF CharacterAdded, LineHasRoom, RowBecomes
  <2>2. buf' = [i \in 0 .. SHELL_LINE_MAX - 1 |-> IF i = len THEN key[1] ELSE buf[i]]
    BY <1>1, <2>1, ZenonT(30)
  <2>3. \A c \in 0 .. COLS - 1 :
          cell'[c] = IF c < PROMPT THEN Prompt ELSE IF c < cx' THEN buf'[c - PROMPT] ELSE Blank
    BY <1>1, <2>1, <2>2
  <2>4. cell' = [c \in 0 .. COLS - 1 |->
                   IF c < PROMPT THEN Prompt ELSE IF c < cx' THEN buf'[c - PROMPT] ELSE Blank]
    BY <1>1, <2>1, <2>3, ZenonT(30)
  <2>5. cx' = PROMPT + len'
    BY <1>1, <2>1
  <2> QED  BY <2>4, <2>5 DEF RowShows
<1> QED
  BY <1>3, <1>4

LEMMA LineStep ==
  ASSUME TInv, HandleKey \/ NextLine \/ NextLineCleared \/ ApPrints
  PROVE  LineInv'
<1> USE Sizes
<1>1. /\ len \in Nat /\ len < SHELL_LINE_MAX /\ mixed \in BOOLEAN
      /\ buf = [i \in 0 .. SHELL_LINE_MAX - 1 |-> buf[i]]
      /\ ~mixed => cx = PROMPT + len /\ RowShows
  BY ZenonT(30) DEF TInv, LineInv, ShownIsTyped, RowShows
<1>2. CASE LineEnds \/ CharacterIgnored
  BY <1>1, <1>2, ZenonT(30) DEF LineEnds, CharacterIgnored, row, LineInv, ShownIsTyped, RowShows
<1>3. CASE CharacterErased \/ CharacterAdded
  <2>1. /\ len' \in Nat /\ len' < SHELL_LINE_MAX /\ mixed' = mixed
    BY <1>1, <1>3 DEF CharacterErased, CharacterAdded, LineHasRoom
  <2>2. buf' = [i \in 0 .. SHELL_LINE_MAX - 1 |-> buf'[i]]
    <3>1. buf' = buf \/ buf' = [buf EXCEPT ![len] = key[1]]
      BY <1>3 DEF CharacterErased, CharacterAdded
    <3> QED  BY <1>1, <3>1, ZenonT(30)
  <2>3. ~mixed => cx' = PROMPT + len' /\ RowShows'
    BY <1>3, RowStep
  <2> QED  BY <1>1, <2>1, <2>2, <2>3, ZenonT(30) DEF LineInv, ShownIsTyped, RowShows
<1>4. CASE NextLine \/ NextLineCleared
  <2>1. /\ len' = 0 /\ buf' = buf /\ mixed' \in BOOLEAN
        /\ ~mixed' => cx' = PROMPT /\ cell' = NewRow
    BY <1>1, <1>4 DEF NextLine, NextLineCleared, RowBecomes
  <2>2. ASSUME ~mixed' PROVE cx' = PROMPT + len' /\ RowShows'
    BY <1>1, <2>1, <2>2 DEF RowShows, NewRow
  <2>3. len' \in Nat /\ len' < SHELL_LINE_MAX
    BY <2>1
  <2> QED  BY <1>1, <2>1, <2>2, <2>3, ZenonT(30) DEF LineInv, ShownIsTyped, RowShows
<1>5. CASE ApPrints
  BY <1>1, <1>5, ZenonT(30) DEF ApPrints, LineInv, ShownIsTyped
<1> QED
  BY <1>2, <1>3, <1>4, <1>5 DEF HandleKey

-----------------------------------------------------------------------------
\* How many characters lie between a tail and a head, and the place after a place.
Count(h, t) == IF t <= h THEN h - t ELSE h + KBD_BUF_SIZE - t
Following(i) == IF i + 1 = KBD_BUF_SIZE THEN 0 ELSE i + 1

LEMMA CountType ==
  ASSUME NEW h \in Places, NEW t \in Places
  PROVE  Count(h, t) \in Nat
BY Sizes DEF Count, Places

LEMMA FollowingType ==
  ASSUME NEW h \in Places
  PROVE  Following(h) \in Places
BY Sizes DEF Following, Places

LEMMA CountFacts ==
  ASSUME NEW h \in Places, NEW t \in Places
  PROVE  /\ Count(h, t) \in 0 .. KBD_BUF_SIZE - 1 /\ Index(h + KBD_BUF_SIZE - t) = Count(h, t)
         /\ Following(h) \in Places /\ Index(h + 1) = Following(h) /\ Index(h) = h
         /\ Following(h) # t => Count(Following(h), t) = Count(h, t) + 1 /\ Count(h, t) < KBD_BUF_SIZE - 1
         /\ h # t => Count(h, Following(t)) = Count(h, t) - 1 /\ Count(h, t) > 0
         /\ Index(t + Count(h, t)) = h
         /\ \A j \in 1 .. Count(h, t) : Index(t + j - 1) \in Places \ {h}
         /\ \A j \in 1 .. Count(h, t) - 1 : Index(Following(t) + j - 1) = Index(t + (j + 1) - 1)
<1> USE Sizes DEF Places
<1>1. Count(h, t) \in 0 .. KBD_BUF_SIZE - 1
  BY DEF Count
<1>2. Index(h + KBD_BUF_SIZE - t) = Count(h, t)
  <2>1. h + KBD_BUF_SIZE - t \in 0 .. 2 * KBD_BUF_SIZE - 1
    OBVIOUS
  <2> QED  BY <2>1, IndexFacts DEF Count
<1>3. Following(h) \in Places /\ Following(t) \in Places
  BY DEF Following
<1>4. Index(h + 1) = Following(h) /\ Index(h) = h
  <2>1. h + 1 \in 0 .. 2 * KBD_BUF_SIZE - 1 /\ h \in 0 .. 2 * KBD_BUF_SIZE - 1
    OBVIOUS
  <2> QED  BY <2>1, IndexFacts DEF Following
<1>5. Following(h) # t => Count(Following(h), t) = Count(h, t) + 1 /\ Count(h, t) < KBD_BUF_SIZE - 1
  BY DEF Following, Count
<1>6. h # t => Count(h, Following(t)) = Count(h, t) - 1 /\ Count(h, t) > 0
  BY DEF Following, Count
<1>7. Index(t + Count(h, t)) = h
  <2>1. t + Count(h, t) \in 0 .. 2 * KBD_BUF_SIZE - 1
    BY <1>1
  <2> QED  BY <2>1, IndexFacts DEF Count
<1>8. ASSUME NEW j \in 1 .. Count(h, t) PROVE Index(t + j - 1) \in Places \ {h}
  <2>1. t + j - 1 \in 0 .. 2 * KBD_BUF_SIZE - 1 /\ j \in Nat
    BY <1>1
  <2> QED  BY <2>1, IndexFacts DEF Count
<1>9. ASSUME NEW j \in 1 .. Count(h, t) - 1
      PROVE  Index(Following(t) + j - 1) = Index(t + (j + 1) - 1)
  <2>1. /\ Following(t) + j - 1 \in 0 .. 2 * KBD_BUF_SIZE - 1 /\ j \in Nat /\ j < KBD_BUF_SIZE
        /\ t + (j + 1) - 1 \in 0 .. 2 * KBD_BUF_SIZE - 1
    BY <1>1, <1>3
  <2>2. CASE t + 1 = KBD_BUF_SIZE
    BY <2>1, <2>2, IndexFacts DEF Following
  <2>3. CASE t + 1 # KBD_BUF_SIZE
    <3>1. Following(t) + j - 1 = t + (j + 1) - 1
      BY <2>1, <2>3 DEF Following
    <3> QED  BY <3>1
  <2> QED  BY <2>2, <2>3
<1> QED
  BY <1>1, <1>2, <1>3, <1>4, <1>5, <1>6, <1>7, <1>8, <1>9

\* The characters that wait, as a function of the ring.
Held(b, h, t) ==
  [k \in 1 .. (h + KBD_BUF_SIZE - t) % KBD_BUF_SIZE |-> b[(t + k - 1) % KBD_BUF_SIZE]]

LEMMA HeldFacts ==
  ASSUME NEW b, NEW h \in Places, NEW t \in Places
  PROVE  /\ Held(b, h, t) = [k \in 1 .. Count(h, t) |-> b[Index(t + k - 1)]]
         /\ Held(b, h, t) \in Seq({b[i] : i \in Places}) /\ Len(Held(b, h, t)) = Count(h, t)
<1> DEFINE n == Count(h, t)
           C == {b[i] : i \in Places}
<1>1. /\ n \in 0 .. KBD_BUF_SIZE - 1 /\ Index(h + KBD_BUF_SIZE - t) = n
      /\ \A j \in 1 .. n : Index(t + j - 1) \in Places
  BY CountFacts
<1>2. Held(b, h, t) = [k \in 1 .. n |-> b[Index(t + k - 1)]]
  BY <1>1 DEF Held, Index
<1>3. Held(b, h, t) \in [1 .. n -> C]
  BY <1>1, <1>2
<1>4. n \in Nat
  BY <1>1, Sizes
<1>5. Held(b, h, t) \in Seq(C) /\ Len(Held(b, h, t)) = n
  <2> HIDE DEF C, n
  <2> QED  BY <1>3, <1>4, SeqDef, LenProperties
<1> QED
  BY <1>2, <1>5, ZenonT(30)

-----------------------------------------------------------------------------
\* A key that finds room is the last of those that wait.
LEMMA Arrives ==
  ASSUME RingInv, NEW k \in Key, KeyPressed(k)
  PROVE  RingInv' /\ \E c \in Char : Ring!Arrive(c)
<1>1. /\ kbd_head \in Places /\ kbd_tail \in Places /\ kbd_buf = [i \in Places |-> kbd_buf[i]]
      /\ shift_held \in BOOLEAN
  BY DEF RingInv
<1>2. PICK c \in Char : c = Decoded(k)
  BY <1>1 DEF KeyPressed, Key, Char, Printable, Decoded, Shift
<1>3. PICK h \in Places, t \in Places, n \in Nat : h = kbd_head /\ t = kbd_tail /\ n = Count(h, t)
  <2>1. Count(kbd_head, kbd_tail) \in Nat
    BY <1>1, CountType
  <2> QED  BY <1>1, <2>1
<1>4. /\ kbd_head' = Following(h) /\ Following(h) # t
      /\ kbd_buf' = [kbd_buf EXCEPT ![h] = c]
      /\ UNCHANGED <<kbd_tail, shift_held, key>>
  BY <1>2, <1>3, CountFacts DEF KeyPressed, Room, Index, line
<1>5. DOMAIN kbd_buf = Places /\ \A i \in Places : kbd_buf'[i] = IF i = h THEN c ELSE kbd_buf[i]
  BY <1>1, <1>4
<1>6. kbd_buf' = [i \in Places |-> kbd_buf'[i]]
  BY <1>4, <1>5, ZenonT(30)
<1>7. RingInv'
  BY <1>1, <1>3, <1>4, <1>6, CountFacts DEF RingInv
<1>8. /\ Waiting = [j \in 1 .. n |-> kbd_buf[Index(t + j - 1)]]
      /\ Waiting \in Seq({kbd_buf[i] : i \in Places}) /\ Len(Waiting) = n
  <2>1. Waiting = Held(kbd_buf, h, t)
    BY <1>3 DEF Waiting, Held
  <2>2. /\ Held(kbd_buf, h, t) = [j \in 1 .. Count(h, t) |-> kbd_buf[Index(t + j - 1)]]
        /\ Held(kbd_buf, h, t) \in Seq({kbd_buf[i] : i \in Places}) /\ Len(Held(kbd_buf, h, t)) = Count(h, t)
    BY HeldFacts, Zenon
  <2> QED  BY <1>3, <2>1, <2>2
<1>9. /\ n < KBD_BUF_SIZE - 1 /\ Count(Following(h), t) = n + 1
      /\ Index(t + n) = h /\ \A j \in 1 .. n : Index(t + j - 1) \in Places \ {h}
  BY <1>3, <1>4, CountFacts
<1>10. Waiting' = [j \in 1 .. n + 1 |-> kbd_buf'[Index(t + j - 1)]]
  <2>1. PICK b : b = kbd_buf'
    OBVIOUS
  <2>2. Waiting' = Held(b, Following(h), t)
    BY <1>3, <1>4, <2>1 DEF Waiting, Held
  <2>3. Held(b, Following(h), t) = [j \in 1 .. Count(Following(h), t) |-> b[Index(t + j - 1)]]
    <3>1. PICK g \in Places : g = Following(h)
      BY FollowingType
    <3>2. /\ Held(b, g, t) = [j \in 1 .. Count(g, t) |-> b[Index(t + j - 1)]]
          /\ Held(b, g, t) \in Seq({b[i] : i \in Places}) /\ Len(Held(b, g, t)) = Count(g, t)
      BY HeldFacts, Zenon
    <3> QED  BY <3>1, <3>2, Zenon
  <2> QED  BY <1>9, <2>1, <2>2, <2>3
<1>11. Append(Waiting, c) = [j \in 1 .. n + 1 |-> IF j = n + 1 THEN c ELSE Waiting[j]]
  BY <1>8
<1>12. ASSUME NEW j \in 1 .. n + 1
       PROVE  kbd_buf'[Index(t + j - 1)] = IF j = n + 1 THEN c ELSE Waiting[j]
  <2>1. CASE j = n + 1
    <3>1. t + j - 1 = t + n
      BY <1>3, <2>1, Sizes DEF Places
    <3> QED  BY <2>1, <3>1, <1>5, <1>9
  <2>2. CASE j # n + 1
    <3>1. j \in 1 .. n
      BY <2>2
    <3> QED  BY <2>2, <3>1, <1>5, <1>8, <1>9
  <2> QED  BY <2>1, <2>2
<1>13. Waiting' = Append(Waiting, c)
  BY <1>10, <1>11, <1>12
<1> QED
  BY <1>4, <1>7, <1>8, <1>9, <1>13 DEF Ring!Arrive

\* The shell takes the one that has waited longest.
LEMMA Taken ==
  ASSUME RingInv, KeyRead
  PROVE  RingInv' /\ Ring!Take
<1>1. /\ kbd_head \in Places /\ kbd_tail \in Places /\ kbd_buf = [i \in Places |-> kbd_buf[i]]
      /\ shift_held \in BOOLEAN
  BY DEF RingInv
<1>2. PICK h \in Places, t \in Places, n \in Nat : h = kbd_head /\ t = kbd_tail /\ n = Count(h, t)
  <2>1. Count(kbd_head, kbd_tail) \in Nat
    BY <1>1, CountType
  <2> QED  BY <1>1, <2>1
<1>3. /\ kbd_tail' = Following(t) /\ h # t
      /\ key' = <<kbd_buf[t]>>
      /\ UNCHANGED <<kbd_head, kbd_buf, shift_held>>
  BY <1>2, CountFacts DEF KeyRead, Index
<1>4. RingInv'
  BY <1>1, <1>2, <1>3, CountFacts DEF RingInv
<1>5. /\ Waiting = [j \in 1 .. n |-> kbd_buf[Index(t + j - 1)]]
      /\ Waiting \in Seq({kbd_buf[i] : i \in Places}) /\ Len(Waiting) = n
  <2>1. Waiting = Held(kbd_buf, h, t)
    BY <1>2 DEF Waiting, Held
  <2>2. /\ Held(kbd_buf, h, t) = [j \in 1 .. Count(h, t) |-> kbd_buf[Index(t + j - 1)]]
        /\ Held(kbd_buf, h, t) \in Seq({kbd_buf[i] : i \in Places}) /\ Len(Held(kbd_buf, h, t)) = Count(h, t)
    BY HeldFacts, Zenon
  <2> QED  BY <1>2, <2>1, <2>2
<1>6. /\ n > 0 /\ Count(h, Following(t)) = n - 1
      /\ \A j \in 1 .. n - 1 : Index(Following(t) + j - 1) = Index(t + (j + 1) - 1)
  BY <1>2, <1>3, CountFacts
<1>7. Waiting' = [j \in 1 .. n - 1 |-> kbd_buf[Index(Following(t) + j - 1)]]
  <2>1. Waiting' = Held(kbd_buf, h, Following(t))
    BY <1>2, <1>3 DEF Waiting, Held
  <2>2. Held(kbd_buf, h, Following(t)) =
          [j \in 1 .. Count(h, Following(t)) |-> kbd_buf[Index(Following(t) + j - 1)]]
    <3>1. PICK g \in Places : g = Following(t)
      BY FollowingType
    <3>2. /\ Held(kbd_buf, h, g) = [j \in 1 .. Count(h, g) |-> kbd_buf[Index(g + j - 1)]]
          /\ Held(kbd_buf, h, g) \in Seq({kbd_buf[i] : i \in Places})
          /\ Len(Held(kbd_buf, h, g)) = Count(h, g)
      BY HeldFacts, Zenon
    <3> QED  BY <3>1, <3>2, Zenon
  <2> QED  BY <1>6, <2>1, <2>2
<1>8. Index(t + 1 - 1) = t
  <2>1. t + 1 - 1 = t
    BY Sizes DEF Places
  <2> QED  BY <2>1, CountFacts
<1>9. Waiting # << >> /\ Head(Waiting) = kbd_buf[t]
  BY <1>5, <1>6, <1>8, SMTT(30)
<1>10. Tail(Waiting) = [j \in 1 .. n - 1 |-> Waiting[j + 1]]
  BY <1>5, <1>6
<1>11. ASSUME NEW j \in 1 .. n - 1
       PROVE  Waiting[j + 1] = kbd_buf[Index(Following(t) + j - 1)]
  <2>1. j + 1 \in 1 .. n
    BY <1>6
  <2> QED  BY <2>1, <1>5, <1>6
<1>12. Waiting' = Tail(Waiting)
  BY <1>7, <1>10, <1>11
<1> QED
  BY <1>3, <1>4, <1>9, <1>12 DEF Ring!Take, AnyChar


\* A step is of the keyboard, of the shell, or of neither.
LEMMA TerminalStep ==
  ASSUME TInv, [Next]_vars
  PROVE  TInv' /\ [Ring!Next]_<<Waiting, key>>
<1> USE DEF ring, row, line, kvars
<1>0. RingInv /\ LineInv
  BY DEF TInv
<1>1. ASSUME UNCHANGED <<ring, shift_held>>
      PROVE  RingInv' /\ Waiting' = Waiting
  BY <1>0, <1>1 DEF RingInv, Waiting
<1>2. ASSUME UNCHANGED <<buf, len, row>>
      PROVE  LineInv'
  BY <1>0, <1>2, ZenonT(30) DEF LineInv, ShownIsTyped
<1>3. ASSUME NEW k \in Key, KeyPressed(k)
      PROVE  TInv' /\ [Ring!Next]_<<Waiting, key>>
  <2>1. RingInv' /\ \E c \in Char : Ring!Arrive(c)
    BY <1>0, <1>3, Arrives
  <2>2. LineInv'
    BY <1>2, <1>3 DEF KeyPressed
  <2> QED  BY <2>1, <2>2 DEF TInv, Ring!Next
<1>4. ASSUME NEW k \in Key, ShiftPressed(k) \/ ShiftReleased(k)
      PROVE  TInv' /\ [Ring!Next]_<<Waiting, key>>
  <2>1. UNCHANGED <<ring, line>> /\ shift_held' \in BOOLEAN
    BY <1>4, ZenonT(30) DEF ShiftPressed, ShiftReleased
  <2>2. RingInv' /\ Waiting' = Waiting
    BY <1>0, <2>1 DEF RingInv, Waiting
  <2>3. LineInv'
    BY <1>2, <2>1
  <2> QED  BY <2>1, <2>2, <2>3 DEF TInv
<1>5. CASE KeyRead
  <2>1. RingInv' /\ Ring!Take
    BY <1>0, <1>5, Taken
  <2>2. LineInv'
    BY <1>2, <1>5 DEF KeyRead
  <2> QED  BY <2>1, <2>2 DEF TInv, Ring!Next
<1>6. CASE HandleKey \/ NextLine \/ NextLineCleared \/ ApPrints
  <2>1. UNCHANGED <<ring, shift_held>> /\ (key' = key \/ key' = << >>)
    BY <1>6 DEF HandleKey, LineEnds, CharacterErased, CharacterAdded, CharacterIgnored,
       NextLine, NextLineCleared, ApPrints
  <2>2. RingInv' /\ Waiting' = Waiting /\ LineInv'
    BY <1>1, <1>6, <2>1, LineStep
  <2> QED  BY <2>1, <2>2 DEF TInv, Ring!Next, Ring!Forget
<1>7. CASE UNCHANGED <<ring, shift_held, line>>
  BY <1>1, <1>2, <1>7 DEF TInv
<1>8. KeyboardInterrupt => UNCHANGED kvars \/ \E k \in Key : KeyPressed(k) \/ ShiftPressed(k) \/ ShiftReleased(k)
  BY SMTT(30) DEF KeyboardInterrupt, hal_keyboard_irq_handler, KeyIgnored, KeyDropped
<1>9. \/ UNCHANGED <<ring, shift_held, line>>
      \/ KeyRead \/ HandleKey \/ NextLine \/ NextLineCleared \/ ApPrints
      \/ \E k \in Key : KeyPressed(k) \/ ShiftPressed(k) \/ ShiftReleased(k)
  BY <1>8 DEF Next, vars, ShellYields, NoKey, ShellWorks, ShellReads, ShellRuns, NoNextLine,
     SecondCore, AskTime, ClockRead, ReadTime, TimeTaken
<1> QED
  BY <1>3, <1>4, <1>5, <1>6, <1>7, <1>9

\* While a line is typed, its row shows the prompt and the line that enter would
\* carry out, for every width of the pane and every limit on the line: the cursor
\* of shell_read_line() and its buffer do not part unless the second core prints
\* into the pane, and are together again once that is cleared; and the line never
\* outgrows its buffer.
THEOREM RowShowsLine == Spec => []ShownIsTyped
<1>1. Init => TInv
  BY InitInv
<1>2. TInv /\ [Next]_vars => TInv'
  BY TerminalStep
<1>3. TInv => ShownIsTyped
  BY DEF TInv, LineInv
<1> QED
  BY <1>1, <1>2, <1>3, PTL DEF Spec

\* The keyboard's ring, of any size, is a queue between the interrupt handler and
\* the shell: no character is lost that found room, none is read twice, and none
\* overtakes another, wherever the indices wrap around.
THEOREM RingIsQueue == Spec => KeysInOrder
<1>1. Init => TInv /\ Ring!Init
  <2> SUFFICES ASSUME Init PROVE TInv /\ Ring!Init
    OBVIOUS
  <2>1. TInv /\ key = << >> /\ kbd_head = 0 /\ kbd_tail = 0
    BY InitInv, ZenonT(30) DEF Init, KeyboardInit
  <2>2. 0 \in Places /\ Count(0, 0) = 0
    BY Sizes DEF Places, Count
  <2>3. Waiting = Held(kbd_buf, 0, 0)
    BY <2>1 DEF Waiting, Held
  <2>4. Len(Waiting) = 0 /\ Waiting \in Seq({kbd_buf[i] : i \in Places})
    BY <2>2, <2>3, HeldFacts, ZenonT(30)
  <2>5. Waiting = << >>
    BY <2>4, EmptySeq
  <2> QED  BY <2>1, <2>5 DEF Ring!Init
<1>2. TInv /\ [Next]_vars => TInv' /\ [Ring!Next]_<<Waiting, key>>
  BY TerminalStep
<1> QED
  BY <1>1, <1>2, PTL DEF Spec, KeysInOrder, Ring!Spec, Ring!vars
=============================================================================
