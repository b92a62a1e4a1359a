--------------------------- MODULE VirtioNetProofs ---------------------------
(***************************************************************************)
(* The network driver against its card, for every size of the queues and   *)
(* of their indices, every number of buffers, every frame and every moment *)
(* at which the card may move, or not.                                     *)
(***************************************************************************)
EXTENDS VirtioNet, FiniteSetTheorems, SequenceTheorems, TLAPS

Idx == 0 .. UINT16 - 1
Place(i, k) == (i + k) % QSIZE
Places == 0 .. QSIZE - 1

LEMMA Sizes ==
  /\ QSIZE \in Nat \ {0} /\ RX_BUF_COUNT \in Nat \ {0} /\ SPINS \in Nat \ {0}
  /\ UINT16 \in Nat /\ QSIZE < UINT16 /\ UINT16 % QSIZE = 0
  /\ Runt \in Frame /\ Jumbo \in Frame
  /\ Nothing \notin Frame /\ Garbled \notin Frame
BY VirtioNetAssumption

-----------------------------------------------------------------------------
\* Arithmetic on the indices of a queue, which wrap around at UINT16, and on the
\* places of its rings, of which there are QSIZE.
LEMMA RemainderIs ==
  ASSUME NEW n \in Nat \ {0}, NEW x \in Int, NEW q \in Int, NEW r \in 0 .. n - 1,
         x = n * q + r
  PROVE  x % n = r
<1> DEFINE p == x \div n
           s == x % n
<1>1. s \in 0 .. n - 1 /\ p \in Int /\ x = n * p + s
  OBVIOUS
<1>2. n * (q - p) = s - r
  BY <1>1
<1>3. CASE q - p >= 1
  BY <1>1, <1>2, <1>3
<1>4. CASE q - p <= -1
  BY <1>1, <1>2, <1>4
<1>5. CASE q = p
  BY <1>1, <1>2, <1>5
<1> QED
  BY <1>1, <1>3, <1>4, <1>5

\* A whole number of times round the ring.
LEMMA RoundTheRing ==
  ASSUME NEW x \in Nat
  PROVE  (x + UINT16) % QSIZE = x % QSIZE
<1> DEFINE p == x \div QSIZE
           r == x % QSIZE
           m == UINT16 \div QSIZE
<1>1. r \in 0 .. QSIZE - 1 /\ p \in Int /\ x = QSIZE * p + r
  BY Sizes
<1>2. m \in Int /\ UINT16 = QSIZE * m
  BY Sizes
<1>3. p + m \in Int /\ x + UINT16 \in Int
  BY <1>1, <1>2, Sizes
<1>4. x + UINT16 = QSIZE * (p + m) + r
  BY <1>1, <1>2, Sizes
<1> HIDE DEF p, m, r
<1>5. (x + UINT16) % QSIZE = r
  BY <1>1, <1>3, <1>4, RemainderIs, Sizes, ZenonT(30)
<1> QED
  BY <1>5 DEF r

LEMMA PlaceType ==
  ASSUME NEW i \in Nat, NEW k \in Nat
  PROVE  Place(i, k) \in Places /\ i % QSIZE \in Places
BY Sizes DEF Place, Places

LEMMA PlacesApart ==
  ASSUME NEW i \in Nat, NEW j \in 0 .. QSIZE - 1, NEW k \in 0 .. QSIZE - 1,
         Place(i, j) = Place(i, k)
  PROVE  j = k
<1> DEFINE p == (i + j) \div QSIZE
           q == (i + k) \div QSIZE
           r == (i + j) % QSIZE
<1>1. /\ p \in Int /\ q \in Int /\ r \in Int
      /\ i + j = QSIZE * p + r
      /\ i + k = QSIZE * q + r
  BY Sizes DEF Place
<1> HIDE DEF p, q, r
<1>2. j - k = QSIZE * (p - q)
  BY <1>1, Sizes
<1>3. CASE p - q >= 1
  BY <1>1, <1>2, <1>3, Sizes
<1>4. CASE p - q <= -1
  BY <1>1, <1>2, <1>4, Sizes
<1>5. CASE p = q
  BY <1>1, <1>2, <1>5, Sizes
<1> QED
  BY <1>1, <1>3, <1>4, <1>5

\* Differences of two indices.
LEMMA IndexFacts ==
  ASSUME NEW a \in Idx, NEW b \in Idx
  PROVE  /\ Next16(a) = IF a + 1 = UINT16 THEN 0 ELSE a + 1
         /\ Next16(a) \in Idx /\ Next16(a) # a
         /\ Between(a, b) = IF a <= b THEN b - a ELSE b - a + UINT16
         /\ Between(a, b) \in Idx
<1>1. Next16(a) = IF a + 1 = UINT16 THEN 0 ELSE a + 1
  BY Sizes DEF Next16, Idx
<1>2. Between(a, b) = IF a <= b THEN b - a ELSE b - a + UINT16
  <2>1. CASE a <= b
    BY <2>1, Sizes DEF Between, Idx
  <2>2. CASE ~(a <= b)
    <3>1. b - a = UINT16 * (-1) + (b - a + UINT16) /\ b - a + UINT16 \in 0 .. UINT16 - 1
      BY <2>2, Sizes DEF Idx
    <3>2. b - a \in Int /\ UINT16 \in Nat \ {0} /\ -1 \in Int
      BY Sizes DEF Idx
    <3> QED  BY <2>2, <3>1, <3>2, RemainderIs DEF Between
  <2> QED  BY <2>1, <2>2
<1> QED
  BY <1>1, <1>2, Sizes DEF Idx

LEMMA Grown ==
  ASSUME NEW a \in Idx, NEW b \in Idx, Between(a, b) < QSIZE
  PROVE  Between(a, Next16(b)) = Between(a, b) + 1
<1>1. Next16(b) \in Idx /\ Next16(b) = IF b + 1 = UINT16 THEN 0 ELSE b + 1
  BY IndexFacts, ZenonT(30)
<1>2. Between(a, b) = IF a <= b THEN b - a ELSE b - a + UINT16
  BY IndexFacts
<1>3. Between(a, Next16(b)) = IF a <= Next16(b) THEN Next16(b) - a ELSE Next16(b) - a + UINT16
  BY <1>1, IndexFacts
<1> QED
  BY <1>1, <1>2, <1>3, Sizes DEF Idx

LEMMA Shrunk ==
  ASSUME NEW a \in Idx, NEW b \in Idx, a # b
  PROVE  Between(Next16(a), b) = Between(a, b) - 1 /\ Between(a, b) > 0
<1>1. Next16(a) \in Idx /\ Next16(a) = IF a + 1 = UINT16 THEN 0 ELSE a + 1
  BY IndexFacts
<1>2. Between(a, b) = IF a <= b THEN b - a ELSE b - a + UINT16
  BY IndexFacts
<1>3. Between(Next16(a), b) = IF Next16(a) <= b THEN b - Next16(a) ELSE b - Next16(a) + UINT16
  BY <1>1, IndexFacts
<1> QED
  BY <1>1, <1>2, <1>3, Sizes DEF Idx

LEMMA PlaceAfter ==
  ASSUME NEW i \in Idx, NEW k \in Nat
  PROVE  Place(Next16(i), k) = Place(i, k + 1)
<1>1. CASE i + 1 = UINT16
  <2>1. Next16(i) = 0 /\ i + (k + 1) = k + UINT16 /\ 0 + k = k
    BY <1>1, IndexFacts, Sizes DEF Idx
  <2> QED  BY <2>1, RoundTheRing DEF Place
<1>2. CASE i + 1 # UINT16
  <2>1. Next16(i) + k = i + (k + 1)
    BY <1>2, IndexFacts, Sizes DEF Idx
  <2> QED  BY <2>1 DEF Place
<1> QED
  BY <1>1, <1>2

LEMMA PlaceAtEnd ==
  ASSUME NEW a \in Idx, NEW b \in Idx
  PROVE  Place(a, Between(a, b)) = b % QSIZE /\ Place(a, 0) = a % QSIZE
<1>1. a + 0 = a
  BY DEF Idx
<1>2. a + Between(a, b) = b \/ a + Between(a, b) = b + UINT16
  <2>1. Between(a, b) = IF a <= b THEN b - a ELSE b - a + UINT16
    BY IndexFacts
  <2> QED  BY <2>1, Sizes DEF Idx
<1>3. b \in Nat
  BY DEF Idx
<1> QED
  BY <1>1, <1>2, <1>3, RoundTheRing DEF Place

-----------------------------------------------------------------------------
\* What the entries of a ring from one index up to another hold, and that no two
\* of them hold the same.
Held(ring, from, to) == {ring[Place(from, k)] : k \in 0 .. Between(from, to) - 1}
Once(ring, from, to) ==
  \A j, k \in 0 .. Between(from, to) - 1 :
    ring[Place(from, j)] = ring[Place(from, k)] => j = k

LEMMA BetweenNat ==
  ASSUME NEW a \in Idx, NEW b \in Idx
  PROVE  Between(a, b) \in Nat
<1>1. Between(a, b) \in Idx
  BY IndexFacts, ZenonT(30)
<1> QED
  BY <1>1 DEF Idx

\* Writing the entry at the upper index changes nothing below it.
LEMMA EntryOutside ==
  ASSUME NEW S, NEW ring \in [Places -> S], NEW from \in Idx, NEW to \in Idx, NEW x,
         Between(from, to) < QSIZE
  PROVE  LET new == [ring EXCEPT ![to % QSIZE] = x]
         IN  /\ \A k \in 0 .. Between(from, to) - 1 : new[Place(from, k)] = ring[Place(from, k)]
             /\ new[to % QSIZE] = x
             /\ Held(new, from, to) = Held(ring, from, to)
             /\ Once(new, from, to) <=> Once(ring, from, to)
<1> DEFINE new == [ring EXCEPT ![to % QSIZE] = x]
           n == Between(from, to)
<1>0. n \in Nat /\ n < QSIZE /\ from \in Nat /\ to \in Nat
  BY IndexFacts DEF Idx
<1>1. to % QSIZE \in Places /\ Place(from, n) = to % QSIZE
  BY <1>0, PlaceType, PlaceAtEnd
<1>2. ASSUME NEW k \in 0 .. n - 1
      PROVE  new[Place(from, k)] = ring[Place(from, k)]
  <2>1. Place(from, k) \in Places
    BY <1>0, PlaceType
  <2>2. Place(from, k) # Place(from, n)
    <3>1. k \in 0 .. QSIZE - 1 /\ n \in 0 .. QSIZE - 1 /\ k # n
      BY <1>0, Sizes
    <3> QED  BY <1>0, <3>1, PlacesApart
  <2> QED  BY <1>1, <2>1, <2>2
<1>3. new[to % QSIZE] = x
  BY <1>1
<1> HIDE DEF new
<1>4. Held(new, from, to) = Held(ring, from, to)
  BY <1>2 DEF Held
<1>5. Once(new, from, to) <=> Once(ring, from, to)
  BY <1>2 DEF Once
<1> QED
  BY <1>2, <1>3, <1>4, <1>5 DEF new

\* Moving the upper index on.
LEMMA UpperMoves ==
  ASSUME NEW ring, NEW from \in Idx, NEW to \in Idx,
         Between(from, to) < QSIZE, Once(ring, from, to),
         ring[to % QSIZE] \notin Held(ring, from, to)
  PROVE  /\ Between(from, Next16(to)) = Between(from, to) + 1
         /\ Held(ring, from, Next16(to)) = Held(ring, from, to) \cup {ring[to % QSIZE]}
         /\ Once(ring, from, Next16(to))
<1> DEFINE n == Between(from, to)
<1>0. n \in Nat /\ Between(from, Next16(to)) = n + 1
  BY IndexFacts, Grown DEF Idx
<1>1. Place(from, n) = to % QSIZE
  BY PlaceAtEnd
<1> HIDE DEF n
<1>2. 0 .. (n + 1) - 1 = (0 .. n - 1) \cup {n}
  BY <1>0
<1>3. Held(ring, from, Next16(to)) = Held(ring, from, to) \cup {ring[to % QSIZE]}
  BY <1>0, <1>1, <1>2 DEF Held, n
<1>4. ASSUME NEW j \in 0 .. n, NEW k \in 0 .. n, ring[Place(from, j)] = ring[Place(from, k)]
      PROVE  j = k
  <2>1. CASE j \in 0 .. n - 1 /\ k \in 0 .. n - 1
    BY <1>4, <2>1 DEF Once, n
  <2>2. CASE j \in 0 .. n - 1 /\ k = n
    BY <1>1, <1>4, <2>2 DEF Held, n
  <2>3. CASE k \in 0 .. n - 1 /\ j = n
    BY <1>1, <1>4, <2>3 DEF Held, n
  <2> QED  BY <1>0, <2>1, <2>2, <2>3
<1>5. Once(ring, from, Next16(to))
  <2>1. 0 .. (n + 1) - 1 = 0 .. n
    BY <1>0
  <2> QED  BY <1>0, <1>4, <2>1 DEF Once
<1> QED
  BY <1>0, <1>3, <1>5 DEF n

\* Moving the lower index on.
LEMMA LowerMoves ==
  ASSUME NEW ring, NEW from \in Idx, NEW to \in Idx,
         from # to, Once(ring, from, to)
  PROVE  /\ Between(from, to) > 0
         /\ Between(Next16(from), to) = Between(from, to) - 1
         /\ ring[from % QSIZE] \in Held(ring, from, to)
         /\ Held(ring, Next16(from), to) = Held(ring, from, to) \ {ring[from % QSIZE]}
         /\ Once(ring, Next16(from), to)
         /\ \A k \in 0 .. Between(from, to) - 2 :
              ring[Place(Next16(from), k)] = ring[Place(from, k + 1)]
<1> DEFINE n == Between(from, to)
           up == Next16(from)
<1>0. n \in Nat /\ n > 0 /\ Between(up, to) = n - 1
  BY IndexFacts, Shrunk DEF Idx
<1>1. Place(from, 0) = from % QSIZE
  BY PlaceAtEnd
<1>2. \A k \in 0 .. n - 2 : Place(up, k) = Place(from, k + 1)
  BY <1>0, PlaceAfter
<1> HIDE DEF n, up
<1>3. ring[from % QSIZE] \in Held(ring, from, to)
  <2>1. 0 \in 0 .. n - 1
    BY <1>0
  <2> QED  BY <1>1, <2>1 DEF Held, n
<1>4. Held(ring, up, to) = Held(ring, from, to) \ {ring[from % QSIZE]}
  <2>1. ASSUME NEW k \in 0 .. (n - 1) - 1
        PROVE  ring[Place(up, k)] \in Held(ring, from, to) \ {ring[from % QSIZE]}
    <3>1. k + 1 \in 0 .. n - 1 /\ 0 \in 0 .. n - 1 /\ k + 1 # 0 /\ k \in 0 .. n - 2
      BY <1>0
    <3>2. Place(up, k) = Place(from, k + 1)
      BY <1>2, <3>1
    <3>3. ring[Place(from, k + 1)] # ring[Place(from, 0)]
      BY <3>1 DEF Once, n
    <3>4. ring[Place(from, k + 1)] \in Held(ring, from, to)
      BY <3>1 DEF Held, n
    <3> QED  BY <1>1, <3>2, <3>3, <3>4
  <2>2. ASSUME NEW k \in 0 .. n - 1, ring[Place(from, k)] # ring[from % QSIZE]
        PROVE  ring[Place(from, k)] \in Held(ring, up, to)
    <3>0. k # 0
      BY <1>1, <2>2
    <3>1. k - 1 \in 0 .. (n - 1) - 1 /\ k - 1 \in 0 .. n - 2 /\ (k - 1) + 1 = k
      BY <1>0, <3>0
    <3>2. Place(up, k - 1) = Place(from, k)
      BY <1>2, <3>1
    <3> QED  BY <1>0, <3>1, <3>2 DEF Held
  <2> QED  BY <1>0, <2>1, <2>2 DEF Held, n
<1>5. Once(ring, up, to)
  <2>1. ASSUME NEW j \in 0 .. (n - 1) - 1, NEW k \in 0 .. (n - 1) - 1,
               ring[Place(up, j)] = ring[Place(up, k)]
        PROVE  j = k
    <3>1. /\ j + 1 \in 0 .. n - 1 /\ k + 1 \in 0 .. n - 1
          /\ j \in 0 .. n - 2 /\ k \in 0 .. n - 2
      BY <1>0
    <3>2. ring[Place(from, j + 1)] = ring[Place(from, k + 1)]
      BY <1>2, <2>1, <3>1
    <3>3. j + 1 = k + 1
      BY <3>1, <3>2 DEF Once, n
    <3> QED  BY <3>1, <3>3
  <2> QED  BY <1>0, <2>1 DEF Once
<1> QED
  BY <1>0, <1>2, <1>3, <1>4, <1>5 DEF n, up

\* An index range that is empty holds nothing.
LEMMA NothingHeld ==
  ASSUME NEW ring, NEW a \in Idx
  PROVE  Between(a, a) = 0 /\ Held(ring, a, a) = {} /\ Once(ring, a, a)
<1>1. Between(a, a) = 0
  <2>1. Between(a, a) = IF a <= a THEN a - a ELSE a - a + UINT16
    BY IndexFacts
  <2> QED  BY <2>1 DEF Idx
<1>2. 0 .. 0 - 1 = {}
  OBVIOUS
<1> QED
  BY <1>1, <1>2 DEF Held, Once

-----------------------------------------------------------------------------
\* The invariant.
Queue ==
  [avail_ring : [Places -> Posted], avail_idx : Idx, next_avail_idx : Idx,
   used_ring : [Places -> [id : Posted, len : Frame \cup {Nothing}]],
   used_idx : Idx, last_used_idx : Idx]
Polling == [pc : {"poll"}, spins : Nat]
Call ==
  {Idle} \cup [pc : {"fill", "describe", "publish"}, frame : Frame \ {Runt, Jumbo}]
    \cup [pc : {"wait"}, spins : Nat] \cup Polling
    \cup [pc : {"copy", "post", "bump"}, desc : Posted, after : {Idle} \cup Polling]
Card ==
  [status : {"reset", "failed", "running"}, rx_avail : Idx, tx_avail : Idx,
   rx : {NoBuffer} \cup [desc : Posted, frame : Frame], tx : Frame \cup {Nothing}]

Types ==
  /\ net_ready \in BOOLEAN /\ late \in BOOLEAN
  /\ rx_q \in Queue /\ tx_q \in Queue
  /\ rx_bufs \in [Posted -> Frame \cup {Garbled, Nothing}]
  /\ tx_len \in Frame \cup {Nothing}
  /\ call \in Call /\ card \in Card
  /\ unsent \in Seq(Frame)

\* Nothing moves until hal_net_init() has told the card to start.
Asleep ==
  /\ net_ready <=> card.status = "running"
  /\ ~net_ready => /\ rx_q = NewQueue /\ tx_q = NewQueue /\ call = Idle
                   /\ card.rx = NoBuffer /\ card.tx = Nothing
                   /\ card.rx_avail = 0 /\ card.tx_avail = 0
                   /\ unsent = << >> /\ ~late

\* The ids that the used ring holds.
Ids(used) == [s \in Places |-> used[s].id]
One(S) == IF S = {} THEN 0 ELSE 1

\* Every buffer is offered, used, in the driver's hand or with the card, in one
\* place only; and the indices count them.
Accounted(ring, lo, hi, ids, ulo, uhi, hand, with) ==
  /\ Once(ring, lo, hi) /\ Once(ids, ulo, uhi)
  /\ Held(ring, lo, hi) \cap Held(ids, ulo, uhi) = {}
  /\ Held(ring, lo, hi) \cap (hand \cup with) = {}
  /\ Held(ids, ulo, uhi) \cap (hand \cup with) = {}
  /\ hand \cap with = {}
  /\ Held(ring, lo, hi) \cup Held(ids, ulo, uhi) \cup hand \cup with = Posted
  /\ Between(lo, hi) + Between(ulo, uhi) + One(hand) + One(with) = Cardinality(Posted)

Accounts ==
  Accounted(rx_q.avail_ring, card.rx_avail, rx_q.avail_idx,
            Ids(rx_q.used_ring), rx_q.last_used_idx, rx_q.used_idx, InHand, WithCard)

\* A used buffer holds the frame that its entry tells the length of, also while
\* it is copied; and rx_post() has written the entry that it then publishes.
Told(bufs, used, lo, hi) ==
  \A k \in 0 .. Between(lo, hi) - 1 :
    LET e == used[Place(lo, k)] IN e.len \in Frame /\ bufs[e.id] = e.len
Contents ==
  /\ Told(rx_bufs, rx_q.used_ring, rx_q.last_used_idx, rx_q.used_idx)
  /\ call.pc = "copy" => rx_bufs[call.desc] \in Frame /\ Fits(rx_bufs[call.desc])
  /\ rx_q.next_avail_idx = rx_q.avail_idx
  /\ call.pc = "bump" => rx_q.avail_ring[rx_q.avail_idx % QSIZE] = call.desc

\* What the card has yet to send is what it has yet to take, and what it has taken.
\* Until a send has run out of spins there is at most one such frame, only while
\* hal_net_send() waits for it, and its buffer and descriptor are as they were.
Owing ==
  /\ tx_q.next_avail_idx = tx_q.avail_idx
  /\ Between(card.tx_avail, tx_q.avail_idx) + One({card.tx} \ {Nothing}) = Len(unsent)
  /\ Len(unsent) <= MaxOwed
  /\ call.pc \in {"fill", "describe", "publish"} => Len(unsent) < MaxOwed
  /\ call.pc \in {"describe", "publish"} => tx_buf = call.frame
  /\ call.pc = "publish" => tx_len = call.frame
  /\ unsent # << >> => tx_len # Nothing
InTime ==
  ~late => /\ call.pc # "wait" => unsent = << >>
           /\ call.pc # "wait" => tx_q.used_idx = tx_q.last_used_idx
           /\ call.pc = "wait" => Len(unsent) = IF tx_q.used_idx = tx_q.last_used_idx THEN 1 ELSE 0
           /\ unsent # << >> => tx_buf = unsent[1] /\ tx_len = unsent[1]
           /\ card.tx # Nothing => card.tx = tx_len

IInv == Types /\ Asleep /\ (net_ready => Accounts) /\ Contents /\ Owing /\ InTime

-----------------------------------------------------------------------------
\* The buffers that hal_net_init() posts are numbered from 0.
LEMMA PostedFacts ==
  LET n == Cardinality(Posted)
  IN  /\ n \in 1 .. QSIZE /\ n \in Idx
      /\ Posted = 0 .. n - 1
      /\ Posted \subseteq Places /\ 0 \in Posted
<1>1. CASE RX_BUF_COUNT <= QSIZE
  <2>1. Posted = 0 .. RX_BUF_COUNT - 1
    BY <1>1, Sizes DEF Posted
  <2>2. Cardinality(Posted) = RX_BUF_COUNT
    <3>1. Cardinality(0 .. RX_BUF_COUNT - 1)
            = IF 0 > RX_BUF_COUNT - 1 THEN 0 ELSE (RX_BUF_COUNT - 1) - 0 + 1
      BY FS_Interval, Sizes
    <3> QED  BY <2>1, <3>1, Sizes
  <2> QED  BY <1>1, <2>1, <2>2, Sizes DEF Places, Idx
<1>2. CASE RX_BUF_COUNT > QSIZE
  <2>1. Posted = 0 .. QSIZE - 1
    BY <1>2, Sizes DEF Posted
  <2>2. Cardinality(Posted) = QSIZE
    <3>1. Cardinality(0 .. QSIZE - 1)
            = IF 0 > QSIZE - 1 THEN 0 ELSE (QSIZE - 1) - 0 + 1
      BY FS_Interval, Sizes
    <3> QED  BY <2>1, <3>1, Sizes
  <2> QED  BY <1>2, <2>1, <2>2, Sizes DEF Places, Idx
<1> QED
  BY <1>1, <1>2, Sizes

LEMMA OneFacts ==
  One({}) = 0 /\ \A S : One(S) \in {0, 1} /\ \A d : One({d}) = 1
BY DEF One

\* Room in the rings: the indices count no more than there are buffers.
LEMMA RoomInTheRings ==
  ASSUME NEW ring, NEW lo \in Idx, NEW hi \in Idx, NEW ids, NEW ulo \in Idx, NEW uhi \in Idx,
         NEW hand, NEW with, Accounted(ring, lo, hi, ids, ulo, uhi, hand, with)
  PROVE  /\ hand # {} => Between(lo, hi) < QSIZE
         /\ with # {} => /\ Between(ulo, uhi) < QSIZE
                         /\ Between(ulo, uhi) + One(hand) < Cardinality(Posted)
         /\ Between(lo, hi) \in Nat /\ Between(ulo, uhi) \in Nat
<1>1. Between(lo, hi) \in Nat /\ Between(ulo, uhi) \in Nat
  BY IndexFacts DEF Idx
<1>2. Cardinality(Posted) \in Nat /\ Cardinality(Posted) <= QSIZE
  BY PostedFacts
<1>3. Between(lo, hi) + Between(ulo, uhi) + One(hand) + One(with) = Cardinality(Posted)
  BY DEF Accounted
<1>4. /\ One(hand) \in {0, 1} /\ One(with) \in {0, 1}
      /\ hand # {} => One(hand) = 1
      /\ with # {} => One(with) = 1
  BY DEF One
<1> QED
  BY <1>1, <1>2, <1>3, <1>4, Sizes

\* The card takes an offered buffer.
LEMMA OfferedToCard ==
  ASSUME NEW ring, NEW lo \in Idx, NEW hi \in Idx, NEW ids, NEW ulo \in Idx, NEW uhi \in Idx,
         NEW hand, Accounted(ring, lo, hi, ids, ulo, uhi, hand, {}), lo # hi
  PROVE  /\ Accounted(ring, Next16(lo), hi, ids, ulo, uhi, hand, {ring[lo % QSIZE]})
         /\ ring[lo % QSIZE] \in Held(ring, lo, hi)
<1> DEFINE d == ring[lo % QSIZE]
<1>1. /\ Between(lo, hi) > 0
      /\ Between(Next16(lo), hi) = Between(lo, hi) - 1
      /\ d \in Held(ring, lo, hi)
      /\ Held(ring, Next16(lo), hi) = Held(ring, lo, hi) \ {d}
      /\ Once(ring, Next16(lo), hi)
  BY LowerMoves, ZenonT(30) DEF Accounted
<1> HIDE DEF d
<1>2. /\ Between(lo, hi) \in Nat /\ Between(ulo, uhi) \in Nat
      /\ One({}) = 0 /\ One({d}) = 1 /\ One(hand) \in {0, 1}
  <2>1. Between(lo, hi) \in Idx /\ Between(ulo, uhi) \in Idx
    BY IndexFacts
  <2>2. Between(lo, hi) \in Nat /\ Between(ulo, uhi) \in Nat
    BY <2>1 DEF Idx
  <2>3. One({}) = 0 /\ One({d}) = 1
    BY OneFacts, ZenonT(30)
  <2> QED  BY <2>2, <2>3, OneFacts
<1>3. Between(lo, hi) - 1 + Between(ulo, uhi) + One(hand) + One({d}) = Cardinality(Posted)
  BY <1>2 DEF Accounted
<1>4. Accounted(ring, Next16(lo), hi, ids, ulo, uhi, hand, {d})
  BY <1>1, <1>3 DEF Accounted
<1> QED
  BY <1>1, <1>4 DEF d

\* It has filled it, and puts it on the used ring.
LEMMA CardToUsed ==
  ASSUME NEW ring, NEW lo \in Idx, NEW hi \in Idx, NEW ids \in [Places -> Posted],
         NEW ulo \in Idx, NEW uhi \in Idx,
         NEW hand, NEW d, Accounted(ring, lo, hi, ids, ulo, uhi, hand, {d})
  PROVE  Accounted(ring, lo, hi, [ids EXCEPT ![uhi % QSIZE] = d], ulo, Next16(uhi), hand, {})
<1> DEFINE new == [ids EXCEPT ![uhi % QSIZE] = d]
<1>0. Between(ulo, uhi) < QSIZE
  BY RoomInTheRings
<1>1. /\ \A k \in 0 .. Between(ulo, uhi) - 1 : new[Place(ulo, k)] = ids[Place(ulo, k)]
      /\ new[uhi % QSIZE] = d
      /\ Held(new, ulo, uhi) = Held(ids, ulo, uhi)
      /\ Once(new, ulo, uhi) <=> Once(ids, ulo, uhi)
  BY <1>0, EntryOutside, ZenonT(30)
<1> HIDE DEF new
<1>2. d \notin Held(ids, ulo, uhi) /\ Once(ids, ulo, uhi)
  BY DEF Accounted
<1>3. /\ Between(ulo, Next16(uhi)) = Between(ulo, uhi) + 1
      /\ Held(new, ulo, Next16(uhi)) = Held(ids, ulo, uhi) \cup {d}
      /\ Once(new, ulo, Next16(uhi))
  BY <1>0, <1>1, <1>2, UpperMoves
<1>4. /\ Between(lo, hi) \in Nat /\ Between(ulo, uhi) \in Nat
      /\ One({}) = 0 /\ One({d}) = 1 /\ One(hand) \in {0, 1}
  <2>1. Between(lo, hi) \in Idx /\ Between(ulo, uhi) \in Idx
    BY IndexFacts, ZenonT(30)
  <2>2. Between(lo, hi) \in Nat /\ Between(ulo, uhi) \in Nat
    BY <2>1 DEF Idx
  <2>3. One({}) = 0 /\ One({d}) = 1
    BY OneFacts, ZenonT(30)
  <2> QED  BY <2>2, <2>3, OneFacts
<1>5. Between(lo, hi) + (Between(ulo, uhi) + 1) + One(hand) + One({}) = Cardinality(Posted)
  BY <1>4 DEF Accounted
<1>6. Accounted(ring, lo, hi, new, ulo, Next16(uhi), hand, {})
  BY <1>3, <1>5 DEF Accounted
<1> QED
  BY <1>6 DEF new

\* The driver takes it from there.
LEMMA UsedToHand ==
  ASSUME NEW ring, NEW lo \in Idx, NEW hi \in Idx, NEW ids, NEW ulo \in Idx, NEW uhi \in Idx,
         NEW with, Accounted(ring, lo, hi, ids, ulo, uhi, {}, with), ulo # uhi
  PROVE  Accounted(ring, lo, hi, ids, Next16(ulo), uhi, {ids[ulo % QSIZE]}, with)
<1> DEFINE d == ids[ulo % QSIZE]
<1>1. /\ Between(ulo, uhi) > 0
      /\ Between(Next16(ulo), uhi) = Between(ulo, uhi) - 1
      /\ d \in Held(ids, ulo, uhi)
      /\ Held(ids, Next16(ulo), uhi) = Held(ids, ulo, uhi) \ {d}
      /\ Once(ids, Next16(ulo), uhi)
  BY LowerMoves DEF Accounted
<1> HIDE DEF d
<1>2. /\ Between(lo, hi) \in Nat /\ Between(ulo, uhi) \in Nat
      /\ One({}) = 0 /\ One({d}) = 1 /\ One(with) \in {0, 1}
  <2>1. Between(lo, hi) \in Idx /\ Between(ulo, uhi) \in Idx
    BY IndexFacts
  <2>2. Between(lo, hi) \in Nat /\ Between(ulo, uhi) \in Nat
    BY <2>1 DEF Idx
  <2>3. One({}) = 0 /\ One({d}) = 1
    BY OneFacts, ZenonT(30)
  <2> QED  BY <2>2, <2>3, OneFacts
<1>3. Between(lo, hi) + (Between(ulo, uhi) - 1) + One({d}) + One(with) = Cardinality(Posted)
  BY <1>2 DEF Accounted
<1>4. Accounted(ring, lo, hi, ids, Next16(ulo), uhi, {d}, with)
  BY <1>1, <1>3 DEF Accounted
<1> QED
  BY <1>4 DEF d

\* It writes the entry that offers it again, which the card does not look at yet,
LEMMA HandWritten ==
  ASSUME NEW ring \in [Places -> Posted], NEW lo \in Idx, NEW hi \in Idx, NEW ids,
         NEW ulo \in Idx, NEW uhi \in Idx,
         NEW d, NEW with, Accounted(ring, lo, hi, ids, ulo, uhi, {d}, with)
  PROVE  Accounted([ring EXCEPT ![hi % QSIZE] = d], lo, hi, ids, ulo, uhi, {d}, with)
<1> DEFINE new == [ring EXCEPT ![hi % QSIZE] = d]
<1>0. Between(lo, hi) < QSIZE
  BY RoomInTheRings
<1>1. /\ Held(new, lo, hi) = Held(ring, lo, hi)
      /\ Once(new, lo, hi) <=> Once(ring, lo, hi)
  BY <1>0, EntryOutside, ZenonT(30)
<1> HIDE DEF new
<1>2. Accounted(new, lo, hi, ids, ulo, uhi, {d}, with)
  BY <1>1 DEF Accounted
<1> QED
  BY <1>2 DEF new

\* and moves the index past it.
LEMMA HandToOffered ==
  ASSUME NEW ring, NEW lo \in Idx, NEW hi \in Idx, NEW ids, NEW ulo \in Idx, NEW uhi \in Idx,
         NEW with, Accounted(ring, lo, hi, ids, ulo, uhi, {ring[hi % QSIZE]}, with)
  PROVE  Accounted(ring, lo, Next16(hi), ids, ulo, uhi, {}, with)
<1> DEFINE d == ring[hi % QSIZE]
<1>0. Between(lo, hi) < QSIZE
  BY RoomInTheRings, ZenonT(30)
<1>1. d \notin Held(ring, lo, hi) /\ Once(ring, lo, hi)
  BY DEF Accounted
<1>2. /\ Between(lo, Next16(hi)) = Between(lo, hi) + 1
      /\ Held(ring, lo, Next16(hi)) = Held(ring, lo, hi) \cup {d}
      /\ Once(ring, lo, Next16(hi))
  BY <1>0, <1>1, UpperMoves
<1>3. Accounted(ring, lo, hi, ids, ulo, uhi, {d}, with)
  OBVIOUS
<1> HIDE DEF d
<1>4. /\ Between(lo, hi) \in Nat /\ Between(ulo, uhi) \in Nat
      /\ One({}) = 0 /\ One({d}) = 1 /\ One(with) \in {0, 1}
  <2>1. Between(lo, hi) \in Idx /\ Between(ulo, uhi) \in Idx
    BY IndexFacts, ZenonT(30)
  <2>2. Between(lo, hi) \in Nat /\ Between(ulo, uhi) \in Nat
    BY <2>1 DEF Idx
  <2>3. One({}) = 0 /\ One({d}) = 1
    BY OneFacts, ZenonT(30)
  <2> QED  BY <2>2, <2>3, OneFacts
<1>5. (Between(lo, hi) + 1) + Between(ulo, uhi) + One({}) + One(with) = Cardinality(Posted)
  BY <1>3, <1>4 DEF Accounted
<1> QED
  BY <1>2, <1>3, <1>5 DEF Accounted

\* What hal_net_init() posts.
LEMMA AllOffered ==
  LET ring == [k \in Places |-> IF k \in Posted THEN k ELSE 0]
  IN  \A ids : Accounted(ring, 0, Cardinality(Posted), ids, 0, 0, {}, {})
<1> SUFFICES ASSUME NEW ids
             PROVE  Accounted([k \in Places |-> IF k \in Posted THEN k ELSE 0],
                              0, Cardinality(Posted), ids, 0, 0, {}, {})
  OBVIOUS
<1> DEFINE ring == [k \in Places |-> IF k \in Posted THEN k ELSE 0]
           n == Cardinality(Posted)
<1>0. n \in 1 .. QSIZE /\ n \in Idx /\ 0 \in Idx /\ Posted = 0 .. n - 1 /\ Posted \subseteq Places
  BY PostedFacts, Sizes DEF Idx
<1>1. Between(0, n) = n
  <2>1. Between(0, n) = IF 0 <= n THEN n - 0 ELSE n - 0 + UINT16
    BY <1>0, IndexFacts, ZenonT(30)
  <2> QED  BY <1>0, <2>1
<1>2. \A k \in Posted : Place(0, k) = k
  <2> SUFFICES ASSUME NEW k \in Posted PROVE Place(0, k) = k
    OBVIOUS
  <2>1. k \in Places /\ 0 + k = k /\ k \in Int
    BY <1>0
  <2>2. k = QSIZE * 0 + k /\ k \in 0 .. QSIZE - 1
    BY <2>1, Sizes DEF Places
  <2>3. k % QSIZE = k
    BY <2>1, <2>2, Sizes
  <2> QED  BY <2>1, <2>3 DEF Place
<1>3. \A k \in 0 .. n - 1 : ring[Place(0, k)] = k
  BY <1>0, <1>2
<1> HIDE DEF ring, n
<1>4. Held(ring, 0, n) = Posted
  BY <1>0, <1>1, <1>3 DEF Held
<1>5. Once(ring, 0, n)
  BY <1>1, <1>3 DEF Once
<1>6. Between(0, 0) = 0 /\ Held(ids, 0, 0) = {} /\ Once(ids, 0, 0)
  BY <1>0, NothingHeld
<1>7. n + 0 + One({}) + One({}) = n
  BY <1>0 DEF One
<1>8. Accounted(ring, 0, n, ids, 0, 0, {}, {})
  BY <1>1, <1>4, <1>5, <1>6, <1>7, ZenonT(30) DEF Accounted, n
<1> QED
  BY <1>8 DEF ring, n

-----------------------------------------------------------------------------
\* What each kind of step does to a queue.
LEMMA QueueFields ==
  ASSUME NEW q \in Queue
  PROVE  /\ q.avail_ring \in [Places -> Posted]
         /\ q.used_ring \in [Places -> [id : Posted, len : Frame \cup {Nothing}]]
         /\ q.avail_idx \in Idx /\ q.next_avail_idx \in Idx
         /\ q.used_idx \in Idx /\ q.last_used_idx \in Idx
         /\ Ids(q.used_ring) \in [Places -> Posted]
BY DEF Queue, Ids

LEMMA NewQueueFields ==
  /\ NewQueue \in Queue
  /\ NewQueue.avail_idx = 0 /\ NewQueue.next_avail_idx = 0
  /\ NewQueue.used_idx = 0 /\ NewQueue.last_used_idx = 0
<1>1. 0 \in Posted /\ 0 \in Idx
  BY PostedFacts, Sizes DEF Idx
<1> QED
  BY <1>1 DEF NewQueue, Queue, Places

LEMMA EntryFields ==
  ASSUME NEW q \in Queue, NEW d \in Posted
  PROVE  LET new == RingEntry(q, d)
         IN  /\ new \in Queue
             /\ new.avail_ring = [q.avail_ring EXCEPT ![q.next_avail_idx % QSIZE] = d]
             /\ new.avail_idx = q.avail_idx /\ new.next_avail_idx = q.next_avail_idx
             /\ new.used_ring = q.used_ring
             /\ new.used_idx = q.used_idx /\ new.last_used_idx = q.last_used_idx
<1>1. q.next_avail_idx % QSIZE \in Places
  <2>1. q.next_avail_idx \in Nat
    BY DEF Queue, Idx
  <2> QED  BY <2>1, PlaceType
<1> QED
  BY <1>1, ZenonT(30) DEF Queue, RingEntry

LEMMA BumpFields ==
  ASSUME NEW q \in Queue
  PROVE  LET new == IndexBump(q)
         IN  /\ new \in Queue
             /\ new.avail_idx = Next16(q.next_avail_idx)
             /\ new.next_avail_idx = Next16(q.next_avail_idx)
             /\ new.avail_ring = q.avail_ring /\ new.used_ring = q.used_ring
             /\ new.used_idx = q.used_idx /\ new.last_used_idx = q.last_used_idx
<1>1. Next16(q.next_avail_idx) \in Idx
  BY QueueFields, IndexFacts, ZenonT(30)
<1>2. IndexBump(q) = [q EXCEPT !.next_avail_idx = Next16(q.next_avail_idx),
                               !.avail_idx = Next16(q.next_avail_idx)]
  BY DEF IndexBump, Next16
<1> QED
  BY <1>1, <1>2, ZenonT(30) DEF Queue

LEMMA TakenFields ==
  ASSUME NEW q \in Queue, NEW i \in Idx
  PROVE  LET new == [q EXCEPT !.last_used_idx = i]
         IN  /\ new \in Queue /\ new.last_used_idx = i
             /\ new.avail_idx = q.avail_idx /\ new.next_avail_idx = q.next_avail_idx
             /\ new.avail_ring = q.avail_ring /\ new.used_ring = q.used_ring
             /\ new.used_idx = q.used_idx
BY DEF Queue

LEMMA UsedFields ==
  ASSUME NEW q \in Queue, NEW i \in Idx
  PROVE  LET new == [q EXCEPT !.used_idx = i]
         IN  /\ new \in Queue /\ new.used_idx = i
             /\ new.avail_idx = q.avail_idx /\ new.next_avail_idx = q.next_avail_idx
             /\ new.avail_ring = q.avail_ring /\ new.used_ring = q.used_ring
             /\ new.last_used_idx = q.last_used_idx
BY DEF Queue

\* What each kind of step does to the card.
LEMMA CardFields ==
  ASSUME NEW c \in Card
  PROVE  /\ c.rx_avail \in Idx /\ c.tx_avail \in Idx
         /\ c.rx = NoBuffer \/ (c.rx.desc \in Posted /\ c.rx.frame \in Frame)
         /\ c.tx \in Frame \cup {Nothing}
BY DEF Card

LEMMA CardStarts ==
  ASSUME NEW c \in Card, NEW s \in {"reset", "failed", "running"}
  PROVE  LET new == [c EXCEPT !.status = s]
         IN  /\ new \in Card /\ new.status = s
             /\ new.rx_avail = c.rx_avail /\ new.tx_avail = c.tx_avail
             /\ new.rx = c.rx /\ new.tx = c.tx
BY DEF Card

LEMMA CardHasReceived ==
  ASSUME NEW c \in Card
  PROVE  LET new == [c EXCEPT !.rx = NoBuffer]
         IN  /\ new \in Card /\ new.status = c.status /\ new.rx = NoBuffer
             /\ new.rx_avail = c.rx_avail /\ new.tx_avail = c.tx_avail /\ new.tx = c.tx
BY DEF Card

LEMMA CardHasSent ==
  ASSUME NEW c \in Card
  PROVE  LET new == [c EXCEPT !.tx = Nothing]
         IN  /\ new \in Card /\ new.status = c.status /\ new.rx = c.rx
             /\ new.rx_avail = c.rx_avail /\ new.tx_avail = c.tx_avail /\ new.tx = Nothing
BY DEF Card

\* The calls the driver may be in.
LEMMA CallFields ==
  ASSUME NEW c \in Call
  PROVE  /\ c.pc \in {"idle", "fill", "describe", "publish", "wait", "poll", "copy", "post", "bump"}
         /\ c.pc \in {"fill", "describe", "publish"} => c.frame \in Frame \ {Runt, Jumbo}
         /\ c.pc \in {"wait", "poll"} => c.spins \in Nat
         /\ c.pc \in {"copy", "post", "bump"} =>
              c.desc \in Posted /\ c.after \in {Idle} \cup Polling
         /\ c = Idle <=> c.pc = "idle"
BY DEF Call, Idle, Polling

-----------------------------------------------------------------------------
\* Each step keeps the invariant.  Most of them leave one of the two sides alone.
LEMMA ReceiveSideLeftAlone ==
  ASSUME Accounts, Contents, rx_q' = rx_q, rx_bufs' = rx_bufs,
         card'.rx = card.rx, card'.rx_avail = card.rx_avail, InHand' = InHand,
         call'.pc \in {"copy", "bump"} => call' = call
  PROVE  Accounts' /\ Contents'
<1>1. WithCard' = WithCard
  BY DEF WithCard
<1>2. Accounts'
  BY <1>1 DEF Accounts
<1>3. Contents'
  BY DEF Contents
<1> QED
  BY <1>2, <1>3

LEMMA SendSideLeftAlone ==
  ASSUME Owing, InTime, UNCHANGED <<tx_q, tx_buf, tx_len, unsent, late>>,
         card'.tx = card.tx, card'.tx_avail = card.tx_avail,
         \/ call' = call
         \/ call.pc # "wait" /\ call'.pc \notin {"fill", "describe", "publish", "wait"}
  PROVE  Owing' /\ InTime'
<1>1. Owing'
  BY DEF Owing
<1>2. InTime'
  BY DEF InTime
<1> QED
  BY <1>1, <1>2

LEMMA Initially == Init => IInv
<1> SUFFICES ASSUME Init PROVE IInv
  OBVIOUS
<1>0. 0 \in Idx
  BY Sizes DEF Idx
<1>1. Types
  <2>1. rx_q \in Queue /\ tx_q \in Queue
    BY NewQueueFields DEF Init
  <2>2. card \in Card
    BY <1>0 DEF Init, Card
  <2>3. call \in Call
    BY DEF Init, Call
  <2>4. net_ready \in BOOLEAN /\ late \in BOOLEAN /\ tx_len \in Frame \cup {Nothing}
    BY ZenonT(30) DEF Init
  <2>5. unsent \in Seq(Frame)
    BY DEF Init
  <2>6. rx_bufs \in [Posted -> Frame \cup {Garbled, Nothing}]
    BY DEF Init
  <2> QED  BY <2>1, <2>2, <2>3, <2>4, <2>5, <2>6, ZenonT(30) DEF Types
<1>2. Asleep
  BY DEF Init, Asleep
<1>3. Owing
  <2>1. Between(card.tx_avail, tx_q.avail_idx) = 0
    <3>1. card.tx_avail = 0 /\ tx_q.avail_idx = 0
      BY NewQueueFields DEF Init
    <3>2. Between(0, 0) = 0
      BY <1>0, NothingHeld
    <3> QED  BY <3>1, <3>2
  <2>2. One({card.tx} \ {Nothing}) = 0
    BY DEF Init, One
  <2>3. Len(unsent) = 0 /\ 0 < MaxOwed
    BY VirtioNetAssumption DEF Init
  <2>4. call.pc = "idle" /\ unsent = << >>
    BY DEF Init, Idle
  <2> QED  BY <2>1, <2>2, <2>3, <2>4, VirtioNetAssumption, NewQueueFields DEF Owing, Init
<1>4. InTime
  BY NewQueueFields DEF Init, InTime, Idle
<1>5. ~net_ready
  BY DEF Init
<1>6. Contents
  <2>1. /\ rx_q.used_idx = 0 /\ rx_q.last_used_idx = 0 /\ rx_q.next_avail_idx = rx_q.avail_idx
        /\ call.pc = "idle"
    BY NewQueueFields DEF Init, Idle
  <2>2. Between(0, 0) = 0 /\ 0 .. 0 - 1 = {}
    BY <1>0, NothingHeld
  <2> QED  BY <2>1, <2>2 DEF Contents, Told
<1> QED
  BY <1>1, <1>2, <1>3, <1>4, <1>5, <1>6, ZenonT(30) DEF IInv

LEMMA StepInit ==
  ASSUME IInv, hal_net_init
  PROVE  IInv'
<1> USE DEF IInv
<1>0. ~net_ready /\ 0 \in Idx /\ Cardinality(Posted) \in Idx
  BY PostedFacts, Sizes DEF hal_net_init, Asleep, Idx
<1>1. /\ rx_q = NewQueue /\ call = Idle /\ card.rx = NoBuffer /\ card.rx_avail = 0
      /\ card \in Card /\ NewQueue \in Queue
  BY <1>0, NewQueueFields DEF Asleep, Types
<1>2. /\ card' \in Card /\ card'.status = "running"
      /\ card'.rx_avail = card.rx_avail /\ card'.tx_avail = card.tx_avail
      /\ card'.rx = card.rx /\ card'.tx = card.tx
  BY <1>1, CardStarts, ZenonT(30) DEF hal_net_init
<1> DEFINE ring == [k \in Places |-> IF k \in Posted THEN k ELSE 0]
<1>3. /\ rx_q'.avail_ring = ring
      /\ rx_q'.avail_idx = Cardinality(Posted) /\ rx_q'.next_avail_idx = Cardinality(Posted)
      /\ rx_q'.used_ring = NewQueue.used_ring
      /\ rx_q'.used_idx = 0 /\ rx_q'.last_used_idx = 0
  BY DEF hal_net_init, NewQueue, Places
<1>4. rx_q' \in Queue
  <2>1. ring \in [Places -> Posted]
    BY PostedFacts
  <2>2. NewQueue.used_ring \in [Places -> [id : Posted, len : Frame \cup {Nothing}]]
    BY <1>1, QueueFields
  <2>3. rx_q' = [avail_ring |-> rx_q'.avail_ring, avail_idx |-> rx_q'.avail_idx,
                 next_avail_idx |-> rx_q'.next_avail_idx, used_ring |-> rx_q'.used_ring,
                 used_idx |-> rx_q'.used_idx, last_used_idx |-> rx_q'.last_used_idx]
    BY ZenonT(30) DEF hal_net_init, NewQueue
  <2> QED  BY <1>0, <1>3, <2>1, <2>2, <2>3, ZenonT(30) DEF Queue
<1> HIDE DEF ring
<1>5. Types'
  BY <1>2, <1>4 DEF Types, hal_net_init
<1>6. Asleep'
  BY <1>2, ZenonT(30) DEF Asleep, hal_net_init
<1>7. Accounts'
  <2>1. InHand' = {} /\ WithCard' = {}
    BY <1>1, <1>2, ZenonT(30) DEF InHand, WithCard, hal_net_init, Idle
  <2>2. Accounted(ring, 0, Cardinality(Posted), Ids(rx_q'.used_ring), 0, 0, {}, {})
    BY AllOffered, ZenonT(30) DEF ring
  <2> QED  BY <1>1, <1>2, <1>3, <2>1, <2>2, ZenonT(30) DEF Accounts
<1>8. Contents'
  <2>1. Told(rx_bufs', rx_q'.used_ring, 0, 0)
    <3>1. Between(0, 0) = 0
      BY <1>0, NothingHeld
    <3>2. 0 .. 0 - 1 = {}
      OBVIOUS
    <3> QED  BY <3>1, <3>2 DEF Told
  <2>2. call'.pc = "idle"
    BY <1>1 DEF hal_net_init, Idle
  <2> QED  BY <1>3, <2>1, <2>2, ZenonT(30) DEF Contents
<1>9. Owing' /\ InTime'
  BY <1>2, SendSideLeftAlone DEF hal_net_init
<1> QED
  BY <1>5, <1>6, <1>7, <1>8, <1>9, ZenonT(30)

LEMMA StepInitFails ==
  ASSUME IInv, hal_net_init_fails
  PROVE  IInv'
<1> USE DEF IInv
<1>0. ~net_ready
  BY DEF hal_net_init_fails, Asleep
<1>1. /\ card' \in Card /\ card'.status = "failed"
      /\ card'.rx_avail = card.rx_avail /\ card'.tx_avail = card.tx_avail
      /\ card'.rx = card.rx /\ card'.tx = card.tx
  BY CardStarts, ZenonT(30) DEF hal_net_init_fails, Types
<1>2. Types'
  BY <1>1 DEF Types, hal_net_init_fails
<1>3. Asleep'
  BY <1>0, <1>1 DEF Asleep, hal_net_init_fails
<1>4. Owing' /\ InTime'
  BY <1>1, SendSideLeftAlone DEF hal_net_init_fails
<1>5. ~net_ready'
  BY <1>0 DEF hal_net_init_fails
<1>6. Contents'
  BY DEF Contents, hal_net_init_fails
<1> QED
  BY <1>2, <1>3, <1>4, <1>5, <1>6, ZenonT(30)

\* The steps of hal_net_send() and of its wait.
LEMMA SendStepsReceiveSide ==
  ASSUME IInv, net_ready, UNCHANGED <<rx_q, rx_bufs, card>>,
         call.pc \notin {"copy", "post", "bump"}, call'.pc \notin {"copy", "post", "bump"}
  PROVE  Accounts' /\ Contents'
<1>1. InHand' = InHand
  BY DEF InHand
<1> QED
  BY <1>1, ReceiveSideLeftAlone DEF IInv

LEMMA StepSend ==
  ASSUME IInv, NEW f \in Frame \ {Runt, Jumbo}, hal_net_send(f)
  PROVE  IInv'
<1> USE DEF IInv
<1>1. /\ net_ready /\ call.pc = "idle" /\ call'.pc = "fill" /\ call'.frame = f
      /\ call' \in Call
  BY DEF hal_net_send, Idle, Call
<1>2. Types'
  BY <1>1 DEF Types, hal_net_send
<1>3. Asleep'
  BY <1>1 DEF Asleep, hal_net_send
<1>4. Accounts' /\ Contents'
  BY <1>1, SendStepsReceiveSide, ZenonT(30) DEF hal_net_send
<1>5. Owing'
  BY <1>1, ZenonT(30) DEF Owing, hal_net_send
<1>6. InTime'
  BY <1>1 DEF InTime, hal_net_send
<1> QED
  BY <1>2, <1>3, <1>4, <1>5, <1>6, ZenonT(30)

LEMMA StepFilled ==
  ASSUME IInv, SendFilled
  PROVE  IInv'
<1> USE DEF IInv
<1>0. call.frame \in Frame \ {Runt, Jumbo} /\ call # Idle
  BY CallFields DEF SendFilled, Types
<1>1. /\ net_ready /\ call.pc = "fill" /\ call'.pc = "describe" /\ call'.frame = call.frame
      /\ call' \in Call
  BY <1>0 DEF SendFilled, Call, Types, Asleep, Idle, Polling
<1>2. Types'
  BY <1>1 DEF Types, SendFilled
<1>3. Asleep'
  BY <1>1 DEF Asleep, SendFilled
<1>4. Accounts' /\ Contents'
  BY <1>1, SendStepsReceiveSide DEF SendFilled
<1>5. Owing'
  BY <1>1 DEF Owing, SendFilled
<1>6. InTime'
  BY <1>1, ZenonT(30) DEF InTime, SendFilled
<1> QED
  BY <1>2, <1>3, <1>4, <1>5, <1>6, ZenonT(30)

LEMMA StepDescribed ==
  ASSUME IInv, SendDescribed
  PROVE  IInv'
<1> USE DEF IInv
<1>0. call.frame \in Frame \ {Runt, Jumbo} /\ call # Idle
  BY CallFields DEF SendDescribed, Types
<1>1. /\ net_ready /\ call.pc = "describe" /\ call'.pc = "publish" /\ call'.frame = call.frame
      /\ call' \in Call
  BY <1>0 DEF SendDescribed, Call, Types, Asleep, Idle, Polling
<1>2. /\ tx_q' \in Queue
      /\ tx_q'.avail_idx = tx_q.avail_idx /\ tx_q'.next_avail_idx = tx_q.next_avail_idx
      /\ tx_q'.used_idx = tx_q.used_idx /\ tx_q'.last_used_idx = tx_q.last_used_idx
  BY EntryFields, PostedFacts, SMTT(30) DEF SendDescribed, Types
<1>3. Types'
  BY <1>0, <1>1, <1>2, SMTT(30) DEF Types, SendDescribed
<1>4. Asleep'
  BY <1>1 DEF Asleep, SendDescribed
<1>5. Accounts' /\ Contents'
  BY <1>1, SendStepsReceiveSide, SMTT(30) DEF SendDescribed
<1>6. Owing'
  BY <1>0, <1>1, <1>2, Sizes, ZenonT(30) DEF Owing, SendDescribed
<1>7. InTime'
  <2>1. ~late => unsent = << >> /\ tx_q.used_idx = tx_q.last_used_idx
    BY <1>1 DEF InTime
  <2>2. ~late => card.tx = Nothing
    <3> SUFFICES ASSUME ~late, card.tx # Nothing PROVE FALSE
      OBVIOUS
    <3>1. Between(card.tx_avail, tx_q.avail_idx) + One({card.tx} \ {Nothing}) = 0
      BY <2>1, ZenonT(30) DEF Owing
    <3>2. Between(card.tx_avail, tx_q.avail_idx) \in Idx
      BY CardFields, QueueFields, IndexFacts, ZenonT(30) DEF Types
    <3>3. One({card.tx} \ {Nothing}) = 1
      BY DEF One
    <3> QED  BY <3>1, <3>2, <3>3 DEF Idx
  <2> QED  BY <1>1, <1>2, <2>1, <2>2, SMTT(30) DEF InTime, SendDescribed
<1> QED
  BY <1>3, <1>4, <1>5, <1>6, <1>7

LEMMA OwedFacts ==
  ASSUME Types, Owing
  PROVE  /\ Between(card.tx_avail, tx_q.avail_idx) \in Nat
         /\ card.tx = Nothing => Between(card.tx_avail, tx_q.avail_idx) = Len(unsent)
         /\ card.tx # Nothing => Between(card.tx_avail, tx_q.avail_idx) + 1 = Len(unsent)
         /\ Len(unsent) \in Nat
         /\ unsent # << >> <=> Len(unsent) > 0
         /\ unsent # << >> => unsent[1] = Head(unsent) /\ unsent[1] \in Frame
<1>1. Between(card.tx_avail, tx_q.avail_idx) \in Idx
  BY CardFields, QueueFields, IndexFacts, ZenonT(30) DEF Types
<1>2. /\ card.tx = Nothing => One({card.tx} \ {Nothing}) = 0
      /\ card.tx # Nothing => One({card.tx} \ {Nothing}) = 1
  BY DEF One
<1>3. /\ Len(unsent) \in Nat
      /\ unsent # << >> <=> Len(unsent) > 0
      /\ unsent # << >> => unsent[1] = Head(unsent) /\ unsent[1] \in Frame
  BY DEF Types
<1> QED
  BY <1>1, <1>2, <1>3 DEF Idx, Owing

LEMMA StepPublished ==
  ASSUME IInv, SendPublished
  PROVE  IInv'
<1> USE DEF IInv
<1>0. call.frame \in Frame /\ call # Idle
  BY CallFields DEF SendPublished, Types
<1>1. net_ready /\ call.pc = "publish" /\ call'.pc = "wait" /\ call' \in Call
  BY <1>0 DEF SendPublished, Call, Types, Asleep
<1>2. /\ tx_q' \in Queue
      /\ tx_q'.avail_idx = Next16(tx_q.next_avail_idx)
      /\ tx_q'.next_avail_idx = Next16(tx_q.next_avail_idx)
      /\ tx_q'.used_idx = tx_q.used_idx /\ tx_q'.last_used_idx = tx_q.last_used_idx
  BY BumpFields DEF SendPublished, Types
<1>3. /\ unsent' \in Seq(Frame) /\ Len(unsent') = Len(unsent) + 1
      /\ unsent = << >> => unsent'[1] = call.frame
      /\ unsent' # << >>
  BY <1>0, SMTT(30) DEF SendPublished, Types
<1>4. Types'
  BY <1>1, <1>2, <1>3, ZenonT(30) DEF Types, SendPublished
<1>5. Asleep'
  BY <1>1 DEF Asleep, SendPublished
<1>6. Accounts' /\ Contents'
  BY <1>1, SendStepsReceiveSide, ZenonT(30) DEF SendPublished
<1> DEFINE n == Between(card.tx_avail, tx_q.avail_idx)
<1>7. n \in Nat /\ n <= Len(unsent) /\ Len(unsent) \in Nat /\ Len(unsent) < MaxOwed
  BY <1>1, OwedFacts, SMTT(30) DEF Owing
<1>8. Between(card.tx_avail, Next16(tx_q.avail_idx)) = n + 1
  <2>1. card.tx_avail \in Idx /\ tx_q.avail_idx \in Idx
    BY CardFields, QueueFields, ZenonT(30) DEF Types
  <2>2. n < QSIZE
    BY <1>7, VirtioNetAssumption, SMTT(30)
  <2> QED  BY <2>1, <2>2, Grown, ZenonT(30)
<1>9. Owing'
  <2>1. /\ tx_q.next_avail_idx = tx_q.avail_idx
        /\ n + One({card.tx} \ {Nothing}) = Len(unsent)
        /\ tx_len = call.frame /\ tx_buf = call.frame
    BY <1>1 DEF Owing
  <2>2. One({card.tx} \ {Nothing}) \in {0, 1}
    BY OneFacts
  <2>3. MaxOwed \in Nat
    BY VirtioNetAssumption, SMTT(30)
  <2>4. /\ card' = card /\ tx_len' = tx_len /\ tx_buf' = tx_buf
        /\ tx_len # Nothing
    BY <1>0, <2>1, Sizes, ZenonT(30) DEF SendPublished
  <2>5. Between(card'.tx_avail, tx_q'.avail_idx) = n + 1
    BY <1>2, <1>8, <2>1, <2>4, ZenonT(30)
  <2> HIDE DEF n
  <2>6. n + 1 + One({card.tx} \ {Nothing}) = Len(unsent')
    BY <1>3, <1>7, <2>1, <2>2, SMTT(30)
  <2>7. Len(unsent') <= MaxOwed
    BY <1>3, <1>7, <2>3, SMTT(30)
  <2> QED  BY <1>1, <1>2, <2>4, <2>5, <2>6, <2>7, ZenonT(30) DEF Owing
<1>10. InTime'
  <2> SUFFICES ASSUME ~late PROVE InTime'
    BY DEF InTime, SendPublished
  <2>1. unsent = << >> /\ tx_q.used_idx = tx_q.last_used_idx
    BY <1>1 DEF InTime
  <2>2. Len(unsent) = 0
    BY <2>1
  <2>3. card.tx = Nothing
    BY <1>7, <2>2, OwedFacts, SMTT(30)
  <2>4. tx_buf = call.frame /\ tx_len = call.frame
    BY <1>1 DEF Owing
  <2>5. Len(unsent') = 1
    BY <1>3, <2>2, SMTT(30)
  <2> QED  BY <1>1, <1>2, <1>3, <2>1, <2>3, <2>4, <2>5, ZenonT(30) DEF InTime, SendPublished
<1> QED
  BY <1>4, <1>5, <1>6, <1>9, <1>10

LEMMA StepWaited ==
  ASSUME IInv, SendWaited
  PROVE  IInv'
<1> USE DEF IInv
<1>0. call # Idle
  BY DEF SendWaited, Idle
<1>1. net_ready /\ call.pc = "wait" /\ call'.pc = "idle" /\ call' \in Call
  BY <1>0 DEF SendWaited, Call, Types, Asleep, Idle
<1>2. /\ tx_q' \in Queue
      /\ tx_q'.avail_idx = tx_q.avail_idx /\ tx_q'.next_avail_idx = tx_q.next_avail_idx
      /\ tx_q'.used_idx = tx_q.used_idx /\ tx_q'.last_used_idx = tx_q.used_idx
  <2>1. tx_q.used_idx \in Idx /\ tx_q \in Queue
    BY QueueFields DEF Types
  <2> QED  BY <2>1, TakenFields, ZenonT(30) DEF SendWaited
<1>3. Types'
  BY <1>1, <1>2 DEF Types, SendWaited
<1>4. Asleep'
  BY <1>1 DEF Asleep, SendWaited
<1>5. Accounts' /\ Contents'
  BY <1>1, SendStepsReceiveSide DEF SendWaited
<1>6. Owing'
  BY <1>1, <1>2 DEF Owing, SendWaited
<1>7. InTime'
  <2> SUFFICES ASSUME ~late PROVE InTime'
    BY DEF InTime, SendWaited
  <2>1. Len(unsent) = 0
    BY <1>1 DEF InTime, SendWaited
  <2>2. unsent = << >>
    BY <2>1, OwedFacts, SMTT(30)
  <2> QED  BY <1>1, <1>2, <2>2 DEF InTime, SendWaited
<1> QED
  BY <1>3, <1>4, <1>5, <1>6, <1>7

LEMMA StepSendSpins ==
  ASSUME IInv, SendSpins
  PROVE  IInv'
<1> USE DEF IInv
<1>0. call # Idle /\ call.spins \in Nat
  BY CallFields DEF SendSpins, Idle, Types
<1>1. /\ net_ready /\ call.pc = "wait" /\ call' \in Call
      /\ \/ call'.pc = "wait" /\ late' = late
         \/ call'.pc = "idle" /\ late' = TRUE
  BY <1>0 DEF SendSpins, Call, Types, Asleep, Idle, Polling
<1>2. Types'
  BY <1>1, ZenonT(30) DEF Types, SendSpins
<1>3. Asleep'
  BY <1>1 DEF Asleep, SendSpins
<1>4. Accounts' /\ Contents'
  BY <1>1, SendStepsReceiveSide DEF SendSpins
<1>5. Owing'
  BY <1>1 DEF Owing, SendSpins
<1>6. InTime'
  BY <1>1 DEF InTime, SendSpins
<1> QED
  BY <1>2, <1>3, <1>4, <1>5, <1>6

\* The steps of hal_net_poll_receive() and of rx_post().
LEMMA StepPoll ==
  ASSUME IInv, hal_net_poll_receive \/ PollSpins
  PROVE  IInv'
<1> USE DEF IInv
<1>1. /\ net_ready /\ call.pc \in {"idle", "poll"} /\ call' \in Call
      /\ call'.pc \in {"idle", "poll"}
  <2>1. CASE hal_net_poll_receive
    BY <2>1, ZenonT(30) DEF hal_net_poll_receive, Idle, Call, Polling
  <2>2. CASE PollSpins
    <3>1. call.spins \in Nat /\ call # Idle
      BY <2>2, CallFields, ZenonT(30) DEF PollSpins, Types, Idle
    <3> QED  BY <2>2, <3>1, SMTT(30) DEF PollSpins, Spin, Idle, Call, Polling, Asleep
  <2> QED  BY <2>1, <2>2, ZenonT(30)
<1>2. UNCHANGED <<net_ready, rx_q, tx_q, rx_bufs, tx_buf, tx_len, card, unsent, late>>
  BY DEF hal_net_poll_receive, PollSpins
<1>3. Types'
  BY <1>1, <1>2 DEF Types
<1>4. Asleep'
  BY <1>1, <1>2 DEF Asleep
<1>5. Accounts' /\ Contents'
  BY <1>1, <1>2, SendStepsReceiveSide, ZenonT(30)
<1>6. Owing' /\ InTime'
  BY <1>1, <1>2, SendSideLeftAlone, ZenonT(30)
<1> QED
  BY <1>3, <1>4, <1>5, <1>6, ZenonT(30)

LEMMA StepCopies ==
  ASSUME IInv, PollCopies
  PROVE  IInv'
<1> USE DEF IInv
<1>0. call # Idle /\ call.desc \in Posted
  BY CallFields DEF PollCopies, Idle, Types
<1>1. /\ net_ready /\ call.pc = "copy" /\ call'.pc = "post" /\ call'.desc = call.desc
      /\ call' \in Call
  BY <1>0 DEF PollCopies, Call, Types, Asleep, Idle, Polling
<1>2. Types'
  BY <1>1 DEF Types, PollCopies
<1>3. Asleep'
  BY <1>1 DEF Asleep, PollCopies
<1>4. Accounts' /\ Contents'
  <2>1. InHand' = InHand
    BY <1>1 DEF InHand
  <2> QED  BY <1>1, <2>1, ReceiveSideLeftAlone, ZenonT(30) DEF PollCopies
<1>5. Owing' /\ InTime'
  BY <1>1, SendSideLeftAlone, ZenonT(30) DEF PollCopies
<1> QED
  BY <1>2, <1>3, <1>4, <1>5, ZenonT(30)

LEMMA StepPostsEntry ==
  ASSUME IInv, PostsEntry
  PROVE  IInv'
<1> USE DEF IInv
<1>0. call # Idle /\ call.desc \in Posted /\ card \in Card /\ rx_q \in Queue
  BY CallFields DEF PostsEntry, Idle, Types
<1>1. /\ net_ready /\ call.pc = "post" /\ call'.pc = "bump" /\ call'.desc = call.desc
      /\ call' \in Call
  BY <1>0 DEF PostsEntry, Call, Types, Asleep, Idle, Polling
<1>2. /\ rx_q' \in Queue
      /\ rx_q'.avail_ring = [rx_q.avail_ring EXCEPT ![rx_q.avail_idx % QSIZE] = call.desc]
      /\ rx_q'.avail_idx = rx_q.avail_idx /\ rx_q'.next_avail_idx = rx_q.avail_idx
      /\ rx_q'.used_ring = rx_q.used_ring
      /\ rx_q'.used_idx = rx_q.used_idx /\ rx_q'.last_used_idx = rx_q.last_used_idx
  <2>1. rx_q.next_avail_idx = rx_q.avail_idx
    BY <1>1 DEF Contents
  <2> QED  BY <1>0, <2>1, EntryFields, ZenonT(30) DEF PostsEntry
<1>3. Types'
  BY <1>1, <1>2 DEF Types, PostsEntry
<1>4. Asleep'
  BY <1>1 DEF Asleep, PostsEntry
<1>5. Accounts'
  <2>1. InHand = {call.desc} /\ InHand' = {call.desc} /\ WithCard' = WithCard
    BY <1>1, SMTT(30) DEF InHand, WithCard, PostsEntry
  <2>2. Accounted([rx_q.avail_ring EXCEPT ![rx_q.avail_idx % QSIZE] = call.desc],
                  card.rx_avail, rx_q.avail_idx,
                  Ids(rx_q.used_ring), rx_q.last_used_idx, rx_q.used_idx, {call.desc}, WithCard)
    BY <1>0, <1>1, <2>1, HandWritten, QueueFields, CardFields, ZenonT(30) DEF Accounts
  <2> QED  BY <1>2, <2>1, <2>2 DEF Accounts, PostsEntry
<1>6. Contents'
  <2>1. rx_q'.avail_ring[rx_q'.avail_idx % QSIZE] = call'.desc
    <3>1. rx_q.avail_idx % QSIZE \in Places
      <4>1. rx_q.avail_idx \in Nat
        BY <1>0, QueueFields, SMTT(30) DEF Idx
      <4> QED  BY <4>1, PlaceType, ZenonT(30)
    <3>2. rx_q.avail_ring \in [Places -> Posted]
      BY <1>0, QueueFields, ZenonT(30)
    <3> QED  BY <1>1, <1>2, <3>1, <3>2, ZenonT(30)
  <2>2. Told(rx_bufs, rx_q.used_ring, rx_q.last_used_idx, rx_q.used_idx)
    BY <1>1 DEF Contents
  <2> QED  BY <1>1, <1>2, <2>1, <2>2, ZenonT(30) DEF Contents, PostsEntry
<1>7. Owing' /\ InTime'
  BY <1>1, SendSideLeftAlone, ZenonT(30) DEF PostsEntry
<1> QED
  BY <1>3, <1>4, <1>5, <1>6, <1>7

LEMMA StepPostsIndex ==
  ASSUME IInv, PostsIndex
  PROVE  IInv'
<1> USE DEF IInv
<1>0. /\ call # Idle /\ call.desc \in Posted /\ card \in Card /\ rx_q \in Queue
      /\ call.after \in {Idle} \cup Polling
  BY CallFields, ZenonT(30) DEF PostsIndex, Idle, Types
<1>1. net_ready /\ call.pc = "bump" /\ call'.pc \in {"idle", "poll"} /\ call' \in Call
  BY <1>0 DEF PostsIndex, Call, Asleep, Idle, Polling
<1>2. /\ rx_q' \in Queue
      /\ rx_q'.avail_idx = Next16(rx_q.avail_idx) /\ rx_q'.next_avail_idx = Next16(rx_q.avail_idx)
      /\ rx_q'.avail_ring = rx_q.avail_ring /\ rx_q'.used_ring = rx_q.used_ring
      /\ rx_q'.used_idx = rx_q.used_idx /\ rx_q'.last_used_idx = rx_q.last_used_idx
  <2>1. rx_q.next_avail_idx = rx_q.avail_idx
    BY <1>1 DEF Contents
  <2> QED  BY <1>0, <2>1, BumpFields, ZenonT(30) DEF PostsIndex
<1>3. Types'
  BY <1>1, <1>2, ZenonT(30) DEF Types, PostsIndex
<1>4. Asleep'
  BY <1>1, ZenonT(30) DEF Asleep, PostsIndex
<1>5. Accounts'
  <2>1. InHand = {rx_q.avail_ring[rx_q.avail_idx % QSIZE]} /\ InHand' = {} /\ WithCard' = WithCard
    BY <1>1, ZenonT(30) DEF InHand, WithCard, PostsIndex, Contents
  <2>2. Accounted(rx_q.avail_ring, card.rx_avail, Next16(rx_q.avail_idx),
                  Ids(rx_q.used_ring), rx_q.last_used_idx, rx_q.used_idx, {}, WithCard)
    BY <1>0, <1>1, <2>1, HandToOffered, QueueFields, CardFields, ZenonT(30) DEF Accounts
  <2>3. /\ card' = card /\ rx_q'.avail_ring = rx_q.avail_ring
        /\ rx_q'.avail_idx = Next16(rx_q.avail_idx) /\ rx_q'.used_ring = rx_q.used_ring
        /\ rx_q'.last_used_idx = rx_q.last_used_idx /\ rx_q'.used_idx = rx_q.used_idx
    BY <1>2, ZenonT(30) DEF PostsIndex
  <2> HIDE DEF IInv
  <2>4. Accounted(rx_q'.avail_ring, card'.rx_avail, rx_q'.avail_idx,
                  Ids(rx_q'.used_ring), rx_q'.last_used_idx, rx_q'.used_idx, InHand', WithCard')
    BY <2>1, <2>2, <2>3, ZenonT(60)
  <2> QED  BY <2>4, ZenonT(30) DEF Accounts
<1>6. Contents'
  BY <1>1, <1>2 DEF Contents, PostsIndex
<1>7. Owing' /\ InTime'
  BY <1>1, SendSideLeftAlone, ZenonT(30) DEF PostsIndex
<1> QED
  BY <1>3, <1>4, <1>5, <1>6, <1>7

LEMMA StepTakes ==
  ASSUME IInv, PollTakes
  PROVE  IInv'
<1> USE DEF IInv
<1>0. /\ call # Idle /\ call.spins \in Nat /\ card \in Card /\ rx_q \in Queue
      /\ net_ready /\ call.pc = "poll"
  BY CallFields, ZenonT(30) DEF PollTakes, Idle, Types, Asleep
<1> DEFINE lo == rx_q.last_used_idx
           hi == rx_q.used_idx
           e == rx_q.used_ring[lo % QSIZE]
<1>1. /\ lo \in Idx /\ hi \in Idx /\ lo # hi /\ Next16(lo) \in Idx /\ lo % QSIZE \in Places
      /\ rx_q.used_ring \in [Places -> [id : Posted, len : Frame \cup {Nothing}]]
  <2>1. lo \in Idx /\ hi \in Idx /\ lo # hi /\ lo \in Nat
    BY <1>0, QueueFields, SMTT(30) DEF PollTakes, Idx
  <2> QED  BY <1>0, <2>1, QueueFields, IndexFacts, PlaceType, ZenonT(30)
<1>2. /\ rx_q' \in Queue /\ rx_q'.last_used_idx = Next16(lo)
      /\ rx_q'.avail_idx = rx_q.avail_idx /\ rx_q'.next_avail_idx = rx_q.next_avail_idx
      /\ rx_q'.avail_ring = rx_q.avail_ring /\ rx_q'.used_ring = rx_q.used_ring
      /\ rx_q'.used_idx = rx_q.used_idx
  BY <1>0, <1>1, TakenFields, ZenonT(30) DEF PollTakes
<1>3. e.id \in Posted /\ e.id = Ids(rx_q.used_ring)[lo % QSIZE]
  BY <1>1, ZenonT(30) DEF Ids
<1>4. e.len \in Frame /\ rx_bufs[e.id] = e.len
  <2>1. Told(rx_bufs, rx_q.used_ring, lo, hi)
    BY <1>0 DEF Contents
  <2>2. Between(lo, hi) \in Nat /\ Between(lo, hi) > 0
    BY <1>1, Shrunk, BetweenNat, ZenonT(30)
  <2>3. 0 \in 0 .. Between(lo, hi) - 1 /\ Place(lo, 0) = lo % QSIZE
    BY <1>1, <2>2, PlaceAtEnd, SMTT(30)
  <2> QED  BY <2>1, <2>3, ZenonT(30) DEF Told
<1>5. /\ call'.pc = IF Fits(e.len) THEN "copy" ELSE "post"
      /\ call'.desc = e.id /\ call' \in Call
  <2>1. (IF e.len = Runt THEN Spin(call.spins) ELSE Idle) \in {Idle} \cup Polling
    BY <1>0 DEF Spin, Polling
  <2> QED  BY <1>3, <2>1, ZenonT(30) DEF PollTakes, UsedSlot, Call
<1> HIDE DEF e
<1>6. Types'
  BY <1>2, <1>5 DEF Types, PollTakes
<1>7. Asleep'
  BY <1>0 DEF Asleep, PollTakes
<1>8. Accounts'
  <2>1. InHand = {} /\ InHand' = {e.id} /\ WithCard' = WithCard
    BY <1>0, <1>5, ZenonT(30) DEF InHand, WithCard, PollTakes
  <2>2. Accounted(rx_q.avail_ring, card.rx_avail, rx_q.avail_idx,
                  Ids(rx_q.used_ring), Next16(lo), hi, {Ids(rx_q.used_ring)[lo % QSIZE]}, WithCard)
    BY <1>0, <1>1, <2>1, UsedToHand, QueueFields, CardFields, ZenonT(30) DEF Accounts
  <2> QED  BY <1>2, <1>3, <2>1, <2>2, ZenonT(30) DEF Accounts, PollTakes
<1>9. Contents'
  <2>1. Told(rx_bufs, rx_q.used_ring, Next16(lo), hi)
    <3> SUFFICES ASSUME NEW k \in 0 .. Between(Next16(lo), hi) - 1
                 PROVE  LET u == rx_q.used_ring[Place(Next16(lo), k)]
                        IN  u.len \in Frame /\ rx_bufs[u.id] = u.len
      BY ZenonT(30) DEF Told
    <3>1. Between(Next16(lo), hi) = Between(lo, hi) - 1 /\ Between(lo, hi) \in Nat
      BY <1>1, Shrunk, BetweenNat, ZenonT(30)
    <3>2. k + 1 \in 0 .. Between(lo, hi) - 1 /\ k \in Nat
      BY <3>1, SMTT(30)
    <3>3. Place(Next16(lo), k) = Place(lo, k + 1)
      BY <1>1, <3>2, PlaceAfter, ZenonT(30)
    <3>4. Told(rx_bufs, rx_q.used_ring, lo, hi)
      BY <1>0 DEF Contents
    <3> QED  BY <3>2, <3>3, <3>4, ZenonT(30) DEF Told
  <2>2. call'.pc = "copy" => rx_bufs[call'.desc] \in Frame /\ Fits(rx_bufs[call'.desc])
    BY <1>4, <1>5, SMTT(30)
  <2>3. rx_q.next_avail_idx = rx_q.avail_idx /\ call'.pc # "bump" /\ rx_bufs' = rx_bufs
    BY <1>0, <1>5 DEF Contents, PollTakes
  <2> QED  BY <1>2, <2>1, <2>2, <2>3, ZenonT(30) DEF Contents
<1>10. Owing' /\ InTime'
  BY <1>0, <1>5, SendSideLeftAlone, ZenonT(30) DEF PollTakes
<1> QED
  BY <1>6, <1>7, <1>8, <1>9, <1>10

\* The steps of the card.
LEMMA StepCardTakesBuffer ==
  ASSUME IInv, NEW f \in Frame, CardTakesBuffer(f)
  PROVE  IInv'
<1> USE DEF IInv
<1>0. /\ card \in Card /\ rx_q \in Queue /\ call \in Call /\ net_ready /\ card.rx = NoBuffer
      /\ rx_bufs \in [Posted -> Frame \cup {Garbled, Nothing}]
  BY ZenonT(30) DEF CardTakesBuffer, Types, Asleep
<1> DEFINE lo == card.rx_avail
           hi == rx_q.avail_idx
           d == rx_q.avail_ring[lo % QSIZE]
<1>1. /\ lo \in Idx /\ hi \in Idx /\ lo # hi /\ Next16(lo) \in Idx
      /\ rx_q.last_used_idx \in Idx /\ rx_q.used_idx \in Idx /\ d \in Posted
  <2>1. lo \in Idx /\ hi \in Idx /\ lo # hi /\ lo \in Nat
    BY <1>0, QueueFields, CardFields, SMTT(30) DEF CardTakesBuffer, Idx
  <2> QED  BY <1>0, <2>1, QueueFields, IndexFacts, PlaceType, ZenonT(30)
<1>2. /\ card' \in Card /\ card'.status = card.status
      /\ card'.rx # NoBuffer /\ card'.rx.desc = d /\ card'.rx.frame = f
      /\ card'.rx_avail = Next16(lo) /\ card'.tx_avail = card.tx_avail /\ card'.tx = card.tx
  <2>1. card' = [card EXCEPT !.rx = [desc |-> d, frame |-> f], !.rx_avail = Next16(lo)]
    BY ZenonT(30) DEF CardTakesBuffer
  <2> HIDE DEF d, lo
  <2>2. f \in Frame /\ [desc |-> d, frame |-> f] \in [desc : Posted, frame : Frame]
    BY <1>1, ZenonT(30)
  <2>3. [desc |-> d, frame |-> f] # NoBuffer
    BY Sizes DEF NoBuffer
  <2> DEFINE r == [desc |-> d, frame |-> f]
  <2>4. r.desc = d /\ r.frame = f
    OBVIOUS
  <2> HIDE DEF r
  <2>5. /\ card' \in Card /\ card'.status = card.status /\ card'.rx = r
        /\ card'.rx_avail = Next16(lo) /\ card'.tx_avail = card.tx_avail /\ card'.tx = card.tx
    <3>1. card' = [card EXCEPT !.rx = r, !.rx_avail = Next16(lo)] /\ r \in [desc : Posted, frame : Frame]
      BY <2>1, <2>2 DEF r
    <3> QED  BY <1>0, <1>1, <3>1, ZenonT(30) DEF Card
  <2>6. r # NoBuffer
    BY <2>3 DEF r
  <2> QED  BY <2>4, <2>5, <2>6, ZenonT(30)
<1>3. rx_bufs' = [rx_bufs EXCEPT ![d] = Garbled]
  BY DEF CardTakesBuffer
<1>4. /\ Accounted(rx_q.avail_ring, Next16(lo), hi,
                   Ids(rx_q.used_ring), rx_q.last_used_idx, rx_q.used_idx, InHand, {d})
      /\ d \in Held(rx_q.avail_ring, lo, hi)
  <2>1. WithCard = {}
    BY <1>0 DEF WithCard
  <2>2. Accounted(rx_q.avail_ring, lo, hi,
                  Ids(rx_q.used_ring), rx_q.last_used_idx, rx_q.used_idx, InHand, {})
    BY <1>0, <2>1, ZenonT(30) DEF Accounts
  <2> QED  BY <1>1, <2>2, OfferedToCard, ZenonT(30)
<1>5. d \notin Held(Ids(rx_q.used_ring), rx_q.last_used_idx, rx_q.used_idx) /\ d \notin InHand
  BY <1>4 DEF Accounted
<1> HIDE DEF d
<1>6. Types'
  BY <1>0, <1>1, <1>2, <1>3, ZenonT(30) DEF Types, CardTakesBuffer
<1>7. Asleep'
  BY <1>0, <1>2, ZenonT(30) DEF Asleep, CardTakesBuffer
<1>8. Accounts'
  <2>1. InHand' = InHand /\ WithCard' = {d}
    BY <1>2, ZenonT(30) DEF InHand, WithCard, CardTakesBuffer
  <2> QED  BY <1>2, <1>4, <2>1, ZenonT(30) DEF Accounts, CardTakesBuffer
<1>9. Contents'
  <2>1. Told(rx_bufs', rx_q.used_ring, rx_q.last_used_idx, rx_q.used_idx)
    <3> SUFFICES ASSUME NEW k \in 0 .. Between(rx_q.last_used_idx, rx_q.used_idx) - 1
                 PROVE  LET u == rx_q.used_ring[Place(rx_q.last_used_idx, k)]
                        IN  u.len \in Frame /\ rx_bufs'[u.id] = u.len
      BY ZenonT(30) DEF Told
    <3> DEFINE u == rx_q.used_ring[Place(rx_q.last_used_idx, k)]
    <3>1. u.len \in Frame /\ rx_bufs[u.id] = u.len
      BY <1>0 DEF Told, Contents
    <3>2. Place(rx_q.last_used_idx, k) \in Places
      <4>1. rx_q.last_used_idx \in Nat /\ k \in Nat
        BY <1>1, SMTT(30) DEF Idx
      <4> QED  BY <4>1, PlaceType, ZenonT(30)
    <3>3. u.id \in Posted /\ u.id = Ids(rx_q.used_ring)[Place(rx_q.last_used_idx, k)]
      BY <1>0, <3>2, QueueFields, ZenonT(30) DEF Ids
    <3>4. u.id \in Held(Ids(rx_q.used_ring), rx_q.last_used_idx, rx_q.used_idx)
      BY <3>3, SMTT(30) DEF Held
    <3> QED  BY <1>0, <1>3, <1>5, <3>1, <3>3, <3>4, ZenonT(30)
  <2>2. call.pc = "copy" => rx_bufs'[call.desc] = rx_bufs[call.desc]
    <3>1. call.pc = "copy" => call.desc \in Posted /\ call.desc # d
      BY <1>0, <1>5, CallFields, ZenonT(30) DEF InHand
    <3> QED  BY <1>0, <1>3, <3>1, ZenonT(30)
  <2> QED  BY <1>0, <2>1, <2>2, ZenonT(30) DEF Contents, CardTakesBuffer
<1>10. Owing' /\ InTime'
  BY <1>2, SendSideLeftAlone, ZenonT(30) DEF CardTakesBuffer
<1> QED
  BY <1>6, <1>7, <1>8, <1>9, <1>10, ZenonT(30)

LEMMA StepCardFillsBuffer ==
  ASSUME IInv, CardFillsBuffer
  PROVE  IInv'
<1> USE DEF IInv
<1>0. /\ card \in Card /\ rx_q \in Queue /\ call \in Call /\ net_ready
      /\ rx_bufs \in [Posted -> Frame \cup {Garbled, Nothing}]
  BY DEF CardFillsBuffer, Types, Asleep
<1> DEFINE lo == rx_q.last_used_idx
           hi == rx_q.used_idx
           d == card.rx.desc
           f == card.rx.frame
<1>1. /\ d \in Posted /\ f \in Frame /\ lo \in Idx /\ hi \in Idx
      /\ rx_q.avail_idx \in Idx /\ card.rx_avail \in Idx
      /\ rx_q.used_ring \in [Places -> [id : Posted, len : Frame \cup {Nothing}]]
      /\ Ids(rx_q.used_ring) \in [Places -> Posted]
  BY <1>0, QueueFields, CardFields, ZenonT(30) DEF CardFillsBuffer
<1>2. /\ card' \in Card /\ card'.status = card.status /\ card'.rx = NoBuffer
      /\ card'.rx_avail = card.rx_avail /\ card'.tx_avail = card.tx_avail /\ card'.tx = card.tx
  BY <1>0, CardHasReceived, ZenonT(30) DEF CardFillsBuffer
<1>3. /\ rx_q' \in Queue /\ rx_q'.used_idx = Next16(hi)
      /\ rx_q'.used_ring = [rx_q.used_ring EXCEPT ![hi % QSIZE] = [id |-> d, len |-> f]]
      /\ Ids(rx_q'.used_ring) = [Ids(rx_q.used_ring) EXCEPT ![hi % QSIZE] = d]
      /\ rx_q'.avail_idx = rx_q.avail_idx /\ rx_q'.next_avail_idx = rx_q.next_avail_idx
      /\ rx_q'.avail_ring = rx_q.avail_ring /\ rx_q'.last_used_idx = lo
  <2> DEFINE s == hi % QSIZE
             e == [id |-> d, len |-> f]
             i == Next16(hi)
  <2>1. rx_q' = [rx_q EXCEPT !.used_ring[s] = e, !.used_idx = i]
    BY ZenonT(30) DEF CardFillsBuffer
  <2>2. s \in Places /\ i \in Idx
    <3>1. hi \in Nat
      BY <1>1, SMTT(30) DEF Idx
    <3> QED  BY <1>1, <3>1, PlaceType, IndexFacts, ZenonT(30)
  <2>3. e \in [id : Posted, len : Frame \cup {Nothing}] /\ e.id = d
    BY <1>1
  <2> HIDE DEF s, e, i
  <2> DEFINE new == [rx_q EXCEPT !.used_ring[s] = e, !.used_idx = i]
  <2>4. /\ new \in Queue /\ new.used_idx = i
        /\ new.used_ring = [rx_q.used_ring EXCEPT ![s] = e]
        /\ new.avail_idx = rx_q.avail_idx /\ new.next_avail_idx = rx_q.next_avail_idx
        /\ new.avail_ring = rx_q.avail_ring /\ new.last_used_idx = rx_q.last_used_idx
    BY <1>0, <2>2, <2>3, ZenonT(30) DEF Queue
  <2>5. rx_q' = new
    BY <2>1
  <2> HIDE DEF new
  <2>6. Ids(rx_q'.used_ring) = [Ids(rx_q.used_ring) EXCEPT ![s] = d]
    BY <1>1, <2>2, <2>3, <2>4, <2>5, ZenonT(30) DEF Ids
  <2> QED  BY <2>4, <2>5, <2>6, ZenonT(30) DEF s, e, i
<1>4. rx_bufs' = [rx_bufs EXCEPT ![d] = f]
  BY DEF CardFillsBuffer
<1>5. Accounted(rx_q.avail_ring, card.rx_avail, rx_q.avail_idx,
                Ids(rx_q.used_ring), lo, hi, InHand, {d})
  <2>1. WithCard = {d}
    BY ZenonT(30) DEF WithCard, CardFillsBuffer
  <2> QED  BY <1>0, <2>1 DEF Accounts
<1>6. d \notin Held(Ids(rx_q.used_ring), lo, hi) /\ d \notin InHand
  BY <1>5 DEF Accounted
<1>7. Between(lo, hi) < QSIZE /\ Between(lo, hi) \in Nat
  <2>1. {d} # {}
    OBVIOUS
  <2> HIDE DEF d, lo, hi
  <2> QED  BY <1>1, <1>5, <2>1, RoomInTheRings, BetweenNat, ZenonT(30)
<1> HIDE DEF d, f
<1>8. Types'
  <2>1. rx_bufs' \in [Posted -> Frame \cup {Garbled, Nothing}]
    BY <1>0, <1>1, <1>4, ZenonT(30)
  <2> QED  BY <1>2, <1>3, <2>1, ZenonT(30) DEF Types, CardFillsBuffer
<1>9. Asleep'
  BY <1>0, <1>2, ZenonT(30) DEF Asleep, CardFillsBuffer
<1>10. Accounts'
  <2>1. InHand' = InHand /\ WithCard' = {}
    BY <1>2, SMTT(30) DEF InHand, WithCard, CardFillsBuffer
  <2>2. Accounted(rx_q.avail_ring, card.rx_avail, rx_q.avail_idx,
                  [Ids(rx_q.used_ring) EXCEPT ![hi % QSIZE] = d], lo, Next16(hi), InHand, {})
    BY <1>1, <1>5, CardToUsed, ZenonT(30)
  <2> QED  BY <1>2, <1>3, <2>1, <2>2, ZenonT(30) DEF Accounts
<1>11. Contents'
  <2> DEFINE new == [rx_q.used_ring EXCEPT ![hi % QSIZE] = [id |-> d, len |-> f]]
  <2>1. /\ \A k \in 0 .. Between(lo, hi) - 1 :
             new[Place(lo, k)] = rx_q.used_ring[Place(lo, k)]
        /\ new[hi % QSIZE] = [id |-> d, len |-> f]
        /\ Held(new, lo, hi) = Held(rx_q.used_ring, lo, hi)
        /\ Once(new, lo, hi) <=> Once(rx_q.used_ring, lo, hi)
    <3> HIDE DEF lo, hi
    <3> QED  BY <1>1, <1>7, EntryOutside, ZenonT(30)
  <2>2. Between(lo, Next16(hi)) = Between(lo, hi) + 1
    BY <1>1, <1>7, Grown, ZenonT(30)
  <2>3. new[Place(lo, Between(lo, hi))] = [id |-> d, len |-> f]
    BY <1>1, <2>1, PlaceAtEnd, ZenonT(30)
  <2> HIDE DEF new
  <2>4. Told(rx_bufs', new, lo, Next16(hi))
    <3> SUFFICES ASSUME NEW k \in 0 .. Between(lo, Next16(hi)) - 1
                 PROVE  LET u == new[Place(lo, k)] IN u.len \in Frame /\ rx_bufs'[u.id] = u.len
      BY ZenonT(30) DEF Told
    <3>1. CASE k \in 0 .. Between(lo, hi) - 1
      <4> DEFINE u == rx_q.used_ring[Place(lo, k)]
      <4>1. u.len \in Frame /\ rx_bufs[u.id] = u.len /\ new[Place(lo, k)] = u
        BY <1>0, <2>1, <3>1, ZenonT(30) DEF Told, Contents
      <4>2. Place(lo, k) \in Places
        <5>1. lo \in Nat /\ k \in Nat
          BY <1>1, <3>1, SMTT(30) DEF Idx
        <5> QED  BY <5>1, PlaceType, ZenonT(30)
      <4>3. u.id \in Posted /\ u.id = Ids(rx_q.used_ring)[Place(lo, k)]
        BY <1>1, <4>2, ZenonT(30) DEF Ids
      <4>4. u.id \in Held(Ids(rx_q.used_ring), lo, hi)
        BY <3>1, <4>3, ZenonT(30) DEF Held
      <4> QED  BY <1>0, <1>4, <1>6, <4>1, <4>3, <4>4, ZenonT(30)
    <3>2. CASE k = Between(lo, hi)
      <4>1. rx_bufs'[d] = f
        BY <1>0, <1>1, <1>4, ZenonT(30)
      <4>2. new[Place(lo, k)] = [id |-> d, len |-> f]
        BY <2>3, <3>2, ZenonT(30)
      <4>3. new[Place(lo, k)].id = d /\ new[Place(lo, k)].len = f
        <5> HIDE DEF lo, hi
        <5> QED  BY <4>2, SMTT(30), ZenonT(30)
      <4> QED  BY <1>1, <4>1, <4>3, ZenonT(30)
    <3>3. k \in 0 .. Between(lo, hi) - 1 \/ k = Between(lo, hi)
      <4> HIDE DEF lo, hi
      <4> QED  BY <1>7, <2>2, SMTT(30)
    <3> QED  BY <3>1, <3>2, <3>3, ZenonT(30)
  <2>5. call.pc = "copy" => rx_bufs'[call.desc] = rx_bufs[call.desc]
    <3>1. call.pc = "copy" => call.desc \in Posted /\ call.desc # d
      BY <1>0, <1>6, CallFields, ZenonT(30) DEF InHand
    <3> QED  BY <1>0, <1>4, <3>1, ZenonT(30)
  <2> QED  BY <1>0, <1>3, <2>4, <2>5, ZenonT(30) DEF Contents, CardFillsBuffer, new
<1>12. Owing' /\ InTime'
  BY <1>2, SendSideLeftAlone, ZenonT(30) DEF CardFillsBuffer
<1> QED
  BY <1>8, <1>9, <1>10, <1>11, <1>12

LEMMA StepCardTakesFrame ==
  ASSUME IInv, CardTakesFrame
  PROVE  IInv'
<1> USE DEF IInv
<1>0. /\ card \in Card /\ tx_q \in Queue /\ net_ready /\ card.tx = Nothing
      /\ card.tx_avail \in Idx /\ tx_q.avail_idx \in Idx /\ card.tx_avail # tx_q.avail_idx
      /\ tx_len \in Frame \cup {Nothing}
  BY CardFields, QueueFields, ZenonT(30) DEF CardTakesFrame, Types, Asleep
<1> DEFINE n == Between(card.tx_avail, tx_q.avail_idx)
<1>1. n \in Nat /\ n > 0 /\ Between(Next16(card.tx_avail), tx_q.avail_idx) = n - 1
  BY <1>0, Shrunk, BetweenNat, ZenonT(30)
<1>2. Next16(card.tx_avail) \in Idx
  BY <1>0, IndexFacts
<1>3. /\ card' \in Card /\ card'.status = card.status /\ card'.rx = card.rx
      /\ card'.rx_avail = card.rx_avail /\ card'.tx_avail = Next16(card.tx_avail)
      /\ card'.tx = tx_len
  <2>1. card' = [card EXCEPT !.tx = tx_len, !.tx_avail = Next16(card.tx_avail)]
    BY DEF CardTakesFrame
  <2> QED  BY <1>0, <1>2, <2>1, ZenonT(30) DEF Card
<1>4. Len(unsent) = n /\ unsent # << >>
  BY <1>0, <1>1, OwedFacts, ZenonT(30)
<1>5. tx_len # Nothing
  BY <1>4 DEF Owing
<1> HIDE DEF n
<1>6. Types'
  BY <1>3 DEF Types, CardTakesFrame
<1>7. Asleep'
  BY <1>0, <1>3 DEF Asleep, CardTakesFrame
<1>8. Accounts' /\ Contents'
  <2>1. InHand' = InHand
    BY DEF InHand, CardTakesFrame
  <2> QED  BY <1>0, <1>3, <2>1, ReceiveSideLeftAlone, ZenonT(30) DEF CardTakesFrame
<1>9. Owing'
  <2>1. One({card'.tx} \ {Nothing}) = 1
    BY <1>3, <1>5 DEF One
  <2>2. Between(card'.tx_avail, tx_q'.avail_idx) = n - 1
    BY <1>1, <1>3 DEF CardTakesFrame
  <2>3. Between(card'.tx_avail, tx_q'.avail_idx) + One({card'.tx} \ {Nothing}) = Len(unsent')
    BY <1>1, <1>4, <2>1, <2>2, SMTT(30) DEF CardTakesFrame
  <2> QED  BY <2>3 DEF Owing, CardTakesFrame
<1>10. InTime'
  BY <1>3, ZenonT(30) DEF InTime, CardTakesFrame
<1> QED
  BY <1>6, <1>7, <1>8, <1>9, <1>10

LEMMA StepCardSends ==
  ASSUME IInv, CardSends
  PROVE  IInv'
<1> USE DEF IInv
<1>0. /\ card \in Card /\ tx_q \in Queue /\ net_ready /\ card.tx # Nothing
      /\ tx_q.used_idx \in Idx /\ Next16(tx_q.used_idx) \in Idx
      /\ Next16(tx_q.used_idx) # tx_q.used_idx
  BY QueueFields, IndexFacts, ZenonT(30) DEF CardSends, Types, Asleep
<1>1. /\ card' \in Card /\ card'.status = card.status /\ card'.rx = card.rx
      /\ card'.rx_avail = card.rx_avail /\ card'.tx_avail = card.tx_avail /\ card'.tx = Nothing
  BY <1>0, CardHasSent DEF CardSends
<1>2. /\ tx_q' \in Queue /\ tx_q'.used_idx = Next16(tx_q.used_idx)
      /\ tx_q'.avail_idx = tx_q.avail_idx /\ tx_q'.next_avail_idx = tx_q.next_avail_idx
      /\ tx_q'.last_used_idx = tx_q.last_used_idx
  BY <1>0, UsedFields, ZenonT(30) DEF CardSends
<1> DEFINE n == Between(card.tx_avail, tx_q.avail_idx)
<1>3. n \in Nat /\ Len(unsent) = n + 1 /\ unsent # << >> /\ MaxOwed \in Nat
  BY <1>0, OwedFacts, VirtioNetAssumption
<1>4. unsent' \in Seq(Frame) /\ Len(unsent') = n
  BY <1>3 DEF CardSends, Types
<1>5. Types'
  BY <1>1, <1>2, <1>4, ZenonT(30) DEF Types, CardSends
<1>6. Asleep'
  BY <1>0, <1>1 DEF Asleep, CardSends
<1>7. Accounts' /\ Contents'
  <2>1. InHand' = InHand
    BY DEF InHand, CardSends
  <2> QED  BY <1>0, <1>1, <2>1, ReceiveSideLeftAlone, ZenonT(30) DEF CardSends
<1>8. Owing'
  <2>1. One({card'.tx} \ {Nothing}) = 0
    BY <1>1, ZenonT(30) DEF One
  <2>2. Between(card'.tx_avail, tx_q'.avail_idx) = n
    BY <1>1, <1>2, ZenonT(30)
  <2> HIDE DEF n
  <2>3. Between(card'.tx_avail, tx_q'.avail_idx) + One({card'.tx} \ {Nothing}) = Len(unsent')
    BY <1>3, <1>4, <2>1, <2>2, SMTT(30)
  <2>4. Len(unsent) <= MaxOwed /\ (call.pc \in {"fill", "describe", "publish"} => Len(unsent) < MaxOwed)
    BY DEF Owing
  <2>5. Len(unsent') <= MaxOwed /\ (call.pc \in {"fill", "describe", "publish"} => Len(unsent') < MaxOwed)
    BY <1>3, <1>4, <2>4, SMTT(30)
  <2> QED  BY <1>2, <1>3, <2>3, <2>5, ZenonT(30) DEF Owing, CardSends
<1>9. InTime'
  <2> SUFFICES ASSUME ~late PROVE InTime'
    BY DEF InTime, CardSends
  <2>1. call.pc = "wait" /\ Len(unsent) = 1 /\ tx_q.used_idx = tx_q.last_used_idx
    BY <1>3 DEF InTime
  <2>2. unsent \in Seq(Frame) /\ unsent' = Tail(unsent)
    BY DEF CardSends, Types
  <2>3. unsent' = << >>
    BY <2>1, <2>2
  <2> QED  BY <1>0, <1>1, <1>2, <2>1, <2>3, ZenonT(30) DEF InTime, CardSends
<1> QED
  BY <1>5, <1>6, <1>7, <1>8, <1>9

LEMMA Step == IInv /\ [Next]_vars => IInv'
<1> SUFFICES ASSUME IInv, [Next]_vars PROVE IInv'
  OBVIOUS
<1>1. CASE UNCHANGED vars
  <2>1. Types' /\ Asleep'
    BY <1>1, ZenonT(30) DEF IInv, vars, Types, Asleep
  <2>2. (net_ready => Accounts)'
    BY <1>1, ZenonT(30) DEF IInv, vars, Accounts, InHand, WithCard
  <2>3. Contents'
    BY <1>1, ZenonT(30) DEF IInv, vars, Contents
  <2>4. Owing' /\ InTime'
    BY <1>1, ZenonT(30) DEF IInv, vars, Owing, InTime
  <2> QED  BY <2>1, <2>2, <2>3, <2>4, ZenonT(30) DEF IInv
<1>2. CASE Driver
  BY <1>2, StepFilled, StepDescribed, StepPublished, StepWaited, StepSendSpins,
     StepPoll, StepTakes, StepCopies, StepPostsEntry, StepPostsIndex, ZenonT(30) DEF Driver
<1>3. CASE hal_net_init \/ hal_net_init_fails \/ hal_net_poll_receive
  BY <1>3, StepInit, StepInitFails, StepPoll, ZenonT(30)
<1>4. CASE \E f \in Frame \ {Runt, Jumbo} : hal_net_send(f)
  BY <1>4, StepSend
<1>5. CASE \E f \in Frame : CardTakesBuffer(f)
  BY <1>5, StepCardTakesBuffer
<1>6. CASE CardFillsBuffer \/ CardTakesFrame \/ CardSends
  BY <1>6, StepCardFillsBuffer, StepCardTakesFrame, StepCardSends, ZenonT(30)
<1>7. Refused => UNCHANGED vars
  BY DEF Refused
<1> QED
  BY <1>1, <1>2, <1>3, <1>4, <1>5, <1>6, <1>7, ZenonT(30) DEF Next

LEMMA Invariance == Spec => []IInv
<1> QED
  BY Initially, Step, PTL DEF Spec

-----------------------------------------------------------------------------
\* What follows of each buffer: the entries that hold it are one or none.
Hits(ring, lo, hi, d) == {k \in 0 .. Between(lo, hi) - 1 : ring[Place(lo, k)] = d}

LEMMA HeldOnce ==
  ASSUME NEW ring, NEW lo \in Idx, NEW hi \in Idx, NEW d, Once(ring, lo, hi)
  PROVE  Cardinality(Hits(ring, lo, hi, d)) = IF d \in Held(ring, lo, hi) THEN 1 ELSE 0
<1> USE DEF Hits
<1> DEFINE T == {k \in 0 .. Between(lo, hi) - 1 : ring[Place(lo, k)] = d}
<1>1. CASE d \in Held(ring, lo, hi)
  <2>1. PICK k \in 0 .. Between(lo, hi) - 1 : ring[Place(lo, k)] = d
    BY <1>1, SMTT(30) DEF Held
  <2>2. T = {k}
    BY <2>1, SMTT(30) DEF Once
  <2> QED  BY <1>1, <2>2, FS_Singleton, ZenonT(30)
<1>2. CASE d \notin Held(ring, lo, hi)
  <2>1. T = {}
    BY <1>2, ZenonT(30) DEF Held
  <2> QED  BY <1>2, <2>1, FS_EmptySet, ZenonT(30)
<1> QED
  BY <1>1, <1>2, ZenonT(30)

LEMMA AccountsAddUp == IInv => BuffersAccounted
<1> SUFFICES ASSUME IInv, net_ready, NEW d \in Posted
             PROVE  Cardinality(Offered(d)) + Cardinality(Used(d))
                      + Cardinality({d} \cap InHand) + Cardinality({d} \cap WithCard) = 1
  BY ZenonT(30) DEF BuffersAccounted
<1> DEFINE off == Held(rx_q.avail_ring, card.rx_avail, rx_q.avail_idx)
           usd == Held(Ids(rx_q.used_ring), rx_q.last_used_idx, rx_q.used_idx)
<1>1. /\ card.rx_avail \in Idx /\ rx_q.avail_idx \in Idx
      /\ rx_q.last_used_idx \in Idx /\ rx_q.used_idx \in Idx
  BY QueueFields, CardFields DEF IInv, Types
<1>2. /\ Once(rx_q.avail_ring, card.rx_avail, rx_q.avail_idx)
      /\ Once(Ids(rx_q.used_ring), rx_q.last_used_idx, rx_q.used_idx)
      /\ off \cap usd = {} /\ off \cap (InHand \cup WithCard) = {}
      /\ usd \cap (InHand \cup WithCard) = {} /\ InHand \cap WithCard = {}
      /\ off \cup usd \cup InHand \cup WithCard = Posted
  BY ZenonT(30) DEF IInv, Accounts, Accounted
<1>3. Cardinality(Offered(d)) = IF d \in off THEN 1 ELSE 0
  <2>1. Offered(d) = Hits(rx_q.avail_ring, card.rx_avail, rx_q.avail_idx, d)
    BY ZenonT(30) DEF Offered, Place, Hits
  <2> QED  BY <1>1, <1>2, <2>1, HeldOnce, ZenonT(30)
<1>4. Cardinality(Used(d)) = IF d \in usd THEN 1 ELSE 0
  <2>1. \A k \in 0 .. Between(rx_q.last_used_idx, rx_q.used_idx) - 1 :
          Place(rx_q.last_used_idx, k) \in Places
    <3>1. rx_q.last_used_idx \in Nat /\ Between(rx_q.last_used_idx, rx_q.used_idx) \in Nat
      BY <1>1, BetweenNat, SMTT(30) DEF Idx
    <3> QED  BY <3>1, PlaceType, SMTT(30)
  <2>2. \A k \in 0 .. Between(rx_q.last_used_idx, rx_q.used_idx) - 1 :
          Ids(rx_q.used_ring)[Place(rx_q.last_used_idx, k)] =
            rx_q.used_ring[Place(rx_q.last_used_idx, k)].id
    BY <2>1, ZenonT(30) DEF Ids
  <2>3. Used(d) = Hits(Ids(rx_q.used_ring), rx_q.last_used_idx, rx_q.used_idx, d)
    <3>1. Used(d) = {k \in 0 .. Between(rx_q.last_used_idx, rx_q.used_idx) - 1 :
                       rx_q.used_ring[Place(rx_q.last_used_idx, k)].id = d}
      BY ZenonT(30) DEF Used, Place
    <3> QED  BY <2>2, <3>1, ZenonT(30) DEF Hits
  <2> QED  BY <1>1, <1>2, <2>3, HeldOnce, ZenonT(30)
<1>5. \A S : Cardinality({d} \cap S) = IF d \in S THEN 1 ELSE 0
  <2> SUFFICES ASSUME NEW S PROVE Cardinality({d} \cap S) = IF d \in S THEN 1 ELSE 0
    BY SMTT(30)
  <2>1. CASE d \in S
    <3>1. {d} \cap S = {d}
      BY <2>1, ZenonT(30)
    <3> QED  BY <2>1, <3>1, FS_Singleton, ZenonT(30)
  <2>2. CASE d \notin S
    <3>1. {d} \cap S = {}
      BY <2>2, SMTT(30)
    <3> QED  BY <2>2, <3>1, FS_EmptySet, ZenonT(30)
  <2> QED  BY <2>1, <2>2, ZenonT(30)
<1> HIDE DEF off, usd
<1>6. /\ Cardinality({d} \cap InHand) = IF d \in InHand THEN 1 ELSE 0
      /\ Cardinality({d} \cap WithCard) = IF d \in WithCard THEN 1 ELSE 0
  BY <1>5
<1> QED
  BY <1>2, <1>3, <1>4, <1>6

\* A receive buffer is in one place at a time and never lost, whatever the number
\* of buffers, the size of the ring and the place where its indices wrap around:
\* hal_net_poll_receive() reads no buffer that the card may write, and rx_post()
\* gives back each one it took.
THEOREM BuffersStayAccounted == Spec => []BuffersAccounted
<1> QED
  BY Invariance, AccountsAddUp, PTL

\* Until a send has run out of spins, the buffer and the descriptor that the card
\* works from are those of the oldest frame that hal_net_send() was given and the
\* card has not sent.
THEOREM FramesSentAsGiven == Spec => []SentAsGiven
<1>1. IInv => SentAsGiven
  <2> SUFFICES ASSUME IInv, card.tx # Nothing, ~late
               PROVE  tx_buf = Head(unsent) /\ card.tx = Head(unsent)
    BY DEF SentAsGiven
  <2>1. Types /\ Owing
    BY DEF IInv
  <2>2. unsent # << >> /\ unsent[1] = Head(unsent)
    BY <2>1, OwedFacts, SMTT(30)
  <2> QED  BY <2>2 DEF IInv, InTime
<1> QED
  BY <1>1, Invariance, PTL

-----------------------------------------------------------------------------
\* The receive side as a queue.  What waits are the frames that the used entries
\* tell the length of, and, ahead of them, the one being copied.
Lens(used, lo, hi) == [k \in 1 .. Between(lo, hi) |-> used[Place(lo, k - 1)].len]
Frames(bufs, used, lo, hi) ==
  [k \in 1 .. Between(lo, hi) |-> bufs[used[(lo + k - 1) % QSIZE].id]]
Copied == IF call.pc = "copy" THEN <<rx_bufs[call.desc]>> ELSE << >>
Queued == Copied \o Waiting

LEMMA LensFacts ==
  ASSUME NEW bufs, NEW used, NEW lo \in Idx, NEW hi \in Idx, Told(bufs, used, lo, hi)
  PROVE  /\ Frames(bufs, used, lo, hi) = Lens(used, lo, hi)
         /\ Lens(used, lo, hi) \in Seq(Frame)
         /\ Len(Lens(used, lo, hi)) = Between(lo, hi)
<1> DEFINE n == Between(lo, hi)
<1>1. n \in Nat /\ lo \in Nat
  BY BetweenNat DEF Idx
<1> HIDE DEF n
<1>2. ASSUME NEW k \in 1 .. n
      PROVE  /\ bufs[used[(lo + k - 1) % QSIZE].id] = used[Place(lo, k - 1)].len
             /\ used[Place(lo, k - 1)].len \in Frame
  <2>1. lo + k - 1 = lo + (k - 1) /\ k - 1 \in 0 .. n - 1
    BY <1>1, SMTT(30)
  <2> QED  BY <2>1 DEF Told, Place, n
<1>3. [k \in 1 .. n |-> bufs[used[(lo + k - 1) % QSIZE].id]] = [k \in 1 .. n |-> used[Place(lo, k - 1)].len]
  BY <1>2, ZenonT(30)
<1>4. /\ [k \in 1 .. n |-> used[Place(lo, k - 1)].len] \in Seq(Frame)
      /\ Len([k \in 1 .. n |-> used[Place(lo, k - 1)].len]) = n
  BY <1>1, <1>2, SMTT(30)
<1> QED
  BY <1>3, <1>4, ZenonT(30) DEF Lens, Frames, n

LEMMA TailIs ==
  ASSUME NEW S, NEW s \in Seq(S), s # << >>
  PROVE  Tail(s) = [k \in 1 .. Len(s) - 1 |-> s[k + 1]]
<1>1. /\ Tail(s) \in Seq(S) /\ Len(Tail(s)) = Len(s) - 1
      /\ \A i \in 1 .. Len(Tail(s)) : Tail(s)[i] = s[i + 1]
  BY HeadTailProperties
<1> DEFINE t == Tail(s)
<1>2. t = [k \in 1 .. Len(t) |-> t[k]]
  <2> HIDE DEF t
  <2>1. t \in Seq(S)
    BY <1>1, ZenonT(30) DEF t
  <2> QED  BY <2>1
<1> QED
  BY <1>1, <1>2

LEMMA LensTail ==
  ASSUME NEW used, NEW lo \in Idx, NEW hi \in Idx, lo # hi, Lens(used, lo, hi) \in Seq(Frame)
  PROVE  /\ Lens(used, lo, hi) # << >>
         /\ Head(Lens(used, lo, hi)) = used[lo % QSIZE].len
         /\ Tail(Lens(used, lo, hi)) = Lens(used, Next16(lo), hi)
<1> DEFINE n == Between(lo, hi)
<1>1. n \in Nat /\ n > 0 /\ Between(Next16(lo), hi) = n - 1
  BY BetweenNat, Shrunk, ZenonT(30)
<1>2. Place(lo, 0) = lo % QSIZE
  BY PlaceAtEnd, ZenonT(30)
<1>3. \A k \in 1 .. n - 1 : Place(lo, (k + 1) - 1) = Place(Next16(lo), k - 1)
  <2> SUFFICES ASSUME NEW k \in 1 .. n - 1
               PROVE  Place(lo, (k + 1) - 1) = Place(Next16(lo), k - 1)
    OBVIOUS
  <2>1. k - 1 \in Nat /\ (k - 1) + 1 = (k + 1) - 1
    BY <1>1, SMTT(30)
  <2> QED  BY <2>1, PlaceAfter, ZenonT(30)
<1> HIDE DEF n
<1> DEFINE s == Lens(used, lo, hi)
<1>4. s = [k \in 1 .. n |-> used[Place(lo, k - 1)].len]
  BY DEF Lens, n
<1>5. Len(s) = n /\ s # << >> /\ Head(s) = used[lo % QSIZE].len
  <2>1. s[1] = used[Place(lo, 0)].len
    BY <1>1, <1>4, SMTT(30)
  <2>2. Len(s) = n
    BY <1>1, <1>4, SMTT(30)
  <2> QED  BY <1>1, <1>2, <2>1, <2>2, SMTT(30)
<1>6. Tail(s) = [k \in 1 .. n - 1 |-> s[k + 1]]
  <2>1. s \in Seq(Frame)
    OBVIOUS
  <2> HIDE DEF s
  <2>2. Tail(s) = [k \in 1 .. Len(s) - 1 |-> s[k + 1]]
    BY <1>5, <2>1, TailIs, ZenonT(30)
  <2> QED  BY <1>5, <2>2, ZenonT(30)
<1>7. Tail(s) = [k \in 1 .. n - 1 |-> used[Place(lo, (k + 1) - 1)].len]
  BY <1>1, <1>4, <1>6, SMTT(30)
<1>8. Tail(s) = [k \in 1 .. n - 1 |-> used[Place(Next16(lo), k - 1)].len]
  BY <1>3, <1>7, ZenonT(30)
<1>9. Lens(used, Next16(lo), hi) = [k \in 1 .. n - 1 |-> used[Place(Next16(lo), k - 1)].len]
  BY <1>1, SMTT(30) DEF Lens
<1> QED
  BY <1>5, <1>8, <1>9, ZenonT(30)

LEMMA AppendEntries ==
  ASSUME NEW S, NEW s \in Seq(S), NEW x
  PROVE  Append(s, x) = [k \in 1 .. Len(s) + 1 |-> IF k = Len(s) + 1 THEN x ELSE s[k]]
<1> DEFINE a == Append(s, x)
<1>0. s \in Seq(S \cup {x}) /\ x \in S \cup {x}
  BY SeqMonotonic
<1>1. /\ a \in Seq(S \cup {x}) /\ Len(a) = Len(s) + 1 /\ Len(s) \in Nat
      /\ \A i \in 1 .. Len(s) : a[i] = s[i]
      /\ a[Len(s) + 1] = x
  BY <1>0, AppendProperties, LenProperties
<1> HIDE DEF a
<1>2. a = [k \in 1 .. Len(s) + 1 |-> a[k]]
  BY <1>1
<1>3. \A k \in 1 .. Len(s) + 1 : a[k] = IF k = Len(s) + 1 THEN x ELSE s[k]
  BY <1>1
<1> QED
  BY <1>2, <1>3, ZenonT(30) DEF a

LEMMA LensAppend ==
  ASSUME NEW used \in [Places -> [id : Posted, len : Frame \cup {Nothing}]],
         NEW lo \in Idx, NEW hi \in Idx, Between(lo, hi) < QSIZE,
         NEW e, Lens(used, lo, hi) \in Seq(Frame)
  PROVE  Lens([used EXCEPT ![hi % QSIZE] = e], lo, Next16(hi)) = Append(Lens(used, lo, hi), e.len)
<1> DEFINE n == Between(lo, hi)
           new == [used EXCEPT ![hi % QSIZE] = e]
<1>1. n \in Nat /\ Between(lo, Next16(hi)) = n + 1
  BY BetweenNat, Grown
<1>2. /\ \A k \in 0 .. n - 1 : new[Place(lo, k)] = used[Place(lo, k)]
      /\ new[hi % QSIZE] = e
      /\ Held(new, lo, hi) = Held(used, lo, hi)
      /\ Once(new, lo, hi) <=> Once(used, lo, hi)
  BY EntryOutside, ZenonT(30)
<1>3. new[Place(lo, n)] = e
  BY <1>2, PlaceAtEnd, ZenonT(30)
<1> HIDE DEF new
<1> DEFINE s == Lens(used, lo, hi)
<1>4. Len(s) = n /\ \A k \in 1 .. n : s[k] = used[Place(lo, k - 1)].len
  <2> HIDE DEF n
  <2>1. s = [k \in 1 .. n |-> used[Place(lo, k - 1)].len]
    BY DEF Lens, n
  <2> QED  BY <1>1, <2>1, SMTT(30)
<1>5. Lens(new, lo, Next16(hi)) = [k \in 1 .. n + 1 |-> new[Place(lo, k - 1)].len]
  BY <1>1, ZenonT(30) DEF Lens
<1> HIDE DEF n, s
<1>6. Append(s, e.len) = [k \in 1 .. n + 1 |-> IF k = n + 1 THEN e.len ELSE s[k]]
  <2>1. s \in Seq(Frame) /\ Len(s) = n
    BY <1>4, ZenonT(30) DEF s
  <2>2. Append(s, e.len) = [k \in 1 .. Len(s) + 1 |-> IF k = Len(s) + 1 THEN e.len ELSE s[k]]
    BY <2>1, AppendEntries, ZenonT(30)
  <2> QED  BY <2>1, <2>2, ZenonT(30)
<1>7. \A k \in 1 .. n + 1 : new[Place(lo, k - 1)].len = IF k = n + 1 THEN e.len ELSE s[k]
  <2> SUFFICES ASSUME NEW k \in 1 .. n + 1
               PROVE  new[Place(lo, k - 1)].len = IF k = n + 1 THEN e.len ELSE s[k]
    BY ZenonT(30)
  <2>1. CASE k = n + 1
    <3>1. k - 1 = n
      BY <1>1, <2>1, SMTT(30)
    <3> QED  BY <1>3, <2>1, <3>1, ZenonT(30)
  <2>2. CASE k # n + 1
    <3>1. k \in 1 .. n /\ k - 1 \in 0 .. n - 1
      BY <1>1, <2>2, SMTT(30)
    <3> QED  BY <1>2, <1>4, <2>2, <3>1, ZenonT(30)
  <2> QED  BY <2>1, <2>2, ZenonT(30)
<1> QED
  BY <1>5, <1>6, <1>7, ZenonT(30) DEF s, new

\* Sequences.
LEMMA SeqFacts ==
  ASSUME NEW S, NEW s \in Seq(S), NEW x \in S
  PROVE  /\ << >> \o s = s
         /\ <<x>> \o s \in Seq(S) /\ <<x>> \o s # << >>
         /\ Len(<<x>> \o s) = Len(s) + 1
         /\ Head(<<x>> \o s) = x /\ Tail(<<x>> \o s) = s
         /\ s # << >> => <<Head(s)>> \o Tail(s) = s
OBVIOUS

LEMMA AppendBehind ==
  ASSUME NEW S, NEW t \in Seq(S), NEW s \in Seq(S), NEW x \in S
  PROVE  t \o Append(s, x) = Append(t \o s, x) /\ Len(t \o s) = Len(t) + Len(s)
BY SMTT(30)

LEMMA QueuedFacts ==
  ASSUME IInv
  PROVE  /\ rx_q.last_used_idx \in Idx /\ rx_q.used_idx \in Idx
         /\ Waiting = Lens(rx_q.used_ring, rx_q.last_used_idx, rx_q.used_idx)
         /\ Waiting \in Seq(Frame)
         /\ Len(Waiting) = Between(rx_q.last_used_idx, rx_q.used_idx)
         /\ Copied \in Seq(Frame)
         /\ call.pc # "copy" => Copied = << >> /\ Queued = Waiting
<1>1. rx_q.last_used_idx \in Idx /\ rx_q.used_idx \in Idx
  BY QueueFields, ZenonT(30) DEF IInv, Types
<1>2. Told(rx_bufs, rx_q.used_ring, rx_q.last_used_idx, rx_q.used_idx)
  BY DEF IInv, Contents
<1>3. /\ Waiting = Lens(rx_q.used_ring, rx_q.last_used_idx, rx_q.used_idx)
      /\ Waiting \in Seq(Frame)
      /\ Len(Waiting) = Between(rx_q.last_used_idx, rx_q.used_idx)
  <2> DEFINE lo == rx_q.last_used_idx
             hi == rx_q.used_idx
             used == rx_q.used_ring
  <2>1. Waiting = Frames(rx_bufs, used, lo, hi)
    BY DEF Waiting, Frames
  <2>2. lo \in Idx /\ hi \in Idx /\ Told(rx_bufs, used, lo, hi)
    BY <1>1, <1>2
  <2> HIDE DEF lo, hi, used
  <2>3. /\ Frames(rx_bufs, used, lo, hi) = Lens(used, lo, hi)
        /\ Lens(used, lo, hi) \in Seq(Frame)
        /\ Len(Lens(used, lo, hi)) = Between(lo, hi)
    BY <2>2, LensFacts, ZenonT(30)
  <2> QED  BY <2>1, <2>3, ZenonT(30) DEF lo, hi, used
<1>4. Copied \in Seq(Frame)
  BY SMTT(30) DEF Copied, IInv, Contents
<1>5. call.pc # "copy" => Copied = << >> /\ Queued = Waiting
  BY <1>3 DEF Copied, Queued
<1> QED
  BY <1>1, <1>3, <1>4, <1>5, ZenonT(30)

LEMMA QueuedNext ==
  ASSUME IInv'
  PROVE  /\ Waiting' = Lens(rx_q'.used_ring, rx_q'.last_used_idx, rx_q'.used_idx)
         /\ Waiting' \in Seq(Frame)
         /\ call'.pc # "copy" => Copied' = << >> /\ Queued' = Waiting'
<1>1. rx_q'.last_used_idx \in Idx /\ rx_q'.used_idx \in Idx
  BY QueueFields, ZenonT(30) DEF IInv, Types
<1>2. Told(rx_bufs', rx_q'.used_ring, rx_q'.last_used_idx, rx_q'.used_idx)
  BY SMTT(30) DEF IInv, Contents
<1>3. /\ Waiting' = Lens(rx_q'.used_ring, rx_q'.last_used_idx, rx_q'.used_idx)
      /\ Waiting' \in Seq(Frame)
  <2>1. PICK bufs, used, lo, hi :
          bufs = rx_bufs' /\ used = rx_q'.used_ring /\ lo = rx_q'.last_used_idx /\ hi = rx_q'.used_idx
    OBVIOUS
  <2>2. Waiting' = Frames(bufs, used, lo, hi)
    BY <2>1, ZenonT(30) DEF Waiting, Frames
  <2>3. lo \in Idx /\ hi \in Idx /\ Told(bufs, used, lo, hi)
    BY <1>1, <1>2, <2>1, ZenonT(30)
  <2>4. /\ Frames(bufs, used, lo, hi) = Lens(used, lo, hi)
        /\ Lens(used, lo, hi) \in Seq(Frame)
        /\ Len(Lens(used, lo, hi)) = Between(lo, hi)
    BY <2>3, LensFacts, ZenonT(30)
  <2> QED  BY <2>1, <2>2, <2>4, ZenonT(30)
<1>4. call'.pc # "copy" => Copied' = << >> /\ Queued' = Waiting'
  BY <1>3, SMTT(30) DEF Copied, Queued
<1> QED
  BY <1>3, <1>4, ZenonT(30)

\* A step that leaves the used entries and the copy alone leaves the queue alone.
LEMMA QueueLeftAlone ==
  ASSUME IInv, IInv', rx_q'.used_ring = rx_q.used_ring, rx_q'.used_idx = rx_q.used_idx,
         rx_q'.last_used_idx = rx_q.last_used_idx, Copied' = Copied
  PROVE  Queued' = Queued
<1>1. Waiting' = Waiting
  BY QueuedFacts, QueuedNext, ZenonT(30)
<1> QED
  BY <1>1, ZenonT(30) DEF Queued

\* One step of the queue for the frame that the card has written,
LEMMA FillsArrives ==
  ASSUME IInv, IInv', CardFillsBuffer
  PROVE  /\ Len(Queued) < Cardinality(Posted)
         /\ Queued' = Append(Queued, card.rx.frame) /\ card.rx.frame \in Frame
         /\ given' = given
<1> DEFINE lo == rx_q.last_used_idx
           hi == rx_q.used_idx
           e == [id |-> card.rx.desc, len |-> card.rx.frame]
<1>1. /\ card \in Card /\ rx_q \in Queue /\ call \in Call /\ net_ready
      /\ card.rx.desc \in Posted /\ card.rx.frame \in Frame
      /\ lo \in Idx /\ hi \in Idx /\ card.rx_avail \in Idx /\ rx_q.avail_idx \in Idx
      /\ rx_q.used_ring \in [Places -> [id : Posted, len : Frame \cup {Nothing}]]
  BY QueueFields, CardFields, ZenonT(30) DEF CardFillsBuffer, IInv, Types, Asleep
<1>2. WithCard # {} /\ Accounts
  BY <1>1, SMTT(30) DEF WithCard, CardFillsBuffer, IInv
<1>3. Between(lo, hi) < QSIZE /\ Between(lo, hi) + One(InHand) < Cardinality(Posted)
  <2>1. Accounted(rx_q.avail_ring, card.rx_avail, rx_q.avail_idx, Ids(rx_q.used_ring), lo, hi,
                  InHand, WithCard)
    BY <1>2, ZenonT(30) DEF Accounts
  <2> HIDE DEF lo, hi
  <2> QED  BY <1>1, <1>2, <2>1, RoomInTheRings, ZenonT(60)
<1>4. Len(Queued) < Cardinality(Posted)
  <2>1. Waiting \in Seq(Frame) /\ Copied \in Seq(Frame) /\ Len(Waiting) = Between(lo, hi)
    BY QueuedFacts, ZenonT(30)
  <2>2. Len(Queued) = Len(Copied) + Between(lo, hi) /\ Between(lo, hi) \in Nat
    <3>1. Between(lo, hi) \in Nat
      BY <1>1, BetweenNat, ZenonT(30)
    <3>2. Len(Queued) = Len(Copied) + Len(Waiting)
      BY <2>1 DEF Queued
    <3> QED  BY <2>1, <3>1, <3>2, ZenonT(30)
  <2>3. Len(Copied) <= One(InHand) /\ Len(Copied) \in Nat /\ One(InHand) \in Nat
    BY DEF Copied, One, InHand
  <2>4. Cardinality(Posted) \in Nat
    BY PostedFacts
  <2> QED  BY <1>3, <2>2, <2>3, <2>4, SMTT(30)
<1>5. /\ rx_q'.used_ring = [rx_q.used_ring EXCEPT ![hi % QSIZE] = e]
      /\ rx_q'.used_idx = Next16(hi) /\ rx_q'.last_used_idx = lo
  <2> HIDE DEF e
  <2>1. rx_q' = [rx_q EXCEPT !.used_ring[hi % QSIZE] = e, !.used_idx = Next16(hi)]
    BY ZenonT(30) DEF CardFillsBuffer, e
  <2> QED  BY <1>1, <2>1, ZenonT(30) DEF Queue
<1>6. Waiting' = Append(Waiting, card.rx.frame)
  <2>1. e.len = card.rx.frame
    BY ZenonT(30)
  <2> HIDE DEF e
  <2>2. Waiting' = Lens([rx_q.used_ring EXCEPT ![hi % QSIZE] = e], lo, Next16(hi))
    BY <1>5, QueuedNext, ZenonT(30)
  <2>3. Waiting = Lens(rx_q.used_ring, lo, hi) /\ Waiting \in Seq(Frame)
    BY QueuedFacts, SMTT(30)
  <2>4. Lens([rx_q.used_ring EXCEPT ![hi % QSIZE] = e], lo, Next16(hi))
          = Append(Lens(rx_q.used_ring, lo, hi), e.len)
    <3> HIDE DEF lo, hi
    <3> DEFINE u == rx_q.used_ring
    <3>1. /\ u \in [Places -> [id : Posted, len : Frame \cup {Nothing}]] /\ lo \in Idx /\ hi \in Idx
          /\ Between(lo, hi) < QSIZE /\ Lens(u, lo, hi) \in Seq(Frame)
      BY <1>1, <1>3, <2>3, ZenonT(30)
    <3> HIDE DEF u
    <3>2. Lens([u EXCEPT ![hi % QSIZE] = e], lo, Next16(hi)) = Append(Lens(u, lo, hi), e.len)
      BY <3>1, LensAppend, ZenonT(30)
    <3> QED  BY <3>2, ZenonT(30) DEF u
  <2> QED  BY <2>1, <2>2, <2>3, <2>4, ZenonT(30)
<1>7. Copied' = Copied
  <2>1. call.pc = "copy" => call.desc \in Posted /\ call.desc # card.rx.desc
    <3>1. Accounted(rx_q.avail_ring, card.rx_avail, rx_q.avail_idx,
                    Ids(rx_q.used_ring), lo, hi, InHand, WithCard)
      BY <1>2 DEF Accounts
    <3>2. InHand \cap WithCard = {}
      BY <3>1 DEF Accounted
    <3>3. WithCard = {card.rx.desc}
      BY ZenonT(30) DEF WithCard, CardFillsBuffer
    <3> QED  BY <1>1, <3>2, <3>3, CallFields, ZenonT(30) DEF InHand
  <2>2. rx_bufs \in [Posted -> Frame \cup {Garbled, Nothing}]
    BY ZenonT(30) DEF IInv, Types
  <2> QED  BY <1>1, <2>1, <2>2 DEF Copied, CardFillsBuffer
<1>8. Queued' = Append(Queued, card.rx.frame)
  <2>1. Waiting \in Seq(Frame) /\ Copied \in Seq(Frame)
    BY QueuedFacts, ZenonT(30)
  <2> QED  BY <1>1, <1>6, <1>7, <2>1, AppendBehind, SMTT(30) DEF Queued
<1> QED
  BY <1>1, <1>4, <1>8, ZenonT(30) DEF CardFillsBuffer

\* one when the driver takes a frame that it then drops, none when it takes one
\* that it will copy,
LEMMA TakesDropsOrKeeps ==
  ASSUME IInv, IInv', PollTakes
  PROVE  /\ given' = given
         /\ \/ Queued' = Queued
            \/ Queued # << >> /\ Queued' = Tail(Queued) /\ ~Fits(Head(Queued))
<1> DEFINE lo == rx_q.last_used_idx
           hi == rx_q.used_idx
           e == rx_q.used_ring[lo % QSIZE]
<1>1. /\ rx_q \in Queue /\ lo \in Idx /\ hi \in Idx /\ lo # hi /\ Next16(lo) \in Idx
  BY QueueFields, IndexFacts, ZenonT(30) DEF PollTakes, IInv, Types
<1>2. /\ rx_q'.used_ring = rx_q.used_ring
      /\ rx_q'.used_idx = hi /\ rx_q'.last_used_idx = Next16(lo)
  <2>1. rx_q' = [rx_q EXCEPT !.last_used_idx = Next16(lo)]
    BY DEF PollTakes
  <2> QED  BY <1>1, <2>1 DEF Queue
<1>3. Waiting = Lens(rx_q.used_ring, lo, hi) /\ Waiting \in Seq(Frame) /\ Queued = Waiting
  BY QueuedFacts DEF PollTakes
<1>4. Waiting' = Lens(rx_q.used_ring, Next16(lo), hi)
  BY <1>2, QueuedNext, SMTT(30)
<1>5. Waiting # << >> /\ Head(Waiting) = e.len /\ Waiting' = Tail(Waiting)
  BY <1>1, <1>3, <1>4, LensTail, ZenonT(30)
<1>6. call'.pc = (IF Fits(e.len) THEN "copy" ELSE "post") /\ call'.desc = e.id
  BY DEF PollTakes, UsedSlot
<1>7. given' = given /\ rx_bufs' = rx_bufs
  BY DEF PollTakes
<1>8. CASE Fits(e.len)
  <2>1. rx_bufs[e.id] = e.len
    <3>1. Told(rx_bufs, rx_q.used_ring, lo, hi)
      BY ZenonT(30) DEF IInv, Contents
    <3>2. Between(lo, hi) \in Nat /\ Between(lo, hi) > 0
      BY <1>1, Shrunk, BetweenNat, ZenonT(30)
    <3>3. 0 \in 0 .. Between(lo, hi) - 1 /\ Place(lo, 0) = lo % QSIZE
      BY <1>1, <3>2, PlaceAtEnd, SMTT(30)
    <3> QED  BY <3>1, <3>3, ZenonT(30) DEF Told
  <2>2. Copied' = <<Head(Waiting)>>
    BY <1>5, <1>6, <1>7, <1>8, <2>1, ZenonT(30) DEF Copied
  <2>3. Queued' = <<Head(Waiting)>> \o Tail(Waiting)
    BY <1>5, <2>2, ZenonT(30) DEF Queued
  <2>4. Queued' = Waiting
    BY <1>3, <1>5, <2>3, SMTT(30)
  <2> QED  BY <1>3, <1>7, <2>4, ZenonT(30)
<1>9. CASE ~Fits(e.len)
  <2>1. Queued' = Waiting'
    BY <1>6, <1>9, QueuedNext, ZenonT(30)
  <2> QED  BY <1>3, <1>5, <1>7, <1>9, <2>1, ZenonT(30)
<1> QED
  BY <1>8, <1>9, SMTT(30)

\* and one when it has copied it.
LEMMA CopiesGives ==
  ASSUME IInv, IInv', PollCopies
  PROVE  /\ Queued # << >> /\ Queued' = Tail(Queued)
         /\ Fits(Head(Queued)) /\ given' = <<Head(Queued)>>
<1>1. /\ call.pc = "copy" /\ call'.pc = "post"
      /\ rx_bufs[call.desc] \in Frame /\ Fits(rx_bufs[call.desc])
  <2>1. call \in Call /\ call.pc = "copy" /\ call' = [call EXCEPT !.pc = "post"]
    BY DEF PollCopies, IInv, Types
  <2> QED  BY <2>1 DEF IInv, Contents, Call, Idle, Polling
<1>2. Waiting \in Seq(Frame) /\ Waiting' = Waiting
  BY QueuedFacts, QueuedNext, ZenonT(30) DEF PollCopies
<1>3. Queued = <<rx_bufs[call.desc]>> \o Waiting
  BY <1>1, ZenonT(30) DEF Queued, Copied
<1>4. /\ Queued # << >> /\ Head(Queued) = rx_bufs[call.desc] /\ Tail(Queued) = Waiting
  BY <1>1, <1>2, <1>3, SeqFacts, ZenonT(30)
<1>5. Queued' = Waiting
  BY <1>1, <1>2, QueuedNext, ZenonT(30)
<1> QED
  BY <1>1, <1>4, <1>5, ZenonT(30) DEF PollCopies

\* Every other step leaves it alone, but for the call that forgets what the call
\* before it was given.
LEMMA OthersLeaveQueue ==
  ASSUME IInv, IInv', Next, ~CardFillsBuffer, ~PollTakes, ~PollCopies
  PROVE  Queued' = Queued /\ (given' = given \/ given' = << >>)
<1>0. rx_q \in Queue /\ call \in Call /\ card \in Card
  BY DEF IInv, Types
<1>1. CASE \/ hal_net_init_fails \/ Refused \/ CardTakesFrame \/ CardSends
  <2>1. UNCHANGED <<rx_q, rx_bufs, call, given>>
    BY <1>1, ZenonT(30) DEF hal_net_init_fails, Refused, CardTakesFrame, CardSends, vars
  <2> QED  BY <2>1, QueueLeftAlone, ZenonT(30) DEF Copied
<1>2. CASE hal_net_init
  <2>1. ~net_ready
    BY <1>2 DEF hal_net_init, IInv, Asleep
  <2>2. rx_q = NewQueue /\ call' = call /\ call.pc # "copy" /\ given' = given
    BY <1>2, <2>1, SMTT(30) DEF hal_net_init, IInv, Asleep, Idle
  <2>3. /\ rx_q'.used_ring = rx_q.used_ring /\ rx_q'.used_idx = rx_q.used_idx
        /\ rx_q'.last_used_idx = rx_q.last_used_idx
    BY <1>2, <2>2, ZenonT(30) DEF hal_net_init, NewQueue
  <2>4. Copied' = Copied
    BY <2>2, ZenonT(30) DEF Copied
  <2> QED  BY <2>2, <2>3, <2>4, QueueLeftAlone, ZenonT(30)
<1>3. CASE \/ \E f \in Frame \ {Runt, Jumbo} : hal_net_send(f)
           \/ hal_net_poll_receive \/ SendFilled \/ SendDescribed \/ SendPublished
           \/ SendWaited \/ SendSpins \/ PollSpins
  <2>1. UNCHANGED rx_q /\ (given' = given \/ given' = << >>)
    BY <1>3, SMTT(30) DEF hal_net_send, hal_net_poll_receive, SendFilled, SendDescribed, SendPublished,
                SendWaited, SendSpins, PollSpins
  <2>2. call.pc # "copy"
    BY <1>3, SMTT(30) DEF hal_net_send, hal_net_poll_receive, SendFilled, SendDescribed, SendPublished,
                SendWaited, SendSpins, PollSpins, Idle
  <2>3. call'.pc # "copy"
    <3>1. CASE SendFilled \/ SendDescribed
      <4>1. \/ call' = [call EXCEPT !.pc = "describe"]
            \/ call' = [call EXCEPT !.pc = "publish"]
        BY <3>1 DEF SendFilled, SendDescribed
      <4> QED  BY <1>0, <4>1, ZenonT(30) DEF Call, Idle, Polling
    <3>2. CASE SendSpins
      <4>1. call' = Idle \/ call' = [call EXCEPT !.spins = @ + 1]
        BY <3>2, SMTT(30) DEF SendSpins
      <4> QED  BY <1>0, <2>2, <4>1, SMTT(30) DEF Call, Idle, Polling
    <3>3. CASE \/ \E f \in Frame \ {Runt, Jumbo} : hal_net_send(f)
               \/ hal_net_poll_receive \/ SendPublished \/ SendWaited \/ PollSpins
      BY <3>3, SMTT(30) DEF hal_net_send, hal_net_poll_receive, SendPublished, SendWaited, PollSpins,
                  Spin, Idle
    <3> QED  BY <1>3, <3>1, <3>2, <3>3, ZenonT(30)
  <2> QED  BY <2>1, <2>2, <2>3, QueueLeftAlone, ZenonT(30) DEF Copied
<1>4. CASE PostsEntry
  <2>1. call.desc \in Posted /\ given' = given /\ call.pc = "post"
    BY <1>0, <1>4, CallFields, ZenonT(30) DEF PostsEntry
  <2>2. /\ rx_q'.used_ring = rx_q.used_ring /\ rx_q'.used_idx = rx_q.used_idx
        /\ rx_q'.last_used_idx = rx_q.last_used_idx
    BY <1>0, <1>4, ZenonT(30) DEF PostsEntry, RingEntry, Queue
  <2>3. call'.pc # "copy"
    BY <1>0, <1>4, <2>1, ZenonT(30) DEF PostsEntry, Call, Idle, Polling
  <2> QED  BY <2>1, <2>2, <2>3, QueueLeftAlone, ZenonT(30) DEF Copied
<1>5. CASE PostsIndex
  <2>1. call.after \in {Idle} \cup Polling /\ given' = given /\ call.pc = "bump"
    BY <1>0, <1>5, CallFields, ZenonT(30) DEF PostsIndex
  <2>2. /\ rx_q'.used_ring = rx_q.used_ring /\ rx_q'.used_idx = rx_q.used_idx
        /\ rx_q'.last_used_idx = rx_q.last_used_idx
    BY <1>0, <1>5, ZenonT(30) DEF PostsIndex, IndexBump, Queue
  <2>3. call'.pc # "copy"
    BY <1>5, <2>1, SMTT(30) DEF PostsIndex, Idle, Polling
  <2> QED  BY <2>1, <2>2, <2>3, QueueLeftAlone, ZenonT(30) DEF Copied
<1>6. CASE \E f \in Frame : CardTakesBuffer(f)
  <2>1. PICK f \in Frame : CardTakesBuffer(f)
    BY <1>6, ZenonT(30)
  <2> DEFINE d == rx_q.avail_ring[card.rx_avail % QSIZE]
  <2>2. /\ rx_q' = rx_q /\ call' = call /\ given' = given /\ net_ready
        /\ rx_bufs' = [rx_bufs EXCEPT ![d] = Garbled]
        /\ card.rx_avail # rx_q.avail_idx /\ WithCard = {}
    BY <2>1, ZenonT(30) DEF CardTakesBuffer, IInv, Asleep, WithCard
  <2>3. /\ card.rx_avail \in Idx /\ rx_q.avail_idx \in Idx
        /\ rx_q.last_used_idx \in Idx /\ rx_q.used_idx \in Idx
    BY <1>0, QueueFields, CardFields, ZenonT(30)
  <2>4. Accounted(rx_q.avail_ring, card.rx_avail, rx_q.avail_idx,
                  Ids(rx_q.used_ring), rx_q.last_used_idx, rx_q.used_idx, InHand, {})
    <3>1. Accounts
      BY <2>2, ZenonT(30) DEF IInv
    <3>2. WithCard = {}
      BY <2>2
    <3> HIDE DEF d
    <3> QED  BY <3>1, <3>2, Zenon DEF Accounts
  <2>5. d \in Held(rx_q.avail_ring, card.rx_avail, rx_q.avail_idx)
    BY <2>2, <2>3, <2>4, OfferedToCard, ZenonT(30)
  <2>6. d \notin InHand
    BY <2>4, <2>5 DEF Accounted
  <2> HIDE DEF d
  <2>7. call.pc = "copy" => call.desc \in Posted /\ call.desc # d
    BY <1>0, <2>6, CallFields, ZenonT(30) DEF InHand
  <2>8. rx_bufs \in [Posted -> Frame \cup {Garbled, Nothing}]
    BY ZenonT(30) DEF IInv, Types
  <2>9. Copied' = Copied
    BY <2>2, <2>7, <2>8, ZenonT(30) DEF Copied
  <2> QED  BY <2>2, <2>9, QueueLeftAlone, ZenonT(30)
<1> QED
  BY <1>1, <1>2, <1>3, <1>4, <1>5, <1>6, ZenonT(30) DEF Next, Driver

\* The driver's receive side, for every number of buffers and every interleaving
\* with the card, is a queue: hal_net_poll_receive() gives its callers the frames
\* that came in, whole, once each and in their order, but for runts and frames
\* that are too long.
THEOREM ReceiveSideIsQueue == Spec => Implements
<1>1. Init => Received!Init
  <2> SUFFICES ASSUME Init PROVE Received!Init
    OBVIOUS
  <2>1. IInv /\ call.pc = "idle" /\ rx_q.used_idx = 0 /\ rx_q.last_used_idx = 0
    BY Initially, NewQueueFields, ZenonT(30) DEF Init, Idle
  <2>2. Between(0, 0) = 0
    <3>1. 0 \in Idx
      BY Sizes DEF Idx
    <3> QED  BY <3>1, NothingHeld
  <2>3. Waiting \in Seq(Frame) /\ Len(Waiting) = 0 /\ Queued = Waiting
    BY <2>1, <2>2, QueuedFacts, ZenonT(30)
  <2>4. Queued = << >> /\ given = << >>
    BY <2>3 DEF Init
  <2> QED  BY <2>4, ZenonT(30) DEF Received!Init, Queued, Copied
<1>2. IInv /\ IInv' /\ [Next]_vars => [Received!Next]_(Received!vars)
  <2> SUFFICES ASSUME IInv, IInv', [Next]_vars
               PROVE  Received!Next \/ UNCHANGED Received!vars
    OBVIOUS
  <2>1. CASE UNCHANGED vars
    BY <2>1 DEF vars, Received!vars, Waiting
  <2>2. CASE CardFillsBuffer
    <3>1. /\ Len(Queued) < Cardinality(Posted)
          /\ Queued' = Append(Queued, card.rx.frame) /\ card.rx.frame \in Frame
          /\ given' = given
      BY <2>2, FillsArrives, SMTT(30)
    <3>2. Received!Arrive(card.rx.frame)
      BY <3>1, ZenonT(30) DEF Received!Arrive, Queued, Copied
    <3> QED  BY <3>1, <3>2, ZenonT(30) DEF Received!Next
  <2>3. CASE PollTakes
    <3>1. /\ given' = given
          /\ \/ Queued' = Queued
             \/ Queued # << >> /\ Queued' = Tail(Queued) /\ ~Fits(Head(Queued))
      BY <2>3, TakesDropsOrKeeps, ZenonT(30)
    <3>2. CASE Queued' = Queued
      BY <3>1, <3>2, ZenonT(30) DEF Received!vars, Queued, Copied
    <3>3. CASE Queued # << >> /\ Queued' = Tail(Queued) /\ ~Fits(Head(Queued))
      <4>1. Received!Take
        BY <3>1, <3>3, ZenonT(30) DEF Received!Take, Queued, Copied
      <4> QED  BY <4>1, SMTT(30) DEF Received!Next
    <3> QED  BY <3>1, <3>2, <3>3, ZenonT(30)
  <2>4. CASE PollCopies
    <3>1. /\ Queued # << >> /\ Queued' = Tail(Queued)
          /\ Fits(Head(Queued)) /\ given' = <<Head(Queued)>>
      BY <2>4, CopiesGives, ZenonT(30)
    <3>2. Received!Take
      BY <3>1, ZenonT(30) DEF Received!Take, Queued, Copied
    <3> QED  BY <3>2 DEF Received!Next
  <2>5. CASE Next /\ ~CardFillsBuffer /\ ~PollTakes /\ ~PollCopies
    <3>1. Queued' = Queued /\ (given' = given \/ given' = << >>)
      BY <2>5, OthersLeaveQueue, ZenonT(30)
    <3>2. Received!Forget \/ UNCHANGED Received!vars
      BY <3>1 DEF Received!Forget, Received!vars, Queued, Copied
    <3> QED  BY <3>2 DEF Received!Next
  <2> QED  BY <2>1, <2>2, <2>3, <2>4, <2>5, ZenonT(30)
<1> QED
  BY <1>1, <1>2, Invariance, PTL DEF Spec, Implements, Received!Spec

====
