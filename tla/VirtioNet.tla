------------------------------ MODULE VirtioNet ------------------------------
(***************************************************************************)
(* The network driver, src/src/hal/x86_64/virtio_net.c, and the card on    *)
(* the other side of its two queues.                                       *)
(*                                                                         *)
(* A call of the driver runs with interrupts off on one core, so the only  *)
(* other process is the card: it may take a step between any two accesses  *)
(* of the driver to the memory they share, and may be as slow as it likes. *)
(* Stores become visible in program order (the compiler barriers of        *)
(* virtq_publish(), on x86).                                               *)
(*                                                                         *)
(* A definition introduced by `Mistake:' is a plausible bug, used only to  *)
(* see that the properties would notice it.                                *)
(***************************************************************************)
EXTENDS Integers, Sequences, FiniteSets

CONSTANTS
  RX_BUF_COUNT,   \* 8
  QSIZE,          \* what the card reports in QUEUE_NUM, for either queue
  UINT16,         \* 2^16: the indices of a queue wrap around here
  SPINS,          \* 1000000, or the caller's max_spins
  Frame,          \* the frames on the wire and those that callers send
  Runt,           \* a frame of less than NET_HDR_LEN bytes, its header included
  Jumbo,          \* a frame longer than a caller's buffer
  MaxOwed         \* bound: how many frames the card may have yet to send

Garbled == "garbled"   \* a buffer in the middle of a write
Nothing == "nothing"

ASSUME VirtioNetAssumption ==
  /\ {RX_BUF_COUNT, QSIZE, SPINS} \subseteq Nat \ {0} /\ MaxOwed \in 1 .. QSIZE
  /\ UINT16 \in Nat /\ QSIZE < UINT16 /\ UINT16 % QSIZE = 0
  /\ Runt \in Frame /\ Jumbo \in Frame /\ {Garbled, Nothing} \cap Frame = {}

\* The descriptors that hal_net_init() posts.
Posted == {d \in 0 .. QSIZE - 1 : d < RX_BUF_COUNT}
Idle == [pc |-> "idle"]

VARIABLES
  net_ready,
  rx_q, tx_q,     \* the queues: the rings, the shared indices and the driver's own
  rx_bufs,        \* what each receive buffer holds
  tx_buf,         \* the frame whose bytes the transmit buffer holds
  tx_len,         \* the frame whose length the transmit descriptor holds
  call,           \* the call the driver is in
  card,           \* the card: how far it has come in each queue, and what it is doing
  given,          \* history: the frame that the latest call copied out
  unsent,         \* history: the frames published to the card that it has not sent yet
  late            \* history: whether a send has run out of spins
vars == <<net_ready, rx_q, tx_q, rx_bufs, tx_buf, tx_len, call, card, given, unsent, late>>

-----------------------------------------------------------------------------
\* The queues.
NewQueue ==
  [avail_ring |-> [k \in 0 .. QSIZE - 1 |-> 0], avail_idx |-> 0, next_avail_idx |-> 0,
   used_ring |-> [k \in 0 .. QSIZE - 1 |-> [id |-> 0, len |-> Nothing]],
   used_idx |-> 0, last_used_idx |-> 0]

\* virtq_publish() in two steps that the card can tell apart.
RingEntry(vq, desc) == [vq EXCEPT !.avail_ring[vq.next_avail_idx % QSIZE] = desc]

IndexBump(vq) ==
  LET next == (vq.next_avail_idx + 1) % UINT16
  IN  [vq EXCEPT !.next_avail_idx = next, !.avail_idx = next]

\* How many entries of a ring lie between two of its indices.
Between(from, to) == (to - from) % UINT16

NoBuffer == [frame |-> Nothing]
Next16(idx) == (idx + 1) % UINT16

-----------------------------------------------------------------------------
\* hal_net_init(): the card is reset, the buffers are allocated and posted, and
\* only then is the card told to start.
hal_net_init ==
  /\ card.status = "reset"
  /\ net_ready' = TRUE
  /\ rx_q' = [NewQueue EXCEPT
       !.avail_ring = [k \in DOMAIN @ |-> IF k \in Posted THEN k ELSE 0],
       !.avail_idx = Cardinality(Posted), !.next_avail_idx = Cardinality(Posted)]
  /\ card' = [card EXCEPT !.status = "running"]
  /\ UNCHANGED <<tx_q, rx_bufs, tx_buf, tx_len, call, given, unsent, late>>

\* No such card, no queue, or no memory for it.
hal_net_init_fails ==
  /\ card.status = "reset"
  /\ card' = [card EXCEPT !.status = "failed"]
  /\ UNCHANGED <<net_ready, rx_q, tx_q, rx_bufs, tx_buf, tx_len, call, given, unsent, late>>

\* Every call after that returns -1.
Refused == card.status = "failed" /\ ~net_ready /\ UNCHANGED vars

-----------------------------------------------------------------------------
\* hal_net_send(): the bytes, the descriptor and the ring entry, the index, and
\* the wait.
hal_net_send(f) ==
  /\ net_ready /\ call = Idle
  /\ Len(unsent) < MaxOwed
  /\ tx_buf' = Garbled
  /\ call' = [pc |-> "fill", frame |-> f]
  /\ given' = << >>
  /\ UNCHANGED <<net_ready, rx_q, tx_q, rx_bufs, tx_len, card, unsent, late>>

SendFilled ==
  /\ call.pc = "fill"
  /\ tx_buf' = call.frame
  /\ call' = [call EXCEPT !.pc = "describe"]
  /\ UNCHANGED <<net_ready, rx_q, tx_q, rx_bufs, tx_len, card, given, unsent, late>>

SendDescribed ==
  /\ call.pc = "describe"
  /\ tx_len' = call.frame
  /\ tx_q' = RingEntry(tx_q, 0)
  /\ call' = [call EXCEPT !.pc = "publish"]
  /\ UNCHANGED <<net_ready, rx_q, rx_bufs, tx_buf, card, given, unsent, late>>

SendPublished ==
  /\ call.pc = "publish"
  /\ tx_q' = IndexBump(tx_q)
  /\ unsent' = Append(unsent, call.frame)
  /\ call' = [pc |-> "wait", spins |-> 0]
  /\ UNCHANGED <<net_ready, rx_q, rx_bufs, tx_buf, tx_len, card, given, late>>

\* Mistake: the completion is seen but not taken note of.
SendWaitedUnnoted ==
  /\ call.pc = "wait"
  /\ tx_q.used_idx # tx_q.last_used_idx
  /\ call' = Idle
  /\ UNCHANGED <<net_ready, rx_q, tx_q, rx_bufs, tx_buf, tx_len, card, given, unsent, late>>

\* The card has used a descriptor, and the driver takes it that it was this one.
SendWaited ==
  /\ call.pc = "wait"
  /\ tx_q.used_idx # tx_q.last_used_idx
  /\ tx_q' = [tx_q EXCEPT !.last_used_idx = tx_q.used_idx]
  /\ call' = Idle
  /\ UNCHANGED <<net_ready, rx_q, rx_bufs, tx_buf, tx_len, card, given, unsent, late>>

\* It has not: the loop goes round, or ends, and hal_net_send() returns 0 all the
\* same.
SendSpins ==
  /\ call.pc = "wait"
  /\ tx_q.used_idx = tx_q.last_used_idx
  /\ IF call.spins + 1 < SPINS
     THEN call' = [call EXCEPT !.spins = @ + 1] /\ UNCHANGED late
     ELSE call' = Idle /\ late' = TRUE
  /\ UNCHANGED <<net_ready, rx_q, tx_q, rx_bufs, tx_buf, tx_len, card, given, unsent>>

-----------------------------------------------------------------------------
\* hal_net_poll_receive()
hal_net_poll_receive ==
  /\ net_ready /\ call = Idle
  /\ call' = [pc |-> "poll", spins |-> 0]
  /\ given' = << >>
  /\ UNCHANGED <<net_ready, rx_q, tx_q, rx_bufs, tx_buf, tx_len, card, unsent, late>>

\* One more round of the loop, after `spins' of them.
Spin(spins) == IF spins + 1 < SPINS THEN [pc |-> "poll", spins |-> spins + 1] ELSE Idle

PollSpins ==
  /\ call.pc = "poll"
  /\ rx_q.used_idx = rx_q.last_used_idx
  /\ call' = Spin(call.spins)
  /\ UNCHANGED <<net_ready, rx_q, tx_q, rx_bufs, tx_buf, tx_len, card, given, unsent, late>>

\* Mistake: the newest of the used entries is read.
UsedSlotNewest == (rx_q.used_idx + UINT16 - 1) % QSIZE

UsedSlot == rx_q.last_used_idx % QSIZE

Fits(f) == f \notin {Runt, Jumbo}

\* Mistake: the buffer of a runt is not given back.
PollTakesForgetful ==
  /\ call.pc = "poll"
  /\ rx_q.used_idx # rx_q.last_used_idx
  /\ rx_q' = [rx_q EXCEPT !.last_used_idx = Next16(@)]
  /\ LET used == rx_q.used_ring[UsedSlot]
     IN  call' = IF used.len = Runt
                 THEN Spin(call.spins)
                 ELSE [pc |-> IF Fits(used.len) THEN "copy" ELSE "post",
                       desc |-> used.id, after |-> Idle]
  /\ UNCHANGED <<net_ready, tx_q, rx_bufs, tx_buf, tx_len, card, given, unsent, late>>

\* A used buffer is taken.  The loop goes on after a runt, and ends after a
\* frame that is too long for the caller.
PollTakes ==
  /\ call.pc = "poll"
  /\ rx_q.used_idx # rx_q.last_used_idx
  /\ rx_q' = [rx_q EXCEPT !.last_used_idx = Next16(@)]
  /\ LET used == rx_q.used_ring[UsedSlot]
     IN  call' = [pc |-> IF Fits(used.len) THEN "copy" ELSE "post",
                  desc |-> used.id,
                  after |-> IF used.len = Runt THEN Spin(call.spins) ELSE Idle]
  /\ UNCHANGED <<net_ready, tx_q, rx_bufs, tx_buf, tx_len, card, given, unsent, late>>

PollCopies ==
  /\ call.pc = "copy"
  /\ given' = <<rx_bufs[call.desc]>>
  /\ call' = [call EXCEPT !.pc = "post"]
  /\ UNCHANGED <<net_ready, rx_q, tx_q, rx_bufs, tx_buf, tx_len, card, unsent, late>>

\* rx_post() gives the buffer back.
PostsEntry ==
  /\ call.pc = "post"
  /\ rx_q' = RingEntry(rx_q, call.desc)
  /\ call' = [call EXCEPT !.pc = "bump"]
  /\ UNCHANGED <<net_ready, tx_q, rx_bufs, tx_buf, tx_len, card, given, unsent, late>>

PostsIndex ==
  /\ call.pc = "bump"
  /\ rx_q' = IndexBump(rx_q)
  /\ call' = call.after
  /\ UNCHANGED <<net_ready, tx_q, rx_bufs, tx_buf, tx_len, card, given, unsent, late>>

-----------------------------------------------------------------------------
\* The card (external).  It takes an offered buffer and writes a frame into it;
\* a frame that finds no buffer is lost.
CardTakesBuffer(f) ==
  /\ card.status = "running" /\ card.rx = NoBuffer
  /\ card.rx_avail # rx_q.avail_idx
  /\ LET d == rx_q.avail_ring[card.rx_avail % QSIZE]
     IN  /\ card' = [card EXCEPT !.rx = [desc |-> d, frame |-> f], !.rx_avail = Next16(@)]
         /\ rx_bufs' = [rx_bufs EXCEPT ![d] = Garbled]
  /\ UNCHANGED <<net_ready, rx_q, tx_q, tx_buf, tx_len, call, given, unsent, late>>

CardFillsBuffer ==
  /\ card.rx # NoBuffer
  /\ rx_bufs' = [rx_bufs EXCEPT ![card.rx.desc] = card.rx.frame]
  /\ rx_q' = [rx_q EXCEPT
       !.used_ring[rx_q.used_idx % QSIZE] = [id |-> card.rx.desc, len |-> card.rx.frame],
       !.used_idx = Next16(@)]
  /\ card' = [card EXCEPT !.rx = NoBuffer]
  /\ UNCHANGED <<net_ready, tx_q, tx_buf, tx_len, call, given, unsent, late>>

\* It reads the descriptor of a frame to send, and then the frame.
CardTakesFrame ==
  /\ card.status = "running" /\ card.tx = Nothing
  /\ card.tx_avail # tx_q.avail_idx
  /\ card' = [card EXCEPT !.tx = tx_len, !.tx_avail = Next16(@)]
  /\ UNCHANGED <<net_ready, rx_q, tx_q, rx_bufs, tx_buf, tx_len, call, given, unsent, late>>

CardSends ==
  /\ card.tx # Nothing
  /\ unsent' = Tail(unsent)
  /\ tx_q' = [tx_q EXCEPT !.used_idx = Next16(@)]
  /\ card' = [card EXCEPT !.tx = Nothing]
  /\ UNCHANGED <<net_ready, rx_q, rx_bufs, tx_buf, tx_len, call, given, late>>

Init ==
  /\ net_ready = FALSE
  /\ rx_q = NewQueue /\ tx_q = NewQueue
  /\ rx_bufs = [d \in Posted |-> Nothing]
  /\ tx_buf = Nothing /\ tx_len = Nothing
  /\ call = Idle
  /\ card = [status |-> "reset", rx_avail |-> 0, tx_avail |-> 0, rx |-> NoBuffer, tx |-> Nothing]
  /\ given = << >> /\ unsent = << >>
  /\ late = FALSE

Driver ==
  \/ SendFilled \/ SendDescribed \/ SendPublished \/ SendWaited \/ SendSpins
  \/ PollSpins \/ PollTakes \/ PollCopies \/ PostsEntry \/ PostsIndex

Next ==
  \/ hal_net_init \/ hal_net_init_fails \/ Refused
  \/ \E f \in Frame \ {Runt, Jumbo} : hal_net_send(f)
  \/ hal_net_poll_receive
  \/ Driver
  \/ \E f \in Frame : CardTakesBuffer(f)
  \/ CardFillsBuffer \/ CardTakesFrame \/ CardSends

Spec == Init /\ [][Next]_vars

-----------------------------------------------------------------------------
\* Where a receive buffer is: offered to the card, with the card, used and not
\* yet looked at, or in the driver's hands.
Offered(d) ==
  {k \in 0 .. Between(card.rx_avail, rx_q.avail_idx) - 1 :
     rx_q.avail_ring[(card.rx_avail + k) % QSIZE] = d}
Used(d) ==
  {k \in 0 .. Between(rx_q.last_used_idx, rx_q.used_idx) - 1 :
     rx_q.used_ring[(rx_q.last_used_idx + k) % QSIZE].id = d}
InHand == IF call.pc \in {"copy", "post", "bump"} THEN {call.desc} ELSE {}
WithCard == IF card.rx = NoBuffer THEN {} ELSE {card.rx.desc}

\* A receive buffer is in one place at a time and never lost: the card does not
\* write into one that hal_net_poll_receive() is reading, and a runt or a frame
\* that is too long costs the ring nothing, wherever the indices wrap around.
BuffersAccounted ==
  net_ready => \A d \in Posted :
    Cardinality(Offered(d)) + Cardinality(Used(d))
      + Cardinality({d} \cap InHand) + Cardinality({d} \cap WithCard) = 1

\* The frames that wait, in the order of the used ring.
Waiting ==
  [k \in 1 .. Between(rx_q.last_used_idx, rx_q.used_idx) |->
     rx_bufs[rx_q.used_ring[(rx_q.last_used_idx + k - 1) % QSIZE].id]]
Received ==
  INSTANCE DeviceQueue WITH
    Item <- Frame,
    Capacity <- Cardinality(Posted),
    queue <- (IF call.pc = "copy" THEN <<rx_bufs[call.desc]>> ELSE << >>) \o Waiting

\* The receive side is a queue: what hal_net_poll_receive() gives its callers are
\* the frames that the card took from the wire, whole, once each and in order.
Implements == Received!Spec

\* Until a send has run out of spins, the card sends what hal_net_send() was
\* given, once each and in order: from its reading the descriptor to its having
\* read the frame, the buffer and the length are those of the oldest frame that
\* it owes.  (Afterwards the buffer may be filled for the next send while the
\* card has yet to read it for the last.)
SentAsGiven ==
  card.tx # Nothing /\ ~late => tx_buf = Head(unsent) /\ card.tx = Head(unsent)
=============================================================================
