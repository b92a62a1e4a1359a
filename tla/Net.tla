-------------------------------- MODULE Net --------------------------------
(***************************************************************************)
(* Messages between machines, src/src/core/net.c: frames that nobody       *)
(* acknowledges, and the reliable send, which repeats its frame until the  *)
(* acknowledgement comes back or its attempts are used up.                 *)
(*                                                                         *)
(* Below it is virtio_net.c as net.c sees it.  Frames wait in the receive  *)
(* ring of their machine in the order of their arrival, and a poll takes   *)
(* the first of them or times out.  A frame may be lost, arrive once, or   *)
(* arrive twice: a transmit that times out leaves the device a descriptor  *)
(* whose buffer the next transmit fills.                                   *)
(*                                                                         *)
(* The calls are syscalls, with interrupts off: a machine does nothing     *)
(* else while it waits for an acknowledgement, but other machines run.     *)
(*                                                                         *)
(* A definition introduced by `Mistake:' is a plausible bug, used only to  *)
(* see that the properties would notice it.                                *)
(***************************************************************************)
EXTENDS Integers, Sequences

CONSTANTS
  Machine,                  \* the machines on the link, each with its MAC address
  RELIABLE_SEND_ATTEMPTS,   \* 10
  RX_BUF_COUNT,             \* 8: the buffers of a receive ring
  Copies,                   \* how often a frame may arrive
  MaxMessages,              \* bound: the messages sent by all the machines
  MaxRestarts               \* bound: the restarts of all the machines

ASSUME NetAssumption ==
  /\ {RELIABLE_SEND_ATTEMPTS, RX_BUF_COUNT} \subseteq Nat \ {0}
  /\ Copies \subseteq 0 .. 2
  /\ {MaxMessages, MaxRestarts} \subseteq Nat

VARIABLES
  ring,       \* ring[m]: the frames that have arrived at m and wait for a poll
  next_seq,   \* next_seq[m]
  call,       \* call[m]: the reliable send that m is in
  restarts,   \* history: the machines that restarted, in that order
  sent,       \* history: the messages, in the order in which they were sent
  delivered,  \* history: the messages that a receiver was given
  last,       \* history: last[m]: the message that m was given last
  confirmed   \* history: the messages whose reliable send returned 0
vars == <<ring, next_seq, call, restarts, sent, delivered, last, confirmed>>

Number == 1 .. MaxMessages

\* What net_send_raw() puts in a frame and net_poll_receive_raw() takes out of
\* it.  `message' stands for type, data and sender_slot: the message carried, or
\* the message acknowledged, which is not on the wire and only the histories see.
Frame == [from : Machine, seq : Nat, is_ack : BOOLEAN, message : Number]

NoCall == [seq |-> 0]
InCall(m) == call[m] # NoCall

-----------------------------------------------------------------------------
\* The driver.
HasRoom(queue, n) == Len(queue) + n <= RX_BUF_COUNT

\* hal_net_send(): what may become of the rings when a frame goes to dests.  The
\* sender learns nothing of it.
hal_net_send(rings, dests, frame) ==
  {[m \in Machine |->
      IF m \in dests /\ HasRoom(rings[m], copies[m])
      THEN rings[m] \o [i \in 1 .. copies[m] |-> frame]
      ELSE rings[m]] : copies \in [Machine -> Copies]}

\* Mistake: the newest frame is taken first.
ReceivedNewest(queue) ==
  [frame |-> queue[Len(queue)], rest |-> SubSeq(queue, 1, Len(queue) - 1)]

\* hal_net_poll_receive() when a frame is there.
Received(queue) == [frame |-> Head(queue), rest |-> Tail(queue)]

-----------------------------------------------------------------------------
\* Sending without an acknowledgement.
NewMessage(m, dests) ==
  /\ ~InCall(m)
  /\ Len(sent) < MaxMessages
  /\ sent' = Append(sent, [from |-> m, to |-> dests])

SendUnacknowledged(m, dests) ==
  /\ NewMessage(m, dests)
  /\ ring' \in hal_net_send(ring, dests,
                 [from |-> m, seq |-> 0, is_ack |-> FALSE, message |-> Len(sent) + 1])
  /\ UNCHANGED <<next_seq, call, restarts, delivered, last, confirmed>>

net_send_message(m) == SendUnacknowledged(m, Machine \ {m})
net_send_message_to(m, dest) == SendUnacknowledged(m, {dest})

\* net_poll_receive_message() when a frame is there: an acknowledgement is
\* dropped; a message goes to the caller, and its acknowledgement to the sender.
net_poll_receive_message(m) ==
  /\ ~InCall(m)
  /\ ring[m] # << >>
  /\ LET got == Received(ring[m])
         rings == [ring EXCEPT ![m] = got.rest]
         ack == [got.frame EXCEPT !.from = m, !.is_ack = TRUE]
     IN  IF got.frame.is_ack
         THEN ring' = rings /\ UNCHANGED <<delivered, last>>
         ELSE /\ ring' \in hal_net_send(rings, {got.frame.from}, ack)
              /\ delivered' = delivered \cup {got.frame.message}
              /\ last' = [last EXCEPT ![m] = got.frame.message]
  /\ UNCHANGED <<next_seq, call, restarts, sent, confirmed>>

\* The same when none comes.
PollNothing(m) == ~InCall(m) /\ ring[m] = << >> /\ UNCHANGED vars

-----------------------------------------------------------------------------
\* The reliable send: a new sequence number, then attempts that transmit the
\* frame and poll once.
net_send_message_reliable_to(m, dest) ==
  /\ NewMessage(m, {dest})
  /\ next_seq' = [next_seq EXCEPT ![m] = @ + 1]
  /\ call' = [call EXCEPT ![m] =
       [seq |-> next_seq[m], to |-> dest, message |-> Len(sent) + 1,
        attempt |-> 0, polling |-> FALSE]]
  /\ UNCHANGED <<ring, restarts, delivered, last, confirmed>>

Transmit(m) ==
  /\ InCall(m) /\ ~call[m].polling
  /\ ring' \in hal_net_send(ring, {call[m].to},
       [from |-> m, seq |-> call[m].seq, is_ack |-> FALSE, message |-> call[m].message])
  /\ call' = [call EXCEPT ![m].polling = TRUE]
  /\ UNCHANGED <<next_seq, restarts, sent, delivered, last, confirmed>>

\* Mistake: an acknowledgement of any message will do.
AcknowledgesAny(m, frame) == frame.is_ack /\ frame.from = call[m].to

Acknowledges(m, frame) ==
  frame.is_ack /\ frame.seq = call[m].seq /\ frame.from = call[m].to

\* Mistake: the attempts are not counted.
NextAttemptUncounted(m) == call' = [call EXCEPT ![m].polling = FALSE]

\* The loop goes round, or gives up and returns -1.
NextAttempt(m) ==
  call' = IF call[m].attempt + 1 < RELIABLE_SEND_ATTEMPTS
          THEN [call EXCEPT ![m].attempt = @ + 1, ![m].polling = FALSE]
          ELSE [call EXCEPT ![m] = NoCall]

\* A frame is there: the acknowledgement, and the call returns 0; or another,
\* which is dropped, a message for this machine included.
PollReliable(m) ==
  /\ InCall(m) /\ call[m].polling
  /\ ring[m] # << >>
  /\ ring' = [ring EXCEPT ![m] = Received(@).rest]
  /\ IF Acknowledges(m, Received(ring[m]).frame)
     THEN /\ call' = [call EXCEPT ![m] = NoCall]
          /\ confirmed' = confirmed \cup {call[m].message}
     ELSE NextAttempt(m) /\ UNCHANGED confirmed
  /\ UNCHANGED <<next_seq, restarts, sent, delivered, last>>

\* Nothing arrives in time, or a frame that is not of this protocol does.
PollTimeout(m) ==
  /\ InCall(m) /\ call[m].polling
  /\ NextAttempt(m)
  /\ UNCHANGED <<ring, next_seq, restarts, sent, delivered, last, confirmed>>

\* The machine restarts: the statics are as the image has them, and net_init()
\* gives the device a new, empty ring.
net_init(m) ==
  /\ Len(restarts) < MaxRestarts
  /\ restarts' = Append(restarts, m)
  /\ ring' = [ring EXCEPT ![m] = << >>]
  /\ next_seq' = [next_seq EXCEPT ![m] = 1]
  /\ call' = [call EXCEPT ![m] = NoCall]
  /\ UNCHANGED <<sent, delivered, last, confirmed>>

Init ==
  /\ ring = [m \in Machine |-> << >>]
  /\ next_seq = [m \in Machine |-> 1]
  /\ call = [m \in Machine |-> NoCall]
  /\ restarts = << >>
  /\ sent = << >>
  /\ delivered = {}
  /\ last = [m \in Machine |-> 0]
  /\ confirmed = {}

Next ==
  \E m \in Machine :
    \/ net_send_message(m)
    \/ \E dest \in Machine \ {m} : net_send_message_to(m, dest)
    \/ \E dest \in Machine \ {m} : net_send_message_reliable_to(m, dest)
    \/ net_poll_receive_message(m)
    \/ PollNothing(m)
    \/ Transmit(m)
    \/ PollReliable(m)
    \/ PollTimeout(m)
    \/ net_init(m)

Spec == Init /\ [][Next]_vars

\* The loop of a reliable send is not interrupted, and each poll is bounded.
Fairness ==
  \A m \in Machine : WF_vars(Transmit(m)) /\ WF_vars(PollReliable(m) \/ PollTimeout(m))
FairSpec == Spec /\ Fairness

-----------------------------------------------------------------------------
\* net_send_message_reliable_to() "returns 0 once genuinely delivered" (net.h) on a
\* machine that has not restarted: whatever is lost, repeated or still in a ring
\* from earlier calls, the acknowledgement on which it returns is one of this very
\* message.
ConfirmedUnlessRestarted ==
  \A n \in confirmed \ delivered : \E i \in DOMAIN restarts : restarts[i] = sent[n].from

\* A message is never delivered after a later one of the same sender was, however
\* often net_send_message_reliable_to() repeated it before it gave up.
InOrder ==
  [][\A m \in Machine : last'[m] < last[m] => sent[last'[m]].from # sent[last[m]].from]_vars

\* net_send_message_reliable_to() returns, with 0 or with -1, even when no other
\* machine ever answers.
ReliableSendReturns == \A m \in Machine : InCall(m) ~> ~InCall(m)
=============================================================================
