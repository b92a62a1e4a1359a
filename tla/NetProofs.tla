------------------------------ MODULE NetProofs ------------------------------
(***************************************************************************)
(* What the reliable send and the order of messages promise, for any       *)
(* number of machines, size of the rings, number of attempts, messages and *)
(* restarts, on a link that loses and repeats frames.                      *)
(***************************************************************************)
EXTENDS Net, SequenceTheorems, TLAPS

CallRecord(m) ==
  [seq : Nat \ {0}, to : Machine \ {m}, message : Number, attempt : Nat, polling : BOOLEAN]
Types ==
  /\ ring \in [Machine -> Seq(Frame)]
  /\ next_seq \in [Machine -> Nat \ {0}]
  /\ call = [m \in Machine |-> call[m]]
  /\ \A m \in Machine : InCall(m) => call[m] \in CallRecord(m)
  /\ restarts \in Seq(Machine)
  /\ sent \in Seq([from : Machine, to : SUBSET Machine])
  /\ last \in [Machine -> Nat]

Restarted == {restarts[i] : i \in DOMAIN restarts}

\* A sequence number of machine s means one message, as long as s has not
\* restarted: that of the call that s is in, or one of an earlier call.
Meant(s, frame) ==
  s \notin Restarted =>
    /\ frame.seq < next_seq[s]
    /\ InCall(s) /\ frame.seq = call[s].seq => frame.message = call[s].message

\* A frame on its way to m or waiting there: a message comes from its sender,
\* an acknowledgement goes to it and follows a delivery.
Genuine(m, frame) ==
  /\ frame.message \in DOMAIN sent
  /\ frame.is_ack => frame.message \in delivered /\ Meant(m, frame)
  /\ ~frame.is_ack => sent[frame.message].from = frame.from /\ Meant(frame.from, frame)

\* The messages that wait at m are in the order of their sender's, and none is
\* older than the last that m was given.
SameSender(f, g) == ~f.is_ack /\ ~g.is_ack /\ f.from = g.from
NotBefore(m, frame) ==
  ~frame.is_ack /\ last[m] # 0 /\ sent[last[m]].from = frame.from => last[m] <= frame.message
Sorted(queue) ==
  \A i, j \in DOMAIN queue :
    i < j /\ SameSender(queue[i], queue[j]) => queue[i].message <= queue[j].message

FramesInv(rings) ==
  \A m \in Machine : /\ Sorted(rings[m])
                     /\ \A i \in DOMAIN rings[m] : /\ Genuine(m, rings[m][i])
                                                   /\ NotBefore(m, rings[m][i])

\* A call is for the last message of its machine.
CallInv ==
  \A m \in Machine : InCall(m) =>
    /\ call[m].seq < next_seq[m]
    /\ call[m].message \in DOMAIN sent /\ sent[call[m].message].from = m
    /\ \A n \in DOMAIN sent : sent[n].from = m => n <= call[m].message

HistoryInv ==
  /\ Len(sent) <= MaxMessages
  /\ \A m \in Machine : last[m] # 0 => last[m] \in DOMAIN sent
  /\ \A n \in confirmed : n \in DOMAIN sent /\ (n \in delivered \/ sent[n].from \in Restarted)

\* The inductive invariant.
NetInv == Types /\ FramesInv(ring) /\ CallInv /\ HistoryInv

-----------------------------------------------------------------------------
\* What hal_net_send() leaves in the rings: what was there, and then the frame.
Appends(rings, dests, frame, new) ==
  /\ new \in [Machine -> Seq(Frame)]
  /\ \A m \in Machine :
       /\ Len(rings[m]) <= Len(new[m])
       /\ \A i \in DOMAIN new[m] :
            IF i \in DOMAIN rings[m] THEN new[m][i] = rings[m][i]
            ELSE m \in dests /\ new[m][i] = frame

LEMMA SendAppends ==
  ASSUME NEW rings \in [Machine -> Seq(Frame)], NEW dests \in SUBSET Machine, NEW frame \in Frame,
         NEW new \in hal_net_send(rings, dests, frame)
  PROVE  Appends(rings, dests, frame, new)
<1>1. PICK copies \in [Machine -> Copies] :
        new = [m \in Machine |->
                 IF m \in dests /\ HasRoom(rings[m], copies[m])
                 THEN rings[m] \o [i \in 1 .. copies[m] |-> frame]
                 ELSE rings[m]]
  BY DEF hal_net_send
<1>2. ASSUME NEW m \in Machine
      PROVE  /\ new[m] \in Seq(Frame)
             /\ Len(rings[m]) <= Len(new[m])
             /\ \A i \in DOMAIN new[m] :
                  IF i \in DOMAIN rings[m] THEN new[m][i] = rings[m][i]
                  ELSE m \in dests /\ new[m][i] = frame
  <2>1. rings[m] \in Seq(Frame) /\ copies[m] \in Nat
    <3>1. Copies \subseteq Nat
      BY NetAssumption
    <3> QED
      BY <3>1
  <2>2. CASE m \in dests /\ HasRoom(rings[m], copies[m])
    <3> DEFINE tail == [i \in 1 .. copies[m] |-> frame]
    <3>1. tail \in Seq(Frame) /\ Len(tail) = copies[m]
      BY <2>1
    <3>2. new[m] = rings[m] \o tail
      BY <1>1, <2>2
    <3>3. \A i \in 1 .. copies[m] : tail[i] = frame
      OBVIOUS
    <3> HIDE DEF tail
    <3>4. new[m] \in Seq(Frame) /\ Len(new[m]) = Len(rings[m]) + copies[m]
      <4>1. /\ rings[m] \o tail \in Seq(Frame)
            /\ Len(rings[m] \o tail) = Len(rings[m]) + Len(tail)
        BY <2>1, <3>1, ConcatProperties, Zenon
      <4> QED
        BY <3>1, <3>2, <4>1, Zenon
    <3>5. \A i \in 1 .. Len(new[m]) :
            new[m][i] = IF i <= Len(rings[m]) THEN rings[m][i] ELSE tail[i - Len(rings[m])]
      BY <2>1, <3>1, <3>2, ConcatProperties
    <3>6. ASSUME NEW i \in DOMAIN new[m]
          PROVE  IF i \in DOMAIN rings[m] THEN new[m][i] = rings[m][i]
                 ELSE m \in dests /\ new[m][i] = frame
      <4>1. /\ i \in 1 .. Len(rings[m]) + copies[m] /\ Len(rings[m]) \in Nat
            /\ DOMAIN rings[m] = 1 .. Len(rings[m])
        BY <2>1, <3>4
      <4>2. new[m][i] = IF i <= Len(rings[m]) THEN rings[m][i] ELSE tail[i - Len(rings[m])]
        BY <3>4, <3>5, <4>1
      <4>3. i > Len(rings[m]) => i - Len(rings[m]) \in 1 .. copies[m]
        BY <2>1, <4>1
      <4> QED
        BY <2>2, <3>3, <4>1, <4>2, <4>3
    <3> QED
      BY <2>1, <3>4, <3>6
  <2>3. CASE ~(m \in dests /\ HasRoom(rings[m], copies[m]))
    BY <1>1, <2>1, <2>3
  <2> QED
    BY <2>2, <2>3
<1>3. new = [m \in Machine |-> new[m]]
  BY <1>1
<1> QED
  BY <1>2, <1>3 DEF Appends

\* A poll takes the first frame of a ring and leaves the others in order.
LEMMA PollTakes ==
  ASSUME NEW queue \in Seq(Frame), queue # << >>
  PROVE  /\ Received(queue).frame = queue[1] /\ 1 \in DOMAIN queue
         /\ Received(queue).frame \in Frame
         /\ Received(queue).rest \in Seq(Frame)
         /\ \A i \in DOMAIN Received(queue).rest :
              i + 1 \in DOMAIN queue /\ i \in Nat /\ Received(queue).rest[i] = queue[i + 1]
<1>1. /\ Received(queue).frame = Head(queue) /\ Received(queue).rest = Tail(queue)
      /\ Len(queue) \in Nat \ {0}
  BY DEF Received
<1>2. /\ Head(queue) = queue[1] /\ Tail(queue) \in Seq(Frame)
      /\ Len(Tail(queue)) = Len(queue) - 1
      /\ \A i \in 1 .. Len(queue) - 1 : Tail(queue)[i] = queue[i + 1]
  BY <1>1
<1> QED
  BY <1>1, <1>2

\* The frames of a step: those that stay do so with what is known of them, and
\* one that is sent comes after the ones of its sender.
LEMMA FramesKept ==
  ASSUME NEW rings \in [Machine -> Seq(Frame)], NEW dests \in SUBSET Machine, NEW frame \in Frame,
         ring' \in hal_net_send(rings, dests, frame),
         \A m \in Machine : Sorted(rings[m]),
         \A m \in Machine : \A i \in DOMAIN rings[m] :
           Genuine(m, rings[m][i])' /\ NotBefore(m, rings[m][i])',
         \A m \in dests : Genuine(m, frame)' /\ NotBefore(m, frame)',
         \A m \in dests : \A i \in DOMAIN rings[m] :
           SameSender(rings[m][i], frame) => rings[m][i].message <= frame.message
  PROVE  FramesInv(ring)' /\ ring' \in [Machine -> Seq(Frame)]
<1>1. /\ ring' \in [Machine -> Seq(Frame)]
      /\ \A m \in Machine :
           /\ Len(rings[m]) <= Len(ring'[m])
           /\ \A i \in DOMAIN ring'[m] :
                IF i \in DOMAIN rings[m] THEN ring'[m][i] = rings[m][i]
                ELSE m \in dests /\ ring'[m][i] = frame
  <2>1. Appends(rings, dests, frame, ring')
    BY SendAppends
  <2> QED
    BY <2>1 DEF Appends
<1>2. ASSUME NEW m \in Machine
      PROVE  /\ Sorted(ring'[m])
             /\ \A i \in DOMAIN ring'[m] : Genuine(m, ring[m][i])' /\ NotBefore(m, ring[m][i])'
  <2>1. ring'[m] \in Seq(Frame) /\ rings[m] \in Seq(Frame)
    BY <1>1
  <2>2. ASSUME NEW i \in DOMAIN ring'[m], NEW j \in DOMAIN ring'[m],
               i < j, SameSender(ring'[m][i], ring'[m][j])
        PROVE  ring'[m][i].message <= ring'[m][j].message
    <3>1. i \in Nat \ {0} /\ j \in Nat /\ DOMAIN rings[m] = 1 .. Len(rings[m]) /\ Len(rings[m]) \in Nat
      BY <2>1
    <3>2. CASE j \in DOMAIN rings[m]
      <4>1. i \in DOMAIN rings[m]
        BY <2>2, <3>1, <3>2
      <4> QED
        BY <1>1, <2>2, <3>2, <4>1 DEF Sorted
    <3>3. CASE j \notin DOMAIN rings[m] /\ i \in DOMAIN rings[m]
      BY <1>1, <2>2, <3>3
    <3>4. CASE j \notin DOMAIN rings[m] /\ i \notin DOMAIN rings[m]
      <4>1. ring'[m][i] = frame /\ ring'[m][j] = frame /\ frame.message \in Nat
        BY <1>1, <3>4 DEF Frame, Number
      <4> QED
        BY <4>1
    <3> QED
      BY <3>2, <3>3, <3>4
  <2>3. ASSUME NEW i \in DOMAIN ring'[m]
        PROVE  Genuine(m, ring[m][i])' /\ NotBefore(m, ring[m][i])'
    <3>1. CASE i \in DOMAIN rings[m]
      <4>1. ring'[m][i] = rings[m][i]
        BY <1>1, <3>1
      <4> QED
        BY <3>1, <4>1 DEF Genuine, NotBefore, Meant, InCall, Restarted
    <3>2. CASE i \notin DOMAIN rings[m]
      <4>1. ring'[m][i] = frame /\ m \in dests
        BY <1>1, <3>2
      <4> QED
        BY <3>2, <4>1 DEF Genuine, NotBefore, Meant, InCall, Restarted
    <3> QED
      BY <3>1, <3>2
  <2> QED
    BY <2>2, <2>3 DEF Sorted
<1> QED
  BY <1>1, <1>2 DEF FramesInv

\* The meaning of sequence numbers survives a step that restarts machines, ends
\* calls, or begins calls with new numbers.
CallsKept ==
  /\ Restarted \subseteq Restarted'
  /\ \A s \in Machine \ Restarted' :
       /\ next_seq[s] <= next_seq'[s]
       /\ InCall(s)' => \/ InCall(s) /\ call'[s].seq = call[s].seq
                                     /\ call'[s].message = call[s].message
                        \/ call'[s].seq = next_seq[s]
LEMMA MeantKept ==
  ASSUME NetInv, Types', CallsKept, NEW s \in Machine, NEW f \in Frame, Meant(s, f)
  PROVE  Meant(s, f)'
<1>1. SUFFICES ASSUME s \notin Restarted'
               PROVE  /\ f.seq < next_seq'[s]
                      /\ InCall(s)' /\ f.seq = call'[s].seq => f.message = call'[s].message
  BY DEF Meant
<1>2. s \notin Restarted /\ f.seq < next_seq[s] /\ next_seq[s] <= next_seq'[s]
  BY <1>1 DEF Meant, CallsKept
<1>3. f.seq \in Nat /\ next_seq[s] \in Nat /\ next_seq'[s] \in Nat
  BY DEF Types, NetInv, Frame
<1> QED
  BY <1>1, <1>2, <1>3 DEF Meant, CallsKept

\* What was sent stays sent.
Grows ==
  /\ DOMAIN sent \subseteq DOMAIN sent'
  /\ \A n \in DOMAIN sent : sent'[n] = sent[n]
  /\ delivered \subseteq delivered'
LEMMA GenuineKept ==
  ASSUME NetInv, Types', CallsKept, Grows, NEW m \in Machine, NEW f \in Frame, Genuine(m, f)
  PROVE  Genuine(m, f)'
<1>1. f.from \in Machine
  BY DEF Frame
<1>2. Meant(m, f) => Meant(m, f)'
  BY MeantKept
<1>3. Meant(f.from, f) => Meant(f.from, f)'
  BY <1>1, MeantKept
<1> QED
  BY <1>2, <1>3 DEF Genuine, Grows
LEMMA NotBeforeKept ==
  ASSUME NetInv, Grows, NEW m \in Machine, last'[m] = last[m], NEW f, NotBefore(m, f)
  PROVE  NotBefore(m, f)'
BY DEF NotBefore, Grows, NetInv, HistoryInv

\* A step after which the rings hold frames of before, in their order.
LEMMA QuietStep ==
  ASSUME NetInv, Types', CallsKept, Grows, last' = last, FramesInv(ring')
  PROVE  FramesInv(ring)'
<1>1. ASSUME NEW m \in Machine
      PROVE  /\ Sorted(ring'[m])
             /\ \A i \in DOMAIN ring'[m] : Genuine(m, ring[m][i])' /\ NotBefore(m, ring[m][i])'
  <2>1. Sorted(ring'[m]) /\ ring'[m] \in Seq(Frame)
    BY DEF FramesInv, Types
  <2>2. ASSUME NEW i \in DOMAIN ring'[m]
        PROVE  Genuine(m, ring[m][i])' /\ NotBefore(m, ring[m][i])'
    <3> DEFINE f == ring'[m][i]
    <3>1. f \in Frame
      BY <2>1
    <3>2. Genuine(m, f) /\ NotBefore(m, f)
      BY DEF FramesInv
    <3> HIDE DEF f
    <3>3. \A g \in Frame : Genuine(m, g) => Genuine(m, g)'
      BY GenuineKept
    <3>4. \A g : NotBefore(m, g) => NotBefore(m, g)'
      BY NotBeforeKept
    <3> QED
      BY <3>1, <3>2, <3>3, <3>4 DEF f
  <2> QED
    BY <2>1, <2>2
<1> QED
  BY <1>1 DEF FramesInv

\* Taking the first frame of a ring leaves such frames.
LEMMA RestInv ==
  ASSUME NetInv, NEW m \in Machine, ring[m] # << >>
  PROVE  LET rings == [ring EXCEPT ![m] = Received(ring[m]).rest]
         IN  rings \in [Machine -> Seq(Frame)] /\ FramesInv(rings)
<1> DEFINE rings == [ring EXCEPT ![m] = Received(ring[m]).rest]
<1>1. ring \in [Machine -> Seq(Frame)] /\ ring[m] \in Seq(Frame)
  BY DEF NetInv, Types
<1>2. /\ Received(ring[m]).rest \in Seq(Frame)
      /\ \A i \in DOMAIN Received(ring[m]).rest :
           i + 1 \in DOMAIN ring[m] /\ i \in Nat /\ Received(ring[m]).rest[i] = ring[m][i + 1]
  BY <1>1, PollTakes
<1>3. rings \in [Machine -> Seq(Frame)] /\ rings[m] = Received(ring[m]).rest
  BY <1>1, <1>2
<1>4. \A x \in Machine \ {m} : rings[x] = ring[x]
  BY <1>1
<1> HIDE DEF rings
<1>5. /\ Sorted(rings[m])
      /\ \A i \in DOMAIN rings[m] : Genuine(m, rings[m][i]) /\ NotBefore(m, rings[m][i])
  <2>1. ASSUME NEW i \in DOMAIN rings[m], NEW j \in DOMAIN rings[m],
               i < j, SameSender(rings[m][i], rings[m][j])
        PROVE  rings[m][i].message <= rings[m][j].message
    <3>1. i \in Nat /\ j \in Nat /\ i + 1 \in DOMAIN ring[m] /\ j + 1 \in DOMAIN ring[m]
      BY <1>2, <1>3
    <3>2. i + 1 < j + 1
      BY <2>1, <3>1
    <3> QED
      BY <1>2, <1>3, <2>1, <3>1, <3>2 DEF NetInv, FramesInv, Sorted
  <2>2. ASSUME NEW i \in DOMAIN rings[m]
        PROVE  Genuine(m, rings[m][i]) /\ NotBefore(m, rings[m][i])
    BY <1>2, <1>3 DEF NetInv, FramesInv
  <2> QED
    BY <2>1, <2>2 DEF Sorted
<1>6. FramesInv(rings)
  BY <1>4, <1>5 DEF NetInv, FramesInv
<1> QED
  BY <1>3, <1>6 DEF rings

LEMMA InitInv == Init => NetInv
<1> SUFFICES ASSUME Init PROVE NetInv
  OBVIOUS
<1>1. Types
  BY DEF Init, Types, InCall, NoCall
<1>2. FramesInv(ring)
  <2>1. \A m \in Machine : ring[m] = << >>
    BY DEF Init
  <2>2. DOMAIN << >> = {}
    OBVIOUS
  <2> QED
    BY <2>1, <2>2, Zenon DEF FramesInv, Sorted
<1>3. CallInv
  BY DEF Init, CallInv, InCall
<1>4. HistoryInv
  <2>1. MaxMessages \in Nat
    BY NetAssumption
  <2> QED
    BY <2>1 DEF Init, HistoryInv
<1> QED
  BY <1>1, <1>2, <1>3, <1>4 DEF NetInv

-----------------------------------------------------------------------------
\* A new message is the last of all.
LEMMA NewMessageStep ==
  ASSUME NetInv, NEW m \in Machine, NEW dests \in SUBSET Machine, NewMessage(m, dests)
  PROVE  /\ sent' \in Seq([from : Machine, to : SUBSET Machine])
         /\ Len(sent') <= MaxMessages
         /\ Len(sent) \in Nat /\ Len(sent) + 1 \in Number
         /\ DOMAIN sent = 1 .. Len(sent) /\ DOMAIN sent' = 1 .. Len(sent) + 1
         /\ \A n \in DOMAIN sent : sent'[n] = sent[n]
         /\ sent'[Len(sent) + 1].from = m
<1>1. sent \in Seq([from : Machine, to : SUBSET Machine]) /\ MaxMessages \in Nat
  BY NetAssumption DEF NetInv, Types
<1>2. sent' = Append(sent, [from |-> m, to |-> dests]) /\ Len(sent) < MaxMessages
  BY DEF NewMessage
<1>3. [from |-> m, to |-> dests] \in [from : Machine, to : SUBSET Machine]
  OBVIOUS
<1>4. Len(sent) \in Nat /\ Len(sent) + 1 \in Number
  BY <1>1, <1>2 DEF Number
<1> QED
  BY <1>1, <1>2, <1>3, <1>4

LEMMA UnacknowledgedInv ==
  ASSUME NetInv, NEW m \in Machine, NEW dests \in SUBSET Machine, SendUnacknowledged(m, dests)
  PROVE  NetInv'
<1>1. /\ sent' \in Seq([from : Machine, to : SUBSET Machine])
      /\ Len(sent') <= MaxMessages
      /\ Len(sent) \in Nat /\ Len(sent) + 1 \in Number
      /\ DOMAIN sent = 1 .. Len(sent) /\ DOMAIN sent' = 1 .. Len(sent) + 1
      /\ \A n \in DOMAIN sent : sent'[n] = sent[n]
      /\ sent'[Len(sent) + 1].from = m
  BY NewMessageStep DEF SendUnacknowledged
<1>2. PICK f0, rings :
        /\ f0 = [from |-> m, seq |-> 0, is_ack |-> FALSE, message |-> Len(sent) + 1]
        /\ rings = ring
  OBVIOUS
<1>3. /\ UNCHANGED <<next_seq, call, restarts, delivered, last, confirmed>>
      /\ ring' \in hal_net_send(rings, dests, f0) /\ ~InCall(m)
  BY <1>2 DEF SendUnacknowledged, NewMessage
<1>4. f0 \in Frame /\ rings \in [Machine -> Seq(Frame)]
  BY <1>1, <1>2 DEF Frame, NetInv, Types
<1>5. Grows /\ CallsKept
  <2>1. Grows
    BY <1>1, <1>3 DEF Grows
  <2>2. next_seq \in [Machine -> Nat \ {0}]
    BY DEF NetInv, Types
  <2> QED
    BY <1>3, <2>1, <2>2 DEF CallsKept, Restarted, InCall
<1>6. Types'
  <2>1. Appends(rings, dests, f0, ring')
    BY <1>3, <1>4, SendAppends
  <2> QED
    BY <1>1, <1>3, <2>1 DEF Appends, NetInv, Types, InCall
<1>7. \A x \in Machine : \A i \in DOMAIN rings[x] :
        rings[x][i] \in Frame /\ Genuine(x, rings[x][i]) /\ NotBefore(x, rings[x][i])
  BY <1>2, <1>4 DEF NetInv, FramesInv
<1>8. \A x \in Machine : \A i \in DOMAIN rings[x] :
        Genuine(x, rings[x][i])' /\ NotBefore(x, rings[x][i])'
  <2>1. \A x \in Machine, f \in Frame : Genuine(x, f) => Genuine(x, f)'
    BY <1>5, <1>6, GenuineKept
  <2>2. \A x \in Machine, f \in Frame : NotBefore(x, f) => NotBefore(x, f)'
    BY <1>3, <1>5, NotBeforeKept
  <2> QED
    BY <1>7, <2>1, <2>2
<1>9. ASSUME NEW x \in dests
      PROVE  /\ Genuine(x, f0)' /\ NotBefore(x, f0)'
             /\ \A i \in DOMAIN rings[x] :
                  SameSender(rings[x][i], f0) => rings[x][i].message <= f0.message
  <2>1. Meant(m, f0)'
    <3>1. next_seq'[m] \in Nat \ {0} /\ ~InCall(m)'
      BY <1>3, <1>6 DEF Types, InCall
    <3> QED
      BY <1>2, <3>1 DEF Meant
  <2>2. Genuine(x, f0)'
    BY <1>1, <1>2, <2>1 DEF Genuine
  <2>3. last'[x] # 0 => last'[x] <= Len(sent) + 1
    BY <1>1, <1>3 DEF NetInv, HistoryInv
  <2>4. \A i \in DOMAIN rings[x] : rings[x][i].message <= Len(sent) + 1
    BY <1>1, <1>7 DEF Genuine
  <2> QED
    BY <1>2, <2>2, <2>3, <2>4 DEF NotBefore
<1>10. FramesInv(ring)'
  <2>1. \A x \in Machine : Sorted(rings[x])
    BY <1>2 DEF NetInv, FramesInv
  <2> QED
    BY <1>3, <1>4, <1>8, <1>9, <2>1, FramesKept
<1>11. CallInv'
  BY <1>1, <1>3 DEF NetInv, CallInv, InCall
<1>12. HistoryInv'
  BY <1>1, <1>3 DEF NetInv, HistoryInv, Restarted
<1> QED
  BY <1>6, <1>10, <1>11, <1>12 DEF NetInv

\* A message that is delivered becomes the last one, and its acknowledgement goes
\* back to its sender.
LEMMA ReceiveInv ==
  ASSUME NetInv, NEW m \in Machine, net_poll_receive_message(m)
  PROVE  NetInv'
<1>1. PICK got, rings :
        got = Received(ring[m]).frame /\ rings = [ring EXCEPT ![m] = Received(ring[m]).rest]
  OBVIOUS
<1>2. /\ UNCHANGED <<next_seq, call, restarts, sent, confirmed>> /\ ring[m] # << >>
      /\ ring \in [Machine -> Seq(Frame)] /\ ring[m] \in Seq(Frame)
  BY DEF net_poll_receive_message, NetInv, Types
<1>3. rings \in [Machine -> Seq(Frame)] /\ FramesInv(rings)
  BY <1>1, <1>2, RestInv
<1>4. /\ got \in Frame /\ got = ring[m][1] /\ 1 \in DOMAIN ring[m]
      /\ \A i \in DOMAIN rings[m] :
           i + 1 \in DOMAIN ring[m] /\ i \in Nat \ {0} /\ rings[m][i] = ring[m][i + 1]
  <2>1. rings[m] = Received(ring[m]).rest
    BY <1>1, <1>2
  <2>2. \A i \in DOMAIN rings[m] : i \in Nat \ {0}
    BY <1>3
  <2> QED
    BY <1>1, <1>2, <2>1, <2>2, PollTakes
<1>5. Genuine(m, got)
  BY <1>4 DEF NetInv, FramesInv
<1>6. next_seq \in [Machine -> Nat \ {0}]
  BY DEF NetInv, Types
<1>7. CASE got.is_ack
  <2>1. ring' = rings /\ UNCHANGED <<delivered, last>>
    BY <1>1, <1>7 DEF net_poll_receive_message
  <2>2. Grows /\ CallsKept
    BY <1>2, <1>6, <2>1 DEF Grows, CallsKept, Restarted, InCall
  <2>3. Types'
    BY <1>2, <1>3, <2>1 DEF NetInv, Types, InCall
  <2>4. FramesInv(ring)'
    <3>1. FramesInv(ring')
      BY <1>3, <2>1
    <3> QED
      BY <2>1, <2>2, <2>3, <3>1, QuietStep
  <2>5. CallInv' /\ HistoryInv'
    BY <1>2, <2>1 DEF NetInv, CallInv, HistoryInv, InCall, Restarted
  <2> QED
    BY <2>3, <2>4, <2>5 DEF NetInv
<1>8. CASE ~got.is_ack
  <2>1. PICK ack : ack = [got EXCEPT !.from = m, !.is_ack = TRUE]
    OBVIOUS
  <2>2. /\ ring' \in hal_net_send(rings, {got.from}, ack)
        /\ delivered' = delivered \cup {got.message}
        /\ last' = [last EXCEPT ![m] = got.message]
    BY <1>1, <1>8, <2>1 DEF net_poll_receive_message
  <2>3. /\ ack \in Frame /\ ack.is_ack /\ ack.message = got.message /\ ack.seq = got.seq
        /\ got.from \in Machine /\ got.message \in Nat \ {0}
    <3>1. /\ got.from \in Machine /\ got.seq \in Nat /\ got.message \in Number
          /\ got = [from |-> got.from, seq |-> got.seq, is_ack |-> got.is_ack, message |-> got.message]
      BY <1>4 DEF Frame
    <3>2. ack = [from |-> m, seq |-> got.seq, is_ack |-> TRUE, message |-> got.message]
      BY <2>1, <3>1
    <3>3. ack \in Frame
      BY <3>1, <3>2 DEF Frame
    <3> QED
      BY <3>1, <3>2, <3>3 DEF Number
  <2>4. Grows /\ CallsKept
    BY <1>2, <1>6, <2>2 DEF Grows, CallsKept, Restarted, InCall
  <2>5. Types'
    <3>1. Appends(rings, {got.from}, ack, ring')
      BY <1>3, <2>2, <2>3, SendAppends
    <3>2. last' \in [Machine -> Nat] /\ last'[m] = got.message
      BY <2>2, <2>3 DEF NetInv, Types
    <3> QED
      BY <1>2, <2>2, <3>1, <3>2 DEF Appends, NetInv, Types, InCall
  <2>6. \A x \in Machine : \A i \in DOMAIN rings[x] :
          Genuine(x, rings[x][i])' /\ NotBefore(x, rings[x][i])'
    <3>1. \A x \in Machine, f \in Frame : Genuine(x, f) => Genuine(x, f)'
      BY <2>4, <2>5, GenuineKept
    <3>2. \A x \in Machine \ {m} : last'[x] = last[x]
      BY <2>2 DEF NetInv, Types
    <3>3. \A x \in Machine \ {m}, f \in Frame : NotBefore(x, f) => NotBefore(x, f)'
      BY <2>4, <3>2, NotBeforeKept
    <3>4. ASSUME NEW i \in DOMAIN rings[m]
          PROVE  NotBefore(m, rings[m][i])'
      <4>1. /\ 1 < i + 1 /\ i + 1 \in DOMAIN ring[m] /\ rings[m][i] = ring[m][i + 1]
        BY <1>4
      <4>2. SameSender(got, rings[m][i]) => got.message <= rings[m][i].message
        BY <1>4, <4>1 DEF NetInv, FramesInv, Sorted
      <4>3. last'[m] = got.message /\ sent'[got.message].from = got.from
        BY <1>2, <1>5, <1>8, <2>2 DEF NetInv, Types, Genuine
      <4> QED
        BY <1>8, <4>2, <4>3 DEF NotBefore, SameSender
    <3> QED
      BY <1>3, <3>1, <3>3, <3>4 DEF FramesInv
  <2>7. Genuine(got.from, ack)' /\ NotBefore(got.from, ack)'
    <3>1. Meant(got.from, got) /\ got.message \in DOMAIN sent
      BY <1>5, <1>8 DEF Genuine
    <3>2. Meant(got.from, ack)
      BY <2>3, <3>1 DEF Meant
    <3>3. Meant(got.from, ack)'
      BY <2>3, <2>4, <2>5, <3>2, MeantKept
    <3> QED
      BY <1>2, <2>2, <2>3, <3>1, <3>3 DEF Genuine, NotBefore
  <2>8. FramesInv(ring)'
    <3>1. \A x \in Machine : Sorted(rings[x])
      BY <1>3 DEF FramesInv
    <3>2. \A x \in {got.from} : Genuine(x, ack)' /\ NotBefore(x, ack)'
      BY <2>7
    <3>3. \A x \in {got.from} : \A i \in DOMAIN rings[x] :
            SameSender(rings[x][i], ack) => rings[x][i].message <= ack.message
      BY <2>3 DEF SameSender
    <3>4. {got.from} \in SUBSET Machine
      BY <2>3
    <3> QED
      BY <1>3, <2>2, <2>3, <2>6, <3>1, <3>2, <3>3, <3>4, FramesKept
  <2>9. CallInv' /\ HistoryInv'
    <3>1. got.message \in DOMAIN sent
      BY <1>5 DEF Genuine
    <3>2. \A x \in Machine : last'[x] \in {last[x], got.message}
      BY <2>2 DEF NetInv, Types
    <3> QED
      BY <1>2, <2>2, <3>1, <3>2 DEF NetInv, CallInv, HistoryInv, InCall, Restarted
  <2> QED
    BY <2>5, <2>8, <2>9 DEF NetInv
<1> QED
  BY <1>7, <1>8

-----------------------------------------------------------------------------
\* A reliable send begins with a number that no frame of its machine has had.
LEMMA ReliableInv ==
  ASSUME NetInv, NEW m \in Machine, NEW dest \in Machine \ {m}, net_send_message_reliable_to(m, dest)
  PROVE  NetInv'
<1> DEFINE new == [seq |-> next_seq[m], to |-> dest, message |-> Len(sent) + 1,
                   attempt |-> 0, polling |-> FALSE]
<1>1. /\ sent' \in Seq([from : Machine, to : SUBSET Machine])
      /\ Len(sent') <= MaxMessages
      /\ Len(sent) \in Nat /\ Len(sent) + 1 \in Number
      /\ DOMAIN sent = 1 .. Len(sent) /\ DOMAIN sent' = 1 .. Len(sent) + 1
      /\ \A n \in DOMAIN sent : sent'[n] = sent[n]
      /\ sent'[Len(sent) + 1].from = m
  <2>1. {dest} \in SUBSET Machine
    OBVIOUS
  <2> QED
    BY <2>1, NewMessageStep DEF net_send_message_reliable_to
<1>2. /\ UNCHANGED <<ring, restarts, delivered, last, confirmed>>
      /\ call' = [call EXCEPT ![m] = new]
      /\ next_seq' = [next_seq EXCEPT ![m] = @ + 1]
  BY DEF net_send_message_reliable_to
<1>3. /\ next_seq \in [Machine -> Nat \ {0}] /\ call = [x \in Machine |-> call[x]]
      /\ next_seq' \in [Machine -> Nat \ {0}]
      /\ next_seq'[m] = next_seq[m] + 1 /\ \A x \in Machine \ {m} : next_seq'[x] = next_seq[x]
  BY <1>2 DEF NetInv, Types
<1>4. /\ call' = [x \in Machine |-> call'[x]]
      /\ call'[m] = new /\ new \in CallRecord(m)
      /\ \A x \in Machine \ {m} : call'[x] = call[x]
  <2>1. new \in CallRecord(m)
    BY <1>1, <1>3 DEF CallRecord
  <2> QED
    BY <1>2, <1>3, <2>1
<1> HIDE DEF new
<1>5. Types'
  BY <1>1, <1>2, <1>3, <1>4 DEF NetInv, Types, InCall
<1>6. Grows
  BY <1>1, <1>2 DEF Grows
<1>7. CallsKept
  <2>1. new.seq = next_seq[m]
    BY DEF new
  <2> QED
    BY <1>2, <1>3, <1>4, <2>1 DEF CallsKept, Restarted, InCall
<1>8. FramesInv(ring)'
  <2>1. FramesInv(ring')
    BY <1>2 DEF NetInv
  <2> QED
    BY <1>2, <1>5, <1>6, <1>7, <2>1, QuietStep
<1>9. CallInv'
  <2>1. new.seq = next_seq[m] /\ new.message = Len(sent) + 1
    BY DEF new
  <2>2. ASSUME NEW x \in Machine, InCall(x)'
        PROVE  /\ call'[x].seq < next_seq'[x]
               /\ call'[x].message \in DOMAIN sent' /\ sent'[call'[x].message].from = x
               /\ \A n \in DOMAIN sent' : sent'[n].from = x => n <= call'[x].message
    <3>1. CASE x = m
      BY <1>1, <1>3, <1>4, <2>1, <3>1
    <3>2. CASE x # m
      <4>1. InCall(x) /\ call'[x] = call[x] /\ next_seq'[x] = next_seq[x]
        BY <1>3, <1>4, <2>2, <3>2 DEF InCall
      <4>2. \A n \in DOMAIN sent' : sent'[n].from = x => n \in DOMAIN sent
        BY <1>1, <3>2
      <4> QED
        BY <1>1, <4>1, <4>2 DEF NetInv, CallInv
    <3> QED
      BY <3>1, <3>2
  <2> QED
    BY <2>2 DEF CallInv
<1>10. HistoryInv'
  BY <1>1, <1>2 DEF NetInv, HistoryInv, Restarted
<1> QED
  BY <1>5, <1>8, <1>9, <1>10 DEF NetInv

\* A call that goes on, or ends, without sending anything.
CallGoesOn(m) ==
  /\ call' = [x \in Machine |-> call'[x]]
  /\ \A x \in Machine \ {m} : call'[x] = call[x]
  /\ InCall(m)' => /\ InCall(m) /\ call'[m] \in CallRecord(m)
                   /\ call'[m].seq = call[m].seq /\ call'[m].message = call[m].message
LEMMA CallGoesOnInv ==
  ASSUME NetInv, NEW m \in Machine, CallGoesOn(m), UNCHANGED <<next_seq, restarts, sent, delivered, last>>,
         ring' \in [Machine -> Seq(Frame)]
  PROVE  Types' /\ CallInv' /\ CallsKept /\ Grows
<1>1. Types'
  BY DEF NetInv, Types, CallGoesOn, InCall
<1>2. \A x \in Machine : InCall(x)' => /\ InCall(x) /\ call'[x].seq = call[x].seq
                                      /\ call'[x].message = call[x].message
  BY DEF CallGoesOn, InCall
<1>3. CallInv'
  BY <1>2 DEF NetInv, CallInv
<1>4. CallsKept
  BY <1>2 DEF CallsKept, Restarted, NetInv, Types
<1> QED
  BY <1>1, <1>3, <1>4 DEF Grows
LEMMA NextRecord ==
  ASSUME NEW m \in Machine, NEW c \in CallRecord(m)
  PROVE  LET next == [c EXCEPT !.attempt = @ + 1, !.polling = FALSE]
         IN  next \in CallRecord(m) /\ next.seq = c.seq /\ next.message = c.message
<1>1. PICK d : d = [c EXCEPT !.attempt = @ + 1]
  OBVIOUS
<1>2. d \in CallRecord(m) /\ d.seq = c.seq /\ d.message = c.message
  BY <1>1 DEF CallRecord
<1>3. /\ [d EXCEPT !.polling = FALSE] \in CallRecord(m)
      /\ [d EXCEPT !.polling = FALSE].seq = d.seq
      /\ [d EXCEPT !.polling = FALSE].message = d.message
  BY <1>2 DEF CallRecord
<1>4. [c EXCEPT !.attempt = @ + 1, !.polling = FALSE] = [d EXCEPT !.polling = FALSE]
  BY <1>1
<1> QED
  BY <1>2, <1>3, <1>4
LEMMA NextAttemptGoesOn ==
  ASSUME NetInv, NEW m \in Machine, InCall(m), NextAttempt(m)
  PROVE  CallGoesOn(m)
<1>1. call = [x \in Machine |-> call[x]] /\ call[m] \in CallRecord(m)
  BY DEF NetInv, Types
<1>2. CASE call' = [call EXCEPT ![m] = NoCall]
  BY <1>1, <1>2 DEF CallGoesOn, InCall
<1>3. CASE call' = [call EXCEPT ![m].attempt = @ + 1, ![m].polling = FALSE]
  <2>1. call'[m] = [call[m] EXCEPT !.attempt = @ + 1, !.polling = FALSE]
    BY <1>1, <1>3
  <2>2. /\ call'[m] \in CallRecord(m)
        /\ call'[m].seq = call[m].seq /\ call'[m].message = call[m].message
    BY <1>1, <2>1, NextRecord
  <2> QED
    BY <1>1, <1>3, <2>2 DEF CallGoesOn, InCall
<1> QED
  BY <1>2, <1>3 DEF NextAttempt

\* A poll of the reliable send that ends its call has the acknowledgement of the
\* very message, unless the machine has restarted.
LEMMA PollReliableInv ==
  ASSUME NetInv, NEW m \in Machine, PollReliable(m)
  PROVE  NetInv'
<1>1. /\ InCall(m) /\ ring[m] # << >> /\ UNCHANGED <<next_seq, restarts, sent, delivered, last>>
      /\ ring' = [ring EXCEPT ![m] = Received(ring[m]).rest]
  BY DEF PollReliable
<1>2. ring' \in [Machine -> Seq(Frame)] /\ FramesInv(ring')
  BY <1>1, RestInv
<1>3. call = [x \in Machine |-> call[x]]
  BY DEF NetInv, Types
<1>4. CallGoesOn(m)
  <2>1. CASE call' = [call EXCEPT ![m] = NoCall]
    BY <1>3, <2>1 DEF CallGoesOn, InCall
  <2>2. CASE NextAttempt(m)
    BY <1>1, <2>2, NextAttemptGoesOn
  <2> QED
    BY <2>1, <2>2 DEF PollReliable
<1>5. Types' /\ CallInv' /\ CallsKept /\ Grows
  BY <1>1, <1>2, <1>4, CallGoesOnInv
<1>6. FramesInv(ring)'
  BY <1>1, <1>2, <1>5, QuietStep
<1>7. HistoryInv'
  <2>1. CASE UNCHANGED confirmed
    BY <1>1, <2>1 DEF NetInv, HistoryInv, Restarted
  <2>2. CASE ~UNCHANGED confirmed
    <3>1. PICK f : f = Received(ring[m]).frame
      OBVIOUS
    <3>2. Acknowledges(m, f) /\ confirmed' = confirmed \cup {call[m].message}
      BY <2>2, <3>1 DEF PollReliable
    <3>3. f = ring[m][1] /\ 1 \in DOMAIN ring[m]
      BY <1>1, <3>1, PollTakes DEF NetInv, Types
    <3>4. f.message \in delivered /\ Meant(m, f)
      BY <3>2, <3>3 DEF NetInv, FramesInv, Genuine, Acknowledges
    <3>5. /\ call[m].message \in DOMAIN sent /\ sent[call[m].message].from = m
          /\ call[m].message \in delivered \/ m \in Restarted
      BY <1>1, <3>2, <3>4 DEF NetInv, CallInv, Meant, Acknowledges
    <3> QED
      BY <1>1, <3>2, <3>5 DEF NetInv, HistoryInv, Restarted
  <2> QED
    BY <2>1, <2>2
<1> QED
  BY <1>5, <1>6, <1>7 DEF NetInv

LEMMA PollTimeoutInv ==
  ASSUME NetInv, NEW m \in Machine, PollTimeout(m)
  PROVE  NetInv'
<1>1. /\ InCall(m) /\ NextAttempt(m)
      /\ UNCHANGED <<ring, next_seq, restarts, sent, delivered, last, confirmed>>
  BY DEF PollTimeout
<1>2. ring' \in [Machine -> Seq(Frame)] /\ FramesInv(ring')
  BY <1>1 DEF NetInv, Types
<1>3. Types' /\ CallInv' /\ CallsKept /\ Grows
  BY <1>1, <1>2, NextAttemptGoesOn, CallGoesOnInv
<1>4. FramesInv(ring)'
  BY <1>1, <1>2, <1>3, QuietStep
<1>5. HistoryInv'
  BY <1>1 DEF NetInv, HistoryInv, Restarted
<1> QED
  BY <1>3, <1>4, <1>5 DEF NetInv

\* An attempt repeats the last message of its machine.
LEMMA TransmitInv ==
  ASSUME NetInv, NEW m \in Machine, Transmit(m)
  PROVE  NetInv'
<1>1. /\ InCall(m) /\ UNCHANGED <<next_seq, restarts, sent, delivered, last, confirmed>>
      /\ call' = [call EXCEPT ![m].polling = TRUE]
  BY DEF Transmit
<1>2. PICK f0, rings, dests :
        /\ f0 = [from |-> m, seq |-> call[m].seq, is_ack |-> FALSE, message |-> call[m].message]
        /\ rings = ring /\ dests = {call[m].to}
  OBVIOUS
<1>3. ring' \in hal_net_send(rings, dests, f0)
  BY <1>2 DEF Transmit
<1>4. /\ call[m] \in CallRecord(m) /\ call = [x \in Machine |-> call[x]]
      /\ call[m].seq \in Nat \ {0} /\ call[m].message \in Number /\ call[m].to \in Machine
  <2>1. call[m] \in CallRecord(m) /\ call = [x \in Machine |-> call[x]]
    BY <1>1 DEF NetInv, Types
  <2> QED
    BY <2>1 DEF CallRecord
<1>5. f0 \in Frame /\ rings \in [Machine -> Seq(Frame)] /\ dests \in SUBSET Machine
  BY <1>2, <1>4 DEF Frame, NetInv, Types
<1>6. Appends(rings, dests, f0, ring')
  BY <1>3, <1>5, SendAppends
<1>7. CallGoesOn(m)
  <2>1. call'[m] = [call[m] EXCEPT !.polling = TRUE]
    BY <1>1, <1>4
  <2>2. /\ call'[m] \in CallRecord(m)
        /\ call'[m].seq = call[m].seq /\ call'[m].message = call[m].message
    BY <1>4, <2>1 DEF CallRecord
  <2> QED
    BY <1>1, <1>4, <2>2 DEF CallGoesOn, InCall
<1>8. Types' /\ CallInv' /\ CallsKept /\ Grows
  <2>1. ring' \in [Machine -> Seq(Frame)]
    BY <1>6 DEF Appends
  <2> QED
    BY <1>1, <1>7, <2>1, CallGoesOnInv
<1>9. \A x \in Machine : \A i \in DOMAIN rings[x] :
        rings[x][i] \in Frame /\ Genuine(x, rings[x][i]) /\ NotBefore(x, rings[x][i])
  BY <1>2, <1>5 DEF NetInv, FramesInv
<1>10. \A x \in Machine : \A i \in DOMAIN rings[x] :
         Genuine(x, rings[x][i])' /\ NotBefore(x, rings[x][i])'
  <2>1. \A x \in Machine, f \in Frame : Genuine(x, f) => Genuine(x, f)'
    BY <1>8, GenuineKept
  <2>2. \A x \in Machine, f \in Frame : NotBefore(x, f) => NotBefore(x, f)'
    BY <1>1, <1>8, NotBeforeKept
  <2> QED
    BY <1>9, <2>1, <2>2
<1>11. ASSUME NEW x \in dests
       PROVE  /\ Genuine(x, f0)' /\ NotBefore(x, f0)'
              /\ \A i \in DOMAIN rings[x] :
                   SameSender(rings[x][i], f0) => rings[x][i].message <= f0.message
  <2>1. /\ f0.message = call[m].message /\ f0.from = m /\ f0.seq = call[m].seq /\ ~f0.is_ack
        /\ f0.message \in DOMAIN sent /\ sent[f0.message].from = m
        /\ f0.seq < next_seq[m]
        /\ \A n \in DOMAIN sent : sent[n].from = m => n <= f0.message
    BY <1>1, <1>2 DEF NetInv, CallInv
  <2>2. Meant(m, f0)
    BY <2>1 DEF Meant
  <2>3. Genuine(x, f0)
    BY <2>1, <2>2 DEF Genuine
  <2>4. NotBefore(x, f0)
    BY <1>5, <2>1 DEF NotBefore, NetInv, HistoryInv
  <2>5. Genuine(x, f0)' /\ NotBefore(x, f0)'
    BY <1>1, <1>5, <1>8, <2>3, <2>4, GenuineKept, NotBeforeKept
  <2>6. \A i \in DOMAIN rings[x] :
          SameSender(rings[x][i], f0) => rings[x][i].message <= f0.message
    BY <1>5, <1>9, <2>1 DEF Genuine, SameSender
  <2> QED
    BY <2>5, <2>6
<1>12. FramesInv(ring)'
  <2>1. \A x \in Machine : Sorted(rings[x])
    BY <1>2 DEF NetInv, FramesInv
  <2> QED
    BY <1>3, <1>5, <1>10, <1>11, <2>1, FramesKept
<1>13. HistoryInv'
  BY <1>1 DEF NetInv, HistoryInv, Restarted
<1> QED
  BY <1>8, <1>12, <1>13 DEF NetInv

\* A machine that restarts makes its sequence numbers mean nothing.
LEMMA RestartInv ==
  ASSUME NetInv, NEW m \in Machine, net_init(m)
  PROVE  NetInv'
<1>1. /\ restarts' = Append(restarts, m) /\ ring' = [ring EXCEPT ![m] = << >>]
      /\ next_seq' = [next_seq EXCEPT ![m] = 1] /\ call' = [call EXCEPT ![m] = NoCall]
      /\ UNCHANGED <<sent, delivered, last, confirmed>>
  BY DEF net_init
<1>2. /\ restarts \in Seq(Machine) /\ ring \in [Machine -> Seq(Frame)]
      /\ next_seq \in [Machine -> Nat \ {0}] /\ call = [x \in Machine |-> call[x]]
  BY DEF NetInv, Types
<1>3. restarts' \in Seq(Machine) /\ Restarted' = Restarted \cup {m}
  <2>1. /\ restarts' \in Seq(Machine) /\ Len(restarts') = Len(restarts) + 1 /\ Len(restarts) \in Nat
        /\ restarts'[Len(restarts) + 1] = m
        /\ \A i \in 1 .. Len(restarts) : restarts'[i] = restarts[i]
    BY <1>1, <1>2
  <2>2. /\ DOMAIN restarts = 1 .. Len(restarts)
        /\ DOMAIN restarts' = DOMAIN restarts \cup {Len(restarts) + 1}
    <3>1. DOMAIN restarts = 1 .. Len(restarts) /\ DOMAIN restarts' = 1 .. Len(restarts')
      BY <1>2, <2>1
    <3>2. \A n \in Nat : 1 .. n + 1 = (1 .. n) \cup {n + 1}
      OBVIOUS
    <3> QED
      BY <2>1, <3>1, <3>2
  <2> QED
    BY <2>1, <2>2 DEF Restarted
<1>4. /\ ring' \in [Machine -> Seq(Frame)] /\ ring'[m] = << >>
      /\ \A x \in Machine \ {m} : ring'[x] = ring[x]
  BY <1>1, <1>2
<1>5. /\ call' = [x \in Machine |-> call'[x]] /\ call'[m] = NoCall
      /\ \A x \in Machine \ {m} : call'[x] = call[x]
  BY <1>1, <1>2
<1>6. /\ next_seq' \in [Machine -> Nat \ {0}]
      /\ \A x \in Machine \ {m} : next_seq'[x] = next_seq[x]
  BY <1>1, <1>2
<1>7. Types'
  BY <1>1, <1>3, <1>4, <1>5, <1>6 DEF NetInv, Types, InCall
<1>8. CallsKept /\ Grows
  BY <1>1, <1>2, <1>3, <1>5, <1>6 DEF CallsKept, Grows, InCall
<1>9. FramesInv(ring')
  <2>1. DOMAIN << >> = {}
    OBVIOUS
  <2>2. Sorted(ring'[m]) /\ DOMAIN ring'[m] = {}
    BY <1>4, <2>1, Zenon DEF Sorted
  <2> QED
    BY <1>4, <2>2 DEF NetInv, FramesInv
<1>10. FramesInv(ring)'
  BY <1>1, <1>7, <1>8, <1>9, QuietStep
<1>11. CallInv'
  BY <1>1, <1>5, <1>6 DEF NetInv, CallInv, InCall
<1>12. HistoryInv'
  BY <1>1, <1>3 DEF NetInv, HistoryInv
<1> QED
  BY <1>7, <1>10, <1>11, <1>12 DEF NetInv

LEMMA NextInv == NetInv /\ [Next]_vars => NetInv'
<1> SUFFICES ASSUME NetInv, [Next]_vars PROVE NetInv'
  OBVIOUS
<1>1. ASSUME UNCHANGED vars PROVE NetInv'
  <2>1. UNCHANGED <<ring, next_seq, call, restarts, sent, delivered, last, confirmed>>
    BY <1>1 DEF vars
  <2>2. Types'
    BY <2>1 DEF NetInv, Types, InCall
  <2>3. CallsKept /\ Grows
    BY <2>1 DEF NetInv, Types, CallsKept, Grows, Restarted, InCall
  <2>4. FramesInv(ring')
    BY <2>1 DEF NetInv
  <2>5. FramesInv(ring)'
    BY <2>1, <2>2, <2>3, <2>4, QuietStep
  <2>6. CallInv' /\ HistoryInv'
    BY <2>1 DEF NetInv, CallInv, HistoryInv, InCall, Restarted
  <2> QED
    BY <2>2, <2>5, <2>6 DEF NetInv
<1>2. ASSUME NEW m \in Machine,
             net_send_message(m) \/ \E dest \in Machine \ {m} : net_send_message_to(m, dest)
      PROVE  NetInv'
  BY <1>2, UnacknowledgedInv DEF net_send_message, net_send_message_to
<1>3. ASSUME NEW m \in Machine, PollNothing(m) PROVE NetInv'
  BY <1>1, <1>3 DEF PollNothing
<1> QED
  BY <1>1, <1>2, <1>3, ReceiveInv, ReliableInv, TransmitInv, PollReliableInv, PollTimeoutInv,
     RestartInv DEF Next

-----------------------------------------------------------------------------
\* A reliable send of net.c that returns 0 was delivered, unless its machine has
\* restarted: for any number of machines, attempts, messages and restarts, with
\* frames lost, repeated and left over from earlier calls.
THEOREM ReliableMeansDelivered == Spec => []ConfirmedUnlessRestarted
<1>1. NetInv => ConfirmedUnlessRestarted
  BY DEF NetInv, HistoryInv, Restarted, ConfirmedUnlessRestarted
<1> QED
  BY InitInv, NextInv, <1>1, PTL DEF Spec

\* No machine is given a message of net.c after a later one of the same sender.
THEOREM DeliveredInOrder == Spec => InOrder
<1>1. ASSUME NetInv, [Next]_vars, NEW m \in Machine, last'[m] < last[m]
      PROVE  sent[last'[m]].from # sent[last[m]].from
  <2>1. net_poll_receive_message(m)
    <3>1. last'[m] # last[m]
      BY <1>1 DEF NetInv, Types
    <3>2. \A x \in Machine : net_poll_receive_message(x) => x = m
      <4>1. \A x \in Machine : net_poll_receive_message(x) =>
              last' = last \/ last' = [last EXCEPT ![x] = Received(ring[x]).frame.message]
        BY DEF net_poll_receive_message
      <4> QED
        BY <1>1, <3>1, <4>1 DEF NetInv, Types
    <3> QED
      BY <1>1, <3>1, <3>2
         DEF Next, vars, net_send_message, net_send_message_to, SendUnacknowledged,
             net_send_message_reliable_to, PollNothing, Transmit, PollReliable, PollTimeout, net_init
  <2>2. PICK got : got = Received(ring[m]).frame
    OBVIOUS
  <2>3. /\ got = ring[m][1] /\ 1 \in DOMAIN ring[m]
    <3>1. ring[m] \in Seq(Frame) /\ ring[m] # << >>
      BY <1>1, <2>1 DEF net_poll_receive_message, NetInv, Types
    <3> QED
      BY <2>2, <3>1, PollTakes
  <2>4. ~got.is_ack /\ last'[m] = got.message
    BY <1>1, <2>1, <2>2 DEF net_poll_receive_message, NetInv, Types
  <2>5. Genuine(m, got) /\ NotBefore(m, got) /\ last[m] \in Nat /\ last'[m] \in Nat
    <3>1. last'[m] \in Nat
      BY <1>1, NextInv DEF NetInv, Types
    <3>2. Genuine(m, got) /\ NotBefore(m, got) /\ last[m] \in Nat
      BY <1>1, <2>3 DEF NetInv, FramesInv, Types
    <3> QED
      BY <3>1, <3>2
  <2> QED
    BY <1>1, <2>4, <2>5 DEF Genuine, NotBefore
<1>2. NetInv /\ [Next]_vars =>
        [\A m \in Machine : last'[m] < last[m] => sent[last'[m]].from # sent[last[m]].from]_vars
  BY <1>1
<1> QED
  BY InitInv, NextInv, <1>2, PTL DEF Spec, InOrder
=============================================================================
