---------------------------- MODULE DeviceQueue ----------------------------
(***************************************************************************)
(* What the input side of a device promises, be it a network card or a     *)
(* keyboard: what came in comes out once each, whole and in the order of   *)
(* its arrival, but for what no caller can be given.  What arrives when    *)
(* the queue is full is lost.                                              *)
(***************************************************************************)
EXTENDS Naturals, Sequences

CONSTANTS Item, Capacity, Fits(_)
VARIABLES queue, given   \* what waits, and what a caller was just given
vars == <<queue, given>>

Init == queue = << >> /\ given = << >>

Arrive(i) ==
  /\ Len(queue) < Capacity
  /\ queue' = Append(queue, i)
  /\ UNCHANGED given

\* The caller gets it, or it is dropped.
Take ==
  /\ queue # << >>
  /\ queue' = Tail(queue)
  /\ given' = IF Fits(Head(queue)) THEN <<Head(queue)>> ELSE given

\* The caller has it; the next one, were it the same, is seen to be another.
Forget == given' = << >> /\ UNCHANGED queue

Next == (\E i \in Item : Arrive(i)) \/ Take \/ Forget
Spec == Init /\ [][Next]_vars
=============================================================================
