------------------------------ MODULE MCActors ------------------------------
(***************************************************************************)
(* Three slots, two of them filled at boot; the first actor may spawn, the *)
(* second may send to the first.  Six pages, two more than the bound on    *)
(* stacks and free pages, with the end of the private window among them.   *)
(***************************************************************************)
EXTENDS Actors, TLC

MCBootMap == {[base |-> 0, length |-> 14]}
MCBootCaps ==
  0 :> {[op |-> "SPAWN", target |-> 0]} @@
  1 :> {[op |-> "SEND", target |-> 0]} @@
  2 :> {}
\* Senders in every direction, to a slot that is empty at boot too.
MailBootCaps ==
  0 :> {[op |-> "SPAWN", target |-> 0], [op |-> "SEND", target |-> 1]} @@
  1 :> {[op |-> "SEND", target |-> 0], [op |-> "SEND", target |-> 2]} @@
  2 :> {}
MCBootQuota == [s \in Slot |-> MAX_SPAWNS_PER_ACTOR]
=============================================================================
