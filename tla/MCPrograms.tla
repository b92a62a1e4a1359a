----------------------------- MODULE MCPrograms -----------------------------
(***************************************************************************)
(* Four slots, two of them filled at boot.  The first actor may spawn and  *)
(* read the object that may hold a program; the second may read it but not *)
(* spawn.  Memory is the private window and room for three program pages;  *)
(* the pool has two tables, for three slots that may ask for one.          *)
(***************************************************************************)
EXTENDS Programs, TLC

MCBootMap == {[base |-> 0, length |-> 16]}
MCBootCaps ==
  0 :> {[op |-> "SPAWN", target |-> 0], [op |-> "READ_OBJECT", target |-> 0]} @@
  1 :> {[op |-> "READ_OBJECT", target |-> 0]} @@
  2 :> {} @@ 3 :> {}
MCBootQuota == [s \in Slot |-> IF s = 0 THEN 3 ELSE MAX_SPAWNS_PER_ACTOR]

\* A program of one page, one of two, and what is none: a size past the window,
\* a truncated object, an entry point outside, an ordinary text.
MCImages ==
  {[bytes |-> 3, magic |-> TRUE, entry_offset |-> 1, code_size |-> 2],
   [bytes |-> 5, magic |-> TRUE, entry_offset |-> 0, code_size |-> 3],
   [bytes |-> 3, magic |-> TRUE, entry_offset |-> 0, code_size |-> 7],
   [bytes |-> 2, magic |-> TRUE, entry_offset |-> 0, code_size |-> 3],
   [bytes |-> 3, magic |-> TRUE, entry_offset |-> 2, code_size |-> 2],
   [bytes |-> 5, magic |-> FALSE, entry_offset |-> 0, code_size |-> 3]}
=============================================================================
