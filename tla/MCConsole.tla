----------------------------- MODULE MCConsole -----------------------------
(***************************************************************************)
(* Panes of two columns and of two rows and one.  With an int of 8 values, *)
(* a parameter of nines is 0, 1, 3 or, wrapped around, -1: left out, the   *)
(* first row or column, one beyond the last, or negative.                  *)
(***************************************************************************)
EXTENDS Console

MCWindowSize == [LOG |-> [w |-> 2, h |-> 2], SHELL |-> [w |-> 2, h |-> 1]]
=============================================================================
