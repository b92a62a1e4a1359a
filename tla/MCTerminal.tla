----------------------------- MODULE MCTerminal -----------------------------
(***************************************************************************)
(* A ring of two places, one letter and lines of up to two, and seconds on *)
(* either side of noon, midnight, one o'clock and the turn of a year.      *)
(***************************************************************************)
EXTENDS Terminal

At(h, m, s) == [sec |-> s, min |-> m, hour |-> h, day |-> 9, mon |-> 10, yr |-> 2026]
MCSecond ==
  {<<At(11, 59, 59), At(12, 0, 0)>>, <<At(12, 59, 59), At(13, 0, 0)>>, <<At(0, 0, 0), At(0, 0, 1)>>,
   <<[sec |-> 59, min |-> 59, hour |-> 23, day |-> 31, mon |-> 12, yr |-> 2029],
     [sec |-> 0, min |-> 0, hour |-> 0, day |-> 1, mon |-> 1, yr |-> 2030]>>}
=============================================================================
