---------------------------- MODULE MCVirtioNet ----------------------------
(***************************************************************************)
(* Three receive buffers in rings of two whose indices wrap around at four,*)
(* two frames that can be told apart, a runt and one too long.             *)
(***************************************************************************)
EXTENDS VirtioNet

MCFrame == {"a", "b", "runt", "jumbo"}
=============================================================================
