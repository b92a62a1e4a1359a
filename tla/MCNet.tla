------------------------------- MODULE MCNet -------------------------------
(***************************************************************************)
(* Two machines, rings of two buffers and calls of two attempts:           *)
(* a retransmission can meet a full ring, the acknowledgement of an        *)
(* earlier attempt, and a second call.                                     *)
(***************************************************************************)
EXTENDS Net

CONSTANTS a, b

LostOrTwice == {0, 1, 2}
=============================================================================
