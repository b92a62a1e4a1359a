------------------------------- MODULE MCDemo -------------------------------
(***************************************************************************)
(* Eight boot actors and two spare slots, as in the kernel (15 and 17).    *)
(* Each group is looked at by itself with any number of ticks; then all of *)
(* them together with a few; and downloader and scanner beside the shell   *)
(* and beside the coordinator, who compete with them for slots, with the   *)
(* ticks that bring a message or an end to a later actor of a slot.        *)
(***************************************************************************)
EXTENDS Demo

MCBootMap == {[base |-> 0, length |-> 24]}
Mail == {MAILBOX_RECEIVER_SLOT, MAILBOX_SENDER_SLOT, INTRUDER_SLOT}
Pipeline == {DOWNLOADER_SLOT, SCANNER_SLOT, READER_SLOT}
Everybody == 0 .. BOOT_ACTORS - 1

Cast(slots, again, left, on, commands) ==
  [slots |-> slots, again |-> again, ticks |-> [left |-> left, on |-> on], commands |-> commands]
Apart ==
  {Cast(slots, again, Endless, Slot, 0) : slots \in {Mail, Pipeline}, again \in BOOLEAN}
    \cup {Cast({COORDINATOR_SLOT}, FALSE, Endless, Slot, 0),
          Cast({SHELL_SLOT}, FALSE, Endless, Slot, 2),
          Cast({SHELL_SLOT}, FALSE, Endless, {SHELL_SLOT, BOOT_ACTORS}, 3)}
Together ==
  {Cast(Everybody, FALSE, 1, Slot, 1), Cast(Everybody, FALSE, 2, Slot, 0),
   Cast({DOWNLOADER_SLOT, SCANNER_SLOT, SHELL_SLOT}, FALSE, 2, {SCANNER_SLOT}, 2),
   Cast({DOWNLOADER_SLOT, SCANNER_SLOT, COORDINATOR_SLOT}, FALSE,
        5, {SCANNER_SLOT, COORDINATOR_SLOT}, 0)}
MCCasts == Apart \cup Together
MCDelegable == {"SEND", "READ_OBJECT"}
=============================================================================
