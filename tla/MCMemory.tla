------------------------------ MODULE MCMemory ------------------------------
(***************************************************************************)
(* A memory of six pages of two addresses each, and memory maps whose      *)
(* regions are unaligned, overlap, leave holes, stick out below MEM_BASE   *)
(* and above MEM_CAP, wrap around the address space, or are missing.       *)
(***************************************************************************)
EXTENDS MemoryManager

Region(base, end) == [base |-> base, length |-> end - base]

MCMemoryMaps ==
  { {},
    {Region(0, 1)},
    {Region(13, 16)},
    {Region(0, 20)},
    {Region(3, 9)},
    {Region(2, 5), Region(7, 14)},
    {Region(4, 8), Region(6, 13)},
    {Region(0, 4), Region(5, 7), Region(10, 12)},
    {Region(2, 34)} }
=============================================================================
