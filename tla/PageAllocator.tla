---------------------------- MODULE PageAllocator ----------------------------
(***************************************************************************)
(* What the physical memory manager promises its callers, independently of *)
(* how it finds a page: a page is in the hands of at most one caller, only *)
(* usable memory is ever handed out, and only a page that was handed out   *)
(* comes back.  MemoryManager.tla is shown to implement it.                *)
(*                                                                         *)
(* Callers are counted, so that a page handed out a second time is not the *)
(* same as a page handed out once: no step takes a count from 1 to 2.      *)
(***************************************************************************)
EXTENDS Naturals

CONSTANT Address   \* the addresses of the machine

VARIABLES
  usable,   \* the pages of usable memory, settled at boot
  callers   \* how many callers have the page at an address

Init == callers = [a \in Address |-> 0]

\* A call that allocates hands out one or more pages that nobody has.
Allocate(pages) ==
  /\ pages # {}
  /\ \A p \in pages : callers[p] = 0
  /\ callers' = [a \in Address |-> IF a \in pages THEN 1 ELSE callers[a]]

\* The caller that has a page gives it back.
Release(page) ==
  /\ callers[page] = 1
  /\ callers' = [callers EXCEPT ![page] = 0]

Next ==
  /\ \/ \E pages \in SUBSET usable : Allocate(pages)
     \/ \E page \in usable : Release(page)
  /\ UNCHANGED usable

Spec == Init /\ [][Next]_<<usable, callers>>
=============================================================================
