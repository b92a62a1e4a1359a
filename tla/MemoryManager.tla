---------------------------- MODULE MemoryManager ----------------------------
(***************************************************************************)
(* The physical memory manager as a state machine of its own: any caller   *)
(* may call any function of Memory.tla at any time (a call runs to its end *)
(* with interrupts off), and gives back only pages it has.                 *)
(***************************************************************************)
EXTENDS Memory

CONSTANTS
  MemoryMaps,   \* the sets of regions hal_get_memory_map() may report
  MaxRun        \* the longest run of pages a caller asks for

ASSUME MapAssumption ==
  /\ MaxRun \in Nat
  /\ \A regions \in MemoryMaps : \A r \in regions : r \in [base : Nat, length : Nat]

VARIABLES
  map,    \* the memory map reported at boot
  mem,    \* the allocator
  held    \* history: how many hand-outs of the page at an address are not given back
vars == <<map, mem, held>>

\* The addresses of the machine.
Address == 0 .. WORD - 1

\* The pages in the callers' hands.
Held == {a \in Address : held[a] > 0}

Init ==
  /\ map \in MemoryMaps
  /\ mem = memory_init(map)
  /\ held = [a \in Address |-> 0]

\* A call returns the start of `count' pages, or NULL.
Claimed(r, count) ==
  LET pages == IF r.page = NULL THEN {} ELSE Run(r.page, count)
  IN  /\ mem' = r.mem
      /\ held' = [a \in Address |-> IF a \in pages THEN held[a] + 1 ELSE held[a]]
      /\ UNCHANGED map

AllocPage == Claimed(alloc_page(mem), 1)
AllocPagesContig(count) == Claimed(alloc_pages_contig(mem, count), count)
AllocDmaPages(count) == Claimed(alloc_dma_pages(mem, count), count)

FreePage(addr) ==
  /\ mem' = free_page(mem, addr)
  /\ held' = [held EXCEPT ![addr] = held[addr] - 1]
  /\ UNCHANGED map

Next ==
  \/ AllocPage
  \/ \E addr \in Held : FreePage(addr)
  \/ \E count \in 0 .. MaxRun : AllocPagesContig(count)
  \/ \E count \in 0 .. MaxRun : AllocDmaPages(count)

Spec == Init /\ [][Next]_vars

-----------------------------------------------------------------------------
TypeOK ==
  /\ map \in MemoryMaps
  /\ mem \in [bitmap : SUBSET Page, next_free_page : Nat, mem_top : Nat, free_list : Seq(Page)]
  /\ held \in [Address -> Nat]

\* An address is memory when a region of the map holds it; a map that reports
\* nothing between MEM_BASE and MEM_CAP stands for the fallback range.
Reported(a) == \E r \in map : r.base <= a /\ a < RegionEnd(r)
IsMemory(a) ==
  IF \E b \in MEM_BASE .. MEM_CAP - 1 : Reported(b)
  THEN Reported(a)
  ELSE MEM_BASE <= a /\ a < FALLBACK_TOP
Usable == {p \in Page : \A a \in p .. p + PAGE_SIZE - 1 : IsMemory(a)}

\* A page is handed out to one caller at a time; a page of the free list is in
\* nobody's hands and is there once; and every page ever handed out keeps its
\* bitmap bit, so that alloc_page() never finds one page both on the free list
\* and by the bump scan (free_page()'s comment).
Exclusive ==
  /\ \A a \in Address : held[a] <= 1
  /\ Held \cap Elements(mem.free_list) = {}
  /\ Held \cup Elements(mem.free_list) \subseteq mem.bitmap
  /\ \A i, j \in DOMAIN mem.free_list : mem.free_list[i] = mem.free_list[j] => i = j

\* The bump scan never runs past a page that is still free: alloc_page()
\* fails only when no page is left, though find_and_claim_contig() claims
\* pages ahead of the scan without moving it.
NothingSkipped == \A p \in Page \ mem.bitmap : mem.next_free_page <= p /\ p < mem.mem_top

\* The memory manager implements the abstract page allocator: it hands out
\* only whole pages of memory the map reports, and no page that a caller has,
\* whichever of free list, bump scan and contiguous search finds it.
Abstract == INSTANCE PageAllocator WITH callers <- held, usable <- Usable
Implements == Abstract!Spec
=============================================================================
