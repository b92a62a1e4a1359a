------------------------------- MODULE Memory -------------------------------
(***************************************************************************)
(* The physical memory manager, src/src/core/memory.c.                     *)
(*                                                                         *)
(* The allocator's four static variables are one record, so that the       *)
(* functions of memory.c are operators from a record to a record and a     *)
(* component that calls several of them in one step can compose them:      *)
(*    bitmap          the pages whose bit is set (used, or unusable)       *)
(*    next_free_page  where the bump scan of alloc_page() goes on          *)
(*    mem_top         the end of the usable memory                         *)
(*    free_list       free_list[0 .. free_list_count-1]                    *)
(* Addresses are the code's addresses; a page is the address it starts at. *)
(*                                                                         *)
(* A definition marked `Mistake:' is a wrong version of the one after it,  *)
(* which no specification uses: the properties must tell the two apart.    *)
(***************************************************************************)
EXTENDS Integers, Sequences, FiniteSets

CONSTANTS
  PAGE_SIZE,            \* 4096
  MEM_BASE,             \* 1MB: nothing below it is ever handed out
  MEM_CAP,              \* 256MB
  FALLBACK_TOP,         \* 16MB: the end of memory without a valid map
  PRIVATE_WINDOW_END,   \* 2MB: the end of the window of the actors' stacks
  FREE_LIST_CAPACITY,   \* 32
  WORD                  \* 2^64: the addresses of the machine

ASSUME MemoryAssumption ==
  /\ {PAGE_SIZE, MEM_BASE} \subseteq Nat \ {0}
  /\ {MEM_CAP, FALLBACK_TOP, PRIVATE_WINDOW_END, FREE_LIST_CAPACITY, WORD} \subseteq Nat
  /\ MEM_BASE <= FALLBACK_TOP /\ FALLBACK_TOP <= MEM_CAP /\ MEM_CAP < WORD
  /\ MEM_BASE % PAGE_SIZE = 0

\* The null pointer: the result of an allocation that fails.
NULL == 0

\* The pages the bitmap has a bit for (up to MEM_CAP).
Page == {a \in MEM_BASE .. MEM_CAP - 1 : a % PAGE_SIZE = 0}

Minimum(S) == CHOOSE x \in S : \A y \in S : x <= y

\* The elements of a sequence.
Elements(s) == {s[i] : i \in DOMAIN s}

-----------------------------------------------------------------------------
\* The pages whose bit is cleared: the whole pages of [base, end), both ends
\* aligned inward.
mark_range_free(base, end) == {p \in Page : base <= p /\ p + PAGE_SIZE <= end}

\* A region of the HAL's memory map is a base and a length.
MemoryMapType == SUBSET [base : Nat, length : Nat]
RegionEnd(r) == (r.base + r.length) % WORD
ClippedBase(r) == IF r.base < MEM_BASE THEN MEM_BASE ELSE r.base
ClippedEnd(r) == IF RegionEnd(r) > MEM_CAP THEN MEM_CAP ELSE RegionEnd(r)

\* The regions with something left after clipping to [MEM_BASE, MEM_CAP).
Clipped(regions) == {r \in regions : ClippedBase(r) < ClippedEnd(r)}

\* The fallback range when the map is empty or has nothing above MEM_BASE.
FreeAtBoot(regions) ==
  IF Clipped(regions) = {}
  THEN mark_range_free(MEM_BASE, FALLBACK_TOP)
  ELSE UNION {mark_range_free(ClippedBase(r), ClippedEnd(r)) : r \in Clipped(regions)}

MemTop(regions) ==
  IF Clipped(regions) = {}
  THEN FALLBACK_TOP
  ELSE CHOOSE end \in {ClippedEnd(r) : r \in Clipped(regions)} :
         \A r \in Clipped(regions) : ClippedEnd(r) <= end

memory_init(regions) ==
  [bitmap         |-> Page \ FreeAtBoot(regions),
   next_free_page |-> MEM_BASE,
   mem_top        |-> MemTop(regions),
   free_list      |-> << >>]

-----------------------------------------------------------------------------
\* The pages the bump scan would still hand out.
BumpScan(m) == {p \in Page : m.next_free_page <= p /\ p < m.mem_top /\ p \notin m.bitmap}

\* The scan stops at the first page at or past mem_top.
ScanEnd(m) ==
  IF m.next_free_page < m.mem_top
  THEN ((m.mem_top + PAGE_SIZE - 1) \div PAGE_SIZE) * PAGE_SIZE
  ELSE m.next_free_page

\* Mistake: the bump pointer moves one page too far.
alloc_page_skips(m) ==
  IF Len(m.free_list) > 0
  THEN [page |-> m.free_list[Len(m.free_list)],
        mem  |-> [m EXCEPT !.free_list = SubSeq(@, 1, Len(@) - 1)]]
  ELSE IF BumpScan(m) # {}
  THEN LET p == Minimum(BumpScan(m))
       IN  [page |-> p,
            mem  |-> [m EXCEPT !.bitmap = @ \cup {p}, !.next_free_page = p + 2 * PAGE_SIZE]]
  ELSE [page |-> NULL, mem |-> [m EXCEPT !.next_free_page = ScanEnd(m)]]

\* Mistake: the free list is only looked at when the bump scan finds nothing.
alloc_page_bump_first(m) ==
  IF BumpScan(m) # {}
  THEN LET p == Minimum(BumpScan(m))
       IN  [page |-> p,
            mem  |-> [m EXCEPT !.bitmap = @ \cup {p}, !.next_free_page = p + PAGE_SIZE]]
  ELSE IF Len(m.free_list) > 0
  THEN [page |-> m.free_list[Len(m.free_list)],
        mem  |-> [m EXCEPT !.free_list = SubSeq(@, 1, Len(@) - 1)]]
  ELSE [page |-> NULL, mem |-> [m EXCEPT !.next_free_page = ScanEnd(m)]]

\* void *alloc_page(void): the page it returns and the allocator after it.
\* The free list comes first, last in first out; then the bump scan.
alloc_page(m) ==
  IF Len(m.free_list) > 0
  THEN [page |-> m.free_list[Len(m.free_list)],
        mem  |-> [m EXCEPT !.free_list = SubSeq(@, 1, Len(@) - 1)]]
  ELSE IF BumpScan(m) # {}
  THEN LET p == Minimum(BumpScan(m))
       IN  [page |-> p,
            mem  |-> [m EXCEPT !.bitmap = @ \cup {p}, !.next_free_page = p + PAGE_SIZE]]
  ELSE [page |-> NULL, mem |-> [m EXCEPT !.next_free_page = ScanEnd(m)]]

\* Mistake: the page's bit is cleared as well.
free_page_clears(m, addr) ==
  IF addr # NULL /\ Len(m.free_list) < FREE_LIST_CAPACITY
  THEN [m EXCEPT !.free_list = Append(@, addr), !.bitmap = @ \ {addr}]
  ELSE m

\* void free_page(void *addr): the bit stays set, and a page that finds the
\* list full is not remembered anywhere.
free_page(m, addr) ==
  IF addr # NULL /\ Len(m.free_list) < FREE_LIST_CAPACITY
  THEN [m EXCEPT !.free_list = Append(@, addr)]
  ELSE m

\* The addresses where `count` consecutive pages are free.
Run(start, count) == {start + i * PAGE_SIZE : i \in 0 .. count - 1}

FreeRuns(m, search_start, count) ==
  {start \in Page : /\ search_start <= start
                    /\ start + count * PAGE_SIZE <= m.mem_top
                    /\ Run(start, count) \cap m.bitmap = {}}

\* The first run, claimed in the bitmap; neither the free list nor the bump
\* pointer is looked at.
find_and_claim_contig(m, search_start, count) ==
  IF count > 0 /\ FreeRuns(m, search_start, count) # {}
  THEN LET start == Minimum(FreeRuns(m, search_start, count))
       IN  [page |-> start, mem |-> [m EXCEPT !.bitmap = @ \cup Run(start, count)]]
  ELSE [page |-> NULL, mem |-> m]

alloc_pages_contig(m, count) == find_and_claim_contig(m, MEM_BASE, count)
alloc_dma_pages(m, count) == find_and_claim_contig(m, PRIVATE_WINDOW_END, count)

=============================================================================
