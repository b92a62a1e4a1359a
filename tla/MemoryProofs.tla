---------------------------- MODULE MemoryProofs ----------------------------
(***************************************************************************)
(* The memory manager is correct for every page size, memory map and free  *)
(* list capacity: its invariants hold, and it implements PageAllocator.    *)
(***************************************************************************)
EXTENDS MemoryManager, MemoryLemmas

\* What makes the invariants inductive: the memory ends at or below MEM_CAP,
\* and a page that may still be handed out, or was, is usable.
OnlyUsable ==
  /\ mem.mem_top <= MEM_CAP
  /\ Page \ mem.bitmap \subseteq Usable
  /\ Elements(mem.free_list) \subseteq Usable
  /\ Held \subseteq Usable

Inv == TypeOK /\ Exclusive /\ NothingSkipped /\ OnlyUsable

-----------------------------------------------------------------------------
\* The pages that are free at boot are whole pages of usable memory.
LEMMA FreeAtBootUsable ==
  ASSUME map \in MemoryMapType
  PROVE  FreeAtBoot(map) \subseteq Usable
<1> SUFFICES ASSUME NEW p \in FreeAtBoot(map)
             PROVE  p \in Usable
  OBVIOUS
<1>1. CASE Clipped(map) = {}
  <2>1. ~ \E b \in MEM_BASE .. MEM_CAP - 1 : Reported(b)
    <3> SUFFICES ASSUME NEW b \in MEM_BASE .. MEM_CAP - 1, NEW r \in map,
                        r.base <= b, b < RegionEnd(r)
                 PROVE  FALSE
      BY DEF Reported
    <3>1. ClippedBase(r) <= b /\ b < ClippedEnd(r)
      BY RegionType, Constants DEF ClippedBase, ClippedEnd
    <3>2. ClippedBase(r) < ClippedEnd(r)
      BY <3>1, RegionType, Constants
    <3> QED
      BY <1>1, <3>2 DEF Clipped
  <2>2. p \in Page /\ p \in Nat /\ MEM_BASE <= p /\ p + PAGE_SIZE <= FALLBACK_TOP
    BY <1>1, PageType DEF FreeAtBoot, mark_range_free
  <2>3. \A a \in p .. p + PAGE_SIZE - 1 : MEM_BASE <= a /\ a < FALLBACK_TOP
    BY <2>2, Constants
  <2> QED
    BY <2>1, <2>2, <2>3 DEF Usable, IsMemory
<1>2. CASE Clipped(map) # {}
  <2>1. PICK r \in Clipped(map) : p \in mark_range_free(ClippedBase(r), ClippedEnd(r))
    BY <1>2 DEF FreeAtBoot
  <2>2. r \in map /\ ClippedBase(r) < ClippedEnd(r)
    BY DEF Clipped
  <2>3. /\ p \in Page /\ p \in Nat
        /\ ClippedBase(r) <= p /\ p + PAGE_SIZE <= ClippedEnd(r)
    BY <2>1, PageType DEF mark_range_free
  <2>4. \A a \in p .. p + PAGE_SIZE - 1 : Reported(a)
    BY <2>2, <2>3, RegionType, Constants DEF Reported
  <2>5. \E b \in MEM_BASE .. MEM_CAP - 1 : Reported(b)
    <3>1. ClippedBase(r) \in MEM_BASE .. MEM_CAP - 1
      BY <2>2, RegionType, Constants
    <3>2. Reported(ClippedBase(r))
      BY <2>2, RegionType, Constants DEF Reported
    <3> QED
      BY <3>1, <3>2
  <2> QED
    BY <2>3, <2>4, <2>5 DEF Usable, IsMemory
<1> QED
  BY <1>1, <1>2

\* Two pages in order are a page size apart.
LEMMA PagesApart ==
  ASSUME NEW p \in Page, NEW q \in Page, p < q
  PROVE  p + PAGE_SIZE <= q
<1> DEFINE S == PAGE_SIZE
           i == p \div S
           j == q \div S
<1>1. p \in Nat /\ q \in Nat /\ S \in Nat \ {0} /\ p % S = 0 /\ q % S = 0
  BY PageType, Constants DEF Page
<1>2. i \in Nat /\ j \in Nat /\ p = S * i /\ q = S * j
  BY <1>1
<1> HIDE DEF i, j, S
<1>3. i < j
  <2> SUFFICES ASSUME j <= i
               PROVE  FALSE
    BY <1>2
  <2>1. S * j <= S * i
    BY <1>1, <1>2
  <2> QED
    BY <1>1, <1>2, <2>1
<1>4. S * (i + 1) <= S * j
  BY <1>1, <1>2, <1>3
<1>5. S * (i + 1) = S * i + S
  BY <1>1, <1>2
<1> QED
  BY <1>1, <1>2, <1>4, <1>5 DEF S

-----------------------------------------------------------------------------
\* memory_init() establishes the invariant.
LEMMA InitInv == Init => Inv
<1> SUFFICES ASSUME Init
             PROVE  Inv
  OBVIOUS
<1> USE DEF Init
<1>0. map \in MemoryMapType
  BY MapAssumption DEF MemoryMapType
<1>1. FreeAtBoot(map) \subseteq Page
  BY DEF FreeAtBoot, mark_range_free
<1>2. /\ mem.bitmap = Page \ FreeAtBoot(map)
      /\ mem.next_free_page = MEM_BASE
      /\ mem.mem_top = MemTop(map)
      /\ mem.free_list = << >>
  BY DEF memory_init
<1>3. Elements(mem.free_list) = {} /\ DOMAIN mem.free_list = {}
  BY <1>2 DEF Elements
<1>4. TypeOK
  <2>1. mem \in [bitmap : SUBSET Page, next_free_page : Nat, mem_top : Nat, free_list : Seq(Page)]
    BY <1>0, MemTopFacts, Constants DEF memory_init
  <2> QED
    BY <2>1 DEF TypeOK
<1>5. Exclusive
  <2>1. \A a \in Address : held[a] = 0
    OBVIOUS
  <2>2. Held = {}
    BY <2>1 DEF Held
  <2> QED
    BY <1>3, <2>1, <2>2 DEF Exclusive
<1>6. NothingSkipped
  <2>1. \A p \in Page : MEM_BASE <= p
    BY Constants DEF Page
  <2> QED
    BY <1>0, <1>1, <1>2, <2>1, MemTopFacts DEF NothingSkipped
<1>7. OnlyUsable
  <2>1. Held = {}
    BY DEF Held
  <2> QED
    BY <1>0, <1>1, <1>2, <1>3, <2>1, MemTopFacts, FreeAtBootUsable DEF OnlyUsable
<1> QED
  BY <1>4, <1>5, <1>6, <1>7 DEF Inv

\* What is usable was settled at boot.
LEMMA UsableFixed ==
  ASSUME UNCHANGED map
  PROVE  Usable' = Usable
BY DEF Usable, IsMemory, Reported

\* A typed, exclusive state has a well-formed allocator.
LEMMA InvWellFormed ==
  ASSUME Inv
  PROVE  mem \in Allocators /\ WellFormed(mem)
BY DEF Inv, TypeOK, Exclusive, Allocators, WellFormed

\* A step of the abstract allocator, as the proofs use it.
AbstractStep ==
  \/ \E pages \in SUBSET Usable :
       /\ pages # {}
       /\ \A p \in pages : held[p] = 0
       /\ held' = [a \in Address |-> IF a \in pages THEN 1 ELSE held[a]]
  \/ \E page \in Usable :
       /\ held[page] = 1
       /\ held' = [held EXCEPT ![page] = 0]
  \/ held' = held

\* Every page has an address of the machine.
LEMMA PageAddress == Page \subseteq Address
BY MemoryAssumption DEF Page, Address

\* A call hands out pages that nobody has: each of them is then in one hand.
LEMMA HandedOut ==
  ASSUME Inv, NEW pages \in SUBSET Page, pages \cap Held = {},
         held' = [a \in Address |-> IF a \in pages THEN held[a] + 1 ELSE held[a]]
  PROVE  /\ held' \in [Address -> Nat]
         /\ \A a \in Address : held'[a] <= 1
         /\ Held' = Held \cup pages
         /\ pages \subseteq Usable /\ pages # {} => AbstractStep
         /\ pages = {} => AbstractStep
<1>1. held \in [Address -> Nat] /\ \A a \in Address : held[a] <= 1
  BY DEF Inv, TypeOK, Exclusive
<1>2. \A p \in pages : p \in Address /\ held[p] = 0
  BY <1>1, PageAddress DEF Held
<1>3. held' = [a \in Address |-> IF a \in pages THEN 1 ELSE held[a]]
  BY <1>1, <1>2
<1>4. held' \in [Address -> Nat] /\ \A a \in Address : held'[a] <= 1
  BY <1>1, <1>3
<1>5. Held' = Held \cup pages
  <2>1. \A a \in Address : held'[a] > 0 <=> held[a] > 0 \/ a \in pages
    BY <1>1, <1>3
  <2> QED
    BY <1>2, <2>1 DEF Held
<1>6. ASSUME pages = {}
      PROVE  held' = held
  BY <1>1, <1>3, <1>6
<1> QED
  BY <1>2, <1>3, <1>4, <1>5, <1>6 DEF AbstractStep

\* A caller gives back the page it has: nobody has it then.
LEMMA GivenBack ==
  ASSUME Inv, NEW addr \in Held, held' = [held EXCEPT ![addr] = held[addr] - 1]
  PROVE  /\ held' \in [Address -> Nat]
         /\ \A a \in Address : held'[a] <= 1
         /\ Held' = Held \ {addr}
         /\ AbstractStep
<1>1. held \in [Address -> Nat] /\ \A a \in Address : held[a] <= 1
  BY DEF Inv, TypeOK, Exclusive
<1>2. addr \in Address /\ held[addr] = 1 /\ addr \in Usable
  BY <1>1 DEF Held, Inv, OnlyUsable
<1>3. held' = [held EXCEPT ![addr] = 0]
  BY <1>1, <1>2
<1>4. held' \in [Address -> Nat] /\ \A a \in Address : held'[a] <= 1
  BY <1>1, <1>2, <1>3
<1>5. Held' = Held \ {addr}
  <2>1. \A a \in Address : held'[a] > 0 <=> held[a] > 0 /\ a # addr
    BY <1>1, <1>2, <1>3
  <2> QED
    BY <2>1 DEF Held
<1> QED
  BY <1>2, <1>3, <1>4, <1>5 DEF AbstractStep

\* alloc_page() keeps the invariant and takes an abstract step.
LEMMA AllocPageStep ==
  ASSUME Inv, AllocPage
  PROVE  Inv' /\ AbstractStep
<1> DEFINE r == alloc_page(mem)
<1>0. mem \in Allocators /\ WellFormed(mem)
  BY InvWellFormed
<1>1. mem' = r.mem /\ UNCHANGED map /\ Usable' = Usable
  BY UsableFixed DEF AllocPage, Claimed
<1> DEFINE given == IF r.page = NULL THEN {} ELSE {r.page}
<1>2. held' = [a \in Address |-> IF a \in given THEN held[a] + 1 ELSE held[a]]
  <2>1. \A p \in Page : Run(p, 1) = {p}
    BY PageType, Constants DEF Run
  <2>2. r.page \in Page \cup {NULL}
    BY <1>0, AllocFacts
  <2>3. (IF r.page = NULL THEN {} ELSE Run(r.page, 1)) = given
    BY <2>1, <2>2
  <2> HIDE DEF r, given
  <2> QED
    BY <2>3 DEF AllocPage, Claimed, r
<1>3. /\ r.mem \in Allocators /\ WellFormed(r.mem)
      /\ r.page \in Page \cup {NULL}
      /\ mem.bitmap \subseteq r.mem.bitmap
      /\ Elements(r.mem.free_list) \subseteq Elements(mem.free_list)
      /\ r.page # NULL =>
           /\ r.page \in r.mem.bitmap
           /\ r.page \notin Elements(r.mem.free_list)
           /\ r.page \in Elements(mem.free_list) \/ r.page \notin mem.bitmap
  BY <1>0, AllocFacts
<1>4. NothingSkipped' /\ mem'.mem_top = mem.mem_top
  <2>1. CASE Len(mem.free_list) > 0
    <3>1. mem' = [mem EXCEPT !.free_list = SubSeq(@, 1, Len(@) - 1)]
      BY <1>1, <2>1 DEF alloc_page
    <3>2. /\ mem'.bitmap = mem.bitmap /\ mem'.next_free_page = mem.next_free_page
          /\ mem'.mem_top = mem.mem_top
      BY <1>0, <3>1 DEF Allocators
    <3> QED
      BY <3>2 DEF NothingSkipped, Inv
  <2>2. CASE ~(Len(mem.free_list) > 0) /\ BumpScan(mem) # {}
    <3>1. /\ r.page \in BumpScan(mem) /\ \A q \in BumpScan(mem) : r.page <= q
          /\ mem' = [mem EXCEPT !.bitmap = @ \cup {r.page},
                                !.next_free_page = r.page + PAGE_SIZE]
      BY <1>0, <1>1, <2>2, AllocByBump
    <3> HIDE DEF r
    <3>2. /\ mem'.bitmap = mem.bitmap \cup {r.page}
          /\ mem'.next_free_page = r.page + PAGE_SIZE
          /\ mem'.mem_top = mem.mem_top
      BY <1>0, <3>1 DEF Allocators
    <3>3. \A q \in Page \ mem'.bitmap : q \in BumpScan(mem) /\ q # r.page
      BY <3>2 DEF NothingSkipped, Inv, BumpScan
    <3>4. \A q \in Page \ mem'.bitmap : r.page + PAGE_SIZE <= q /\ q < mem.mem_top
      <4> TAKE q \in Page \ mem'.bitmap
      <4>1. r.page \in Page /\ q \in Page /\ r.page <= q /\ q # r.page
        BY <3>1, <3>3 DEF BumpScan
      <4>2. r.page < q
        <5>1. r.page \in Nat /\ q \in Nat
          BY <4>1, PageType, Zenon
        <5> QED
          BY <4>1, <5>1
      <4> QED
        BY <3>3, <4>1, <4>2, PagesApart DEF BumpScan
    <3> QED
      BY <3>2, <3>4 DEF NothingSkipped
  <2>3. CASE ~(Len(mem.free_list) > 0) /\ BumpScan(mem) = {}
    <3>1. mem' = [mem EXCEPT !.next_free_page = ScanEnd(mem)]
      BY <1>0, <1>1, <2>3, AllocFails
    <3>2. mem'.bitmap = mem.bitmap /\ mem'.mem_top = mem.mem_top
      BY <1>0, <3>1 DEF Allocators
    <3>3. Page \ mem'.bitmap = {}
      BY <2>3, <3>2 DEF NothingSkipped, Inv, BumpScan
    <3> QED
      BY <3>2, <3>3 DEF NothingSkipped
  <2> QED
    BY <2>1, <2>2, <2>3
<1> HIDE DEF r
<1>5. given \subseteq Page /\ given \subseteq Usable /\ given \cap Held = {}
  BY <1>3 DEF Inv, Exclusive, OnlyUsable
<1>6. /\ held' \in [Address -> Nat]
      /\ \A a \in Address : held'[a] <= 1
      /\ Held' = Held \cup given
      /\ AbstractStep
  <2> HIDE DEF given
  <2> QED
    BY <1>2, <1>5, HandedOut
<1>7. TypeOK'
  BY <1>1, <1>3, <1>6 DEF TypeOK, Inv, Allocators
<1>8. Exclusive'
  <2>1. /\ Held \cap Elements(mem.free_list) = {}
        /\ Held \cup Elements(mem.free_list) \subseteq mem.bitmap
    BY DEF Inv, Exclusive
  <2>2. /\ Held' \cap Elements(mem'.free_list) = {}
        /\ Held' \cup Elements(mem'.free_list) \subseteq mem'.bitmap
    BY <1>1, <1>3, <1>6, <2>1
  <2> QED
    BY <1>1, <1>3, <1>6, <2>2 DEF Exclusive, WellFormed
<1>9. OnlyUsable'
  <2>1. /\ mem.mem_top <= MEM_CAP
        /\ Page \ mem.bitmap \subseteq Usable
        /\ Elements(mem.free_list) \subseteq Usable
        /\ Held \subseteq Usable
    BY DEF Inv, OnlyUsable
  <2>2. /\ mem'.mem_top <= MEM_CAP
        /\ Page \ mem'.bitmap \subseteq Usable
        /\ Elements(mem'.free_list) \subseteq Usable
        /\ Held' \subseteq Usable
    BY <1>1, <1>3, <1>4, <1>5, <1>6, <2>1
  <2> QED
    BY <1>1, <2>2 DEF OnlyUsable
<1> QED
  BY <1>4, <1>6, <1>7, <1>8, <1>9 DEF Inv

\* free_page() keeps the invariant and takes an abstract step.
LEMMA FreePageStep ==
  ASSUME Inv, NEW addr \in Held, FreePage(addr)
  PROVE  Inv' /\ AbstractStep
<1> DEFINE n == free_page(mem, addr)
<1>0. mem \in Allocators /\ WellFormed(mem)
  BY InvWellFormed
<1>1. mem' = n /\ UNCHANGED map /\ Usable' = Usable
  BY UsableFixed DEF FreePage
<1>2. addr \in Page /\ addr \in mem.bitmap \ Elements(mem.free_list)
  BY DEF Inv, TypeOK, Exclusive
<1>a. /\ held' \in [Address -> Nat]
      /\ \A a \in Address : held'[a] <= 1
      /\ Held' = Held \ {addr}
      /\ AbstractStep
  BY GivenBack DEF FreePage
<1>3. /\ n \in Allocators /\ WellFormed(n)
      /\ n.bitmap = mem.bitmap
      /\ n.next_free_page = mem.next_free_page
      /\ n.mem_top = mem.mem_top
      /\ Elements(n.free_list) \subseteq Elements(mem.free_list) \cup {addr}
  BY <1>0, <1>2, FreeFacts
<1> HIDE DEF n
<1>4. TypeOK'
  BY <1>1, <1>3, <1>a DEF TypeOK, Inv, Allocators
<1>5. Exclusive'
  <2>1. /\ Held' \cap Elements(mem'.free_list) = {}
        /\ Held' \cup Elements(mem'.free_list) \subseteq mem'.bitmap
    BY <1>1, <1>2, <1>3, <1>a DEF Inv, Exclusive
  <2> QED
    BY <1>1, <1>3, <1>a, <2>1 DEF Exclusive, WellFormed
<1>6. NothingSkipped'
  BY <1>1, <1>3 DEF NothingSkipped, Inv
<1>7. OnlyUsable'
  BY <1>1, <1>2, <1>3, <1>a DEF OnlyUsable, Inv
<1> QED
  BY <1>4, <1>5, <1>6, <1>7, <1>a DEF Inv

\* A call that claims a run of pages keeps the invariant and takes an
\* abstract step.
LEMMA ClaimStep ==
  ASSUME Inv, NEW count \in 0 .. MaxRun, NEW base,
         Claimed(find_and_claim_contig(mem, base, count), count)
  PROVE  Inv' /\ AbstractStep
<1> DEFINE r == find_and_claim_contig(mem, base, count)
           start == Minimum(FreeRuns(mem, base, count))
           run == Run(start, count)
<1>0. mem \in Allocators /\ WellFormed(mem) /\ count \in Nat
  BY InvWellFormed, MapAssumption
<1>1. mem' = r.mem /\ UNCHANGED map /\ Usable' = Usable
  BY UsableFixed DEF Claimed
<1> DEFINE given == IF r.page = NULL THEN {} ELSE Run(r.page, count)
<1>2. held' = [a \in Address |-> IF a \in given THEN held[a] + 1 ELSE held[a]]
  BY DEF Claimed
<1>3. CASE count > 0 /\ FreeRuns(mem, base, count) # {}
  <2>1. FreeRuns(mem, base, count) \in SUBSET Nat /\ FreeRuns(mem, base, count) \subseteq Page
    BY PageType DEF FreeRuns
  <2>2. start \in FreeRuns(mem, base, count)
    BY <1>3, <2>1, MinimumExists
  <2>3. r.page = start /\ r.mem = [mem EXCEPT !.bitmap = @ \cup run]
    BY <1>3 DEF find_and_claim_contig
  <2> HIDE DEF start
  <2>4. start \in Nat /\ start # NULL /\ start \in Page
    BY <2>1, <2>2, PageType
  <2>5. run \subseteq Page \ mem.bitmap
    BY <1>0, <2>2, <2>4, RunFacts DEF Inv, OnlyUsable
  <2>6. run # {}
    <3>1. 0 \in 0 .. count - 1
      BY <1>0, <1>3
    <3> QED
      BY <3>1 DEF Run
  <2> HIDE DEF run, r
  <2>7. /\ mem'.bitmap = mem.bitmap \cup run
        /\ mem'.next_free_page = mem.next_free_page
        /\ mem'.mem_top = mem.mem_top
        /\ mem'.free_list = mem.free_list
        /\ mem' \in Allocators
    BY <1>0, <1>1, <2>3, <2>5 DEF Allocators
  <2>8. given = run
    BY <2>3, <2>4 DEF run
  <2>9. run \subseteq Page /\ run \subseteq Usable /\ run \cap Held = {}
    BY <2>5 DEF Inv, Exclusive, OnlyUsable
  <2> HIDE DEF given
  <2>a. /\ held' \in [Address -> Nat]
        /\ \A a \in Address : held'[a] <= 1
        /\ Held' = Held \cup run
        /\ AbstractStep
    BY <1>2, <2>6, <2>8, <2>9, HandedOut
  <2>10. TypeOK'
    BY <1>1, <2>5, <2>7, <2>a DEF TypeOK, Inv, Allocators
  <2>11. Exclusive'
    BY <2>5, <2>7, <2>a DEF Exclusive, Inv
  <2>12. NothingSkipped'
    BY <2>7 DEF NothingSkipped, Inv
  <2>13. OnlyUsable'
    BY <1>1, <2>7, <2>9, <2>a DEF OnlyUsable, Inv
  <2> QED
    BY <2>10, <2>11, <2>12, <2>13, <2>a DEF Inv
<1>4. CASE ~(count > 0 /\ FreeRuns(mem, base, count) # {})
  <2>1. mem' = mem /\ given = {}
    BY <1>1, <1>4 DEF find_and_claim_contig
  <2>2. held' = held
    <3>1. held \in [Address -> Nat]
      BY DEF Inv, TypeOK
    <3> HIDE DEF given
    <3> QED
      BY <1>2, <2>1, <3>1
  <2> QED
    BY <1>1, <2>1, <2>2
       DEF Inv, TypeOK, Exclusive, Held, NothingSkipped, OnlyUsable, AbstractStep
<1> QED
  BY <1>3, <1>4

\* Every step keeps the invariant, and is an abstract step.
LEMMA NextInv ==
  ASSUME Inv, [Next]_vars
  PROVE  Inv' /\ AbstractStep /\ Usable' = Usable
<1>1. CASE AllocPage
  BY <1>1, AllocPageStep, UsableFixed DEF AllocPage, Claimed
<1>2. CASE \E addr \in Held : FreePage(addr)
  BY <1>2, FreePageStep, UsableFixed DEF FreePage
<1>3. ASSUME NEW count \in 0 .. MaxRun, AllocPagesContig(count)
      PROVE  Inv' /\ AbstractStep /\ Usable' = Usable
  BY <1>3, ClaimStep, UsableFixed DEF AllocPagesContig, alloc_pages_contig, Claimed
<1>4. ASSUME NEW count \in 0 .. MaxRun, AllocDmaPages(count)
      PROVE  Inv' /\ AbstractStep /\ Usable' = Usable
  BY <1>4, ClaimStep, UsableFixed DEF AllocDmaPages, alloc_dma_pages, Claimed
<1>5. CASE UNCHANGED vars
  <2>1. UNCHANGED <<map, mem, held>>
    BY <1>5 DEF vars
  <2> QED
    BY <2>1, UsableFixed
       DEF Inv, TypeOK, Exclusive, Held, NothingSkipped, OnlyUsable, AbstractStep
<1> QED
  BY <1>1, <1>2, <1>3, <1>4, <1>5 DEF Next

-----------------------------------------------------------------------------
\* The memory manager keeps its types, never has a page in two callers' hands,
\* or both in a caller's hands and on the free list, or twice on the list, and its bump scan leaves
\* no free page behind, for every memory map and every sequence of calls.
THEOREM Invariance == Spec => [](TypeOK /\ Exclusive /\ NothingSkipped)
<1>1. Inv /\ [Next]_vars => Inv'
  BY NextInv
<1>2. Inv => TypeOK /\ Exclusive /\ NothingSkipped
  BY DEF Inv
<1> QED
  BY InitInv, <1>1, <1>2, PTL DEF Spec

\* The memory manager of memory.c implements the abstract page allocator: no
\* call hands out a page that a caller still has, or one that is not memory.
THEOREM Refinement == Spec => Implements
<1>1. Init => Abstract!Init
  BY DEF Init, Abstract!Init
<1>2. Inv /\ [Next]_vars => [Abstract!Next]_<<Usable, held>>
  <2> SUFFICES ASSUME Inv, [Next]_vars
               PROVE  [Abstract!Next]_<<Usable, held>>
    OBVIOUS
  <2>1. AbstractStep /\ Usable' = Usable
    BY NextInv
  <2> QED
    BY <2>1 DEF AbstractStep, Abstract!Next, Abstract!Allocate, Abstract!Release
<1>3. Inv /\ [Next]_vars => Inv'
  BY NextInv
<1> QED
  BY InitInv, <1>1, <1>2, <1>3, PTL DEF Spec, Implements, Abstract!Spec
=============================================================================
