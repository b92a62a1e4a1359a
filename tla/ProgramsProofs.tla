--------------------------- MODULE ProgramsProofs ---------------------------
(***************************************************************************)
(* What the loader and the program windows promise, for every number of    *)
(* slots, pool, window and page size, every object and every interleaving  *)
(* of loads with the steps of the actor kernel.  The kernel's own          *)
(* invariant is the one of ActorsProofs.tla.                               *)
(***************************************************************************)
EXTENDS Programs, ActorsProofs

\* The pages of a program, in the allocator m: claimed, off the free list, past
\* the window the stacks are in, and large enough for the entry point.
Sound(p, m) ==
  /\ p.entry_offset < p.pages * PAGE_SIZE
  /\ PagesOf(p) \subseteq m.bitmap \ Elements(m.free_list)
  /\ \A q \in PagesOf(p) : q >= PRIVATE_WINDOW_END

\* The tables of the pool: handed out in order, one to a slot, never taken
\* back; a window only ever shows a table of its slot.
PoolInv ==
  /\ as_pd \in [Slot -> Table \cup {NoTable}]
  /\ as_pt1 \in [Table -> SUBSET Page]
  /\ as_pt1_owner \in [Table -> Slot \cup {NoActor}]
  /\ as_pt1_pool_init_done \in BOOLEAN
  /\ OneTablePerSlot
  /\ as_pt1_pool_init_done =>
       \A t, u \in Table : t < u /\ as_pt1_owner[t] = NoActor => as_pt1_owner[u] = NoActor
  /\ \A s \in Slot : as_pd[s] # NoTable => as_pt1_pool_init_done /\ as_pt1_owner[as_pd[s]] = s

\* The program on its way from the loader to the kernel.
LoadingInv ==
  /\ loading \in Program \cup {NoProgram}
  /\ CopyInBounds
  /\ loading # NoProgram => Sound(loading, mem)

\* The programs of the live actors, with the pages of no other.
LoadedInv ==
  /\ loaded \in [Slot -> Program \cup {NoProgram}]
  /\ \A s \in Slot : state[s] # "DEAD" /\ loaded[s] = NoProgram => as_pd[s] = NoTable
  /\ \A s \in Slot : loaded[s] # NoProgram =>
       /\ state[s] # "DEAD"
       /\ as_pd[s] # NoTable /\ as_pt1[as_pd[s]] = PagesOf(loaded[s])
       /\ Sound(loaded[s], mem)
       /\ loading # NoProgram => PagesOf(loaded[s]) \cap PagesOf(loading) = {}
       /\ \A t \in Slot \ {s} :
            loaded[t] # NoProgram => PagesOf(loaded[s]) \cap PagesOf(loaded[t]) = {}

\* The inductive invariant.
PInv ==
  /\ IInv
  /\ mem.mem_top <= MEM_CAP
  /\ PoolInv
  /\ LoadingInv
  /\ LoadedInv

-----------------------------------------------------------------------------
\* The allocator.
\* The pages that no call of the kernel's gives away.
Kept(m, n) ==
  /\ n.mem_top = m.mem_top
  /\ \A p \in m.bitmap \ Elements(m.free_list) :
       p >= PRIVATE_WINDOW_END => p \in n.bitmap \ Elements(n.free_list)

\* A program whose pages are kept stays sound.
LEMMA SoundKept ==
  ASSUME NEW m, NEW n, NEW p, Kept(m, n), Sound(p, m)
  PROVE  Sound(p, n)
BY SMTT(30) DEF Kept, Sound

\* Allocating a page, and giving back what was just allocated.
LEMMA SpawnMemKept ==
  ASSUME IInv
  PROVE  Kept(mem, SpawnMem)
<1> DEFINE r == alloc_page(mem)
           n == free_page(r.mem, r.page)
<1>1. /\ mem \in Allocators /\ WellFormed(mem)
  BY PagesInv, SMTT(30) DEF StacksOK
<1>2. /\ r.mem \in Allocators /\ WellFormed(r.mem)
      /\ r.page \in Page \cup {NULL}
      /\ mem.bitmap \subseteq r.mem.bitmap
      /\ Elements(r.mem.free_list) \subseteq Elements(mem.free_list)
      /\ r.page # NULL =>
           /\ r.page \in r.mem.bitmap
           /\ r.page \notin Elements(r.mem.free_list)
           /\ r.page \in Elements(mem.free_list) \/ r.page \notin mem.bitmap
  BY <1>1, AllocFacts, ZenonT(30)
<1>3. r.mem.mem_top = mem.mem_top
  BY <1>1, SMTT(30) DEF alloc_page, Allocators
<1>4. r.page \in Page => r.page \in r.mem.bitmap \ Elements(r.mem.free_list)
  BY <1>2, PageType, SMTT(30)
<1> HIDE DEF r
<1>5. /\ n.bitmap = r.mem.bitmap /\ n.mem_top = r.mem.mem_top
      /\ Elements(n.free_list) \subseteq Elements(r.mem.free_list) \cup ({r.page} \ {NULL})
  BY <1>2, <1>4, FreeFacts, ZenonT(30)
<1> HIDE DEF n
<1>6. Kept(mem, mem) /\ Kept(mem, r.mem) /\ Kept(mem, n)
  BY <1>2, <1>3, <1>5, ZenonT(30) DEF Kept
<1> QED
  BY <1>6, SMTT(30) DEF SpawnMem, r, n

\* Reaping frees stacks, which are inside the private window.
LEMMA ReapKept ==
  ASSUME IInv, NEW st, reap_dead_actors(st)
  PROVE  Kept(mem, mem')
<1> DEFINE pages == ReapedPages(st)
<1>1. /\ mem \in Allocators /\ stack_page \in [Slot -> Page \cup {NULL}]
      /\ StacksOK(stack_page, mem) /\ WellFormed(mem)
  BY PagesInv, SMTT(30) DEF StacksOK
<1>2. /\ pages \in Seq(Page)
      /\ \A i, j \in DOMAIN pages : pages[i] = pages[j] => i = j
      /\ Elements(pages) \subseteq {stack_page[s] : s \in Reaped(st)}
      /\ Elements(pages) \subseteq mem.bitmap \ Elements(mem.free_list)
  BY <1>1, ReapedFacts, ZenonT(30)
<1>3. mem' = FreePages(mem, pages)
  BY DEF reap_dead_actors
<1>4. \A p \in {stack_page[s] : s \in Reaped(st)} : ~(p >= PRIVATE_WINDOW_END)
  <2> SUFFICES ASSUME NEW s \in Reaped(st)
               PROVE  ~(stack_page[s] >= PRIVATE_WINDOW_END)
    BY SMTT(30)
  <2>1. s \in Slot /\ stack_page[s] # NULL
    BY SMTT(30) DEF Reaped
  <2>2. hal_address_space_create(stack_page[s]) /\ stack_page[s] \in Nat
    BY <1>1, <2>1, PageType, ZenonT(30) DEF StacksOK
  <2> QED
    BY <2>2, Constants, SMTT(30) DEF hal_address_space_create
<1> HIDE DEF pages
<1>5. /\ mem'.bitmap = mem.bitmap
      /\ Elements(mem'.free_list) \subseteq Elements(mem.free_list) \cup Elements(pages)
  BY <1>1, <1>2, <1>3, FreePagesFacts, ZenonT(30)
<1>6. mem'.mem_top = mem.mem_top
  BY <1>1, <1>3, SMTT(30) DEF FreePages, Allocators
<1> QED
  BY <1>2, <1>4, <1>5, <1>6, ZenonT(30) DEF Kept

\* No step of the kernel gives a program's page away.
LEMMA NextKept ==
  ASSUME IInv, [Next]_vars
  PROVE  Kept(mem, mem')
<1>1. CASE mem' = mem
  BY <1>1, SMTT(30) DEF Kept
<1>2. CASE mem' = SpawnMem
  BY <1>2, SpawnMemKept, SMTT(30)
<1>3. CASE \E x \in {"READY", "DEAD", "BLOCKED"} : schedule_next([state EXCEPT ![current_actor] = x])
  BY <1>3, ReapKept, SMTT(30) DEF schedule_next
<1>4. CASE schedule_next(state)
  BY <1>4, ReapKept, SMTT(30) DEF schedule_next
<1>5. BootSpawn \/ actor_spawn_child \/ SpawnFails => mem' = SpawnMem
  BY SMTT(30) DEF BootSpawn, actor_spawn, actor_spawn_child, SpawnFails
<1>6. /\ BootStart => schedule_next(state)
      /\ SysYield \/ TimerTick => schedule_next([state EXCEPT ![current_actor] = "READY"])
      /\ actor_exit => schedule_next([state EXCEPT ![current_actor] = "DEAD"])
      /\ actor_receive => mem' = mem \/ schedule_next([state EXCEPT ![current_actor] = "BLOCKED"])
  BY SMTT(30) DEF BootStart, SysYield, TimerTick, actor_yield, actor_exit, actor_receive
<1>7. /\ \A dest \in Slot, payload \in Payload : actor_send(dest, payload) => mem' = mem
      /\ \A dest \in Slot, op \in Delegable, target \in Slot :
           actor_delegate(dest, op, target) => mem' = mem
      /\ \A target \in Slot : actor_terminate(target) => mem' = mem
      /\ Panic \/ Halted \/ UNCHANGED vars => mem' = mem
  BY DEF actor_send, actor_delegate, actor_terminate, Panic, Halted, vars
<1> QED
  BY <1>1, <1>2, <1>3, <1>4, <1>5, <1>6, <1>7, SMTT(30) DEF Next

\* What alloc_dma_pages() claims: a run of pages nobody had, past the window.
LEMMA ClaimFacts ==
  ASSUME NEW m \in Allocators, m.mem_top <= MEM_CAP, NEW count \in Nat,
         alloc_dma_pages(m, count).page # NULL
  PROVE  LET r == alloc_dma_pages(m, count)
         IN  /\ count # 0 /\ r.page \in Page
             /\ Run(r.page, count) \subseteq Page \ m.bitmap
             /\ \A p \in Run(r.page, count) : p >= PRIVATE_WINDOW_END
             /\ r.mem = [m EXCEPT !.bitmap = @ \cup Run(r.page, count)]
<1> DEFINE S == FreeRuns(m, PRIVATE_WINDOW_END, count)
           start == Minimum(S)
<1>1. count > 0 /\ S # {}
  BY SMTT(30) DEF alloc_dma_pages, find_and_claim_contig
<1>2. S \in SUBSET Nat
  BY PageType, ZenonT(30) DEF FreeRuns
<1>3. start \in S
  <2> HIDE DEF S
  <2> QED  BY <1>1, <1>2, MinimumExists
<1>4. start \in Nat /\ start \in Page /\ PRIVATE_WINDOW_END <= start
  BY <1>3, PageType, ZenonT(30) DEF FreeRuns
<1>5. /\ alloc_dma_pages(m, count).page = start
      /\ alloc_dma_pages(m, count).mem = [m EXCEPT !.bitmap = @ \cup Run(start, count)]
  BY <1>1 DEF alloc_dma_pages, find_and_claim_contig
<1>6. start \in FreeRuns(m, PRIVATE_WINDOW_END, count)
  BY <1>3
<1> HIDE DEF start, S
<1>7. Run(start, count) \subseteq Page \ m.bitmap
  BY <1>4, <1>6, RunFacts
<1>8. \A p \in Run(start, count) : p >= PRIVATE_WINDOW_END
  <2> SUFFICES ASSUME NEW k \in 0 .. count - 1
               PROVE  start + k * PAGE_SIZE >= PRIVATE_WINDOW_END
    BY SMTT(30) DEF Run
  <2>1. k * PAGE_SIZE \in Nat
    BY Constants, SMTT(30)
  <2> QED
    BY <1>4, <2>1, Constants, SMTT(30)
<1> QED
  BY <1>1, <1>4, <1>5, <1>7, <1>8, SMTT(30)

\* The pages the loader asks for hold the code.
LEMMA PagesForFacts ==
  ASSUME NEW image \in Images, IsProgram(image)
  PROVE  /\ PagesFor(image) \in Nat
         /\ image.code_size <= PagesFor(image) * PAGE_SIZE
         /\ image.entry_offset < PagesFor(image) * PAGE_SIZE
         /\ image.entry_offset \in Nat /\ image.code_size \in Nat /\ image.bytes \in Nat
         /\ image.entry_offset < image.code_size
         /\ PROGRAM_HEADER + image.code_size <= image.bytes
<1> DEFINE c == image.code_size
           e == image.entry_offset
           n == c + PAGE_SIZE - 1
           q == n \div PAGE_SIZE
<1>1. /\ c \in Nat /\ e \in Nat /\ image.bytes \in Nat
      /\ PROGRAM_HEADER \in Nat /\ UINT32 \in Nat \ {0} /\ PROGRAM_WINDOW_MAX \in Nat
      /\ PROGRAM_WINDOW_MAX + PAGE_SIZE <= UINT32
  BY ProgramsAssumption, SMTT(30) DEF Image
<1>2. /\ c <= PROGRAM_WINDOW_MAX /\ c # 0
      /\ image.bytes >= PROGRAM_HEADER + c /\ e < c
  BY DEF IsProgram
<1>3. PagesFor(image) = (n % UINT32) \div PAGE_SIZE
  BY DEF PagesFor
<1>4. PAGE_SIZE \in Nat \ {0}
  BY Constants, SMTT(30)
<1> HIDE DEF c, e
<1>5. n \in Nat /\ n < UINT32
  BY <1>1, <1>2, <1>4, SMTT(30)
<1>6. n % UINT32 = n
  <2> HIDE DEF n
  <2> QED  BY <1>1, <1>5, SMTT(30)
<1>7. q \in Nat /\ n < q * PAGE_SIZE + PAGE_SIZE
  <2> HIDE DEF n
  <2>1. n = PAGE_SIZE * q + (n % PAGE_SIZE) /\ n % PAGE_SIZE < PAGE_SIZE /\ n % PAGE_SIZE \in Nat
    BY <1>4, <1>5, SMTT(30)
  <2>2. q \in Nat
    BY <1>4, <1>5, SMTT(30)
  <2> HIDE DEF q
  <2>3. PAGE_SIZE * q = q * PAGE_SIZE /\ q * PAGE_SIZE \in Nat
    BY <1>4, <2>2, SMTT(30)
  <2> QED
    BY <1>4, <2>1, <2>2, <2>3, SMTT(30)
<1> HIDE DEF q
<1>8. q * PAGE_SIZE \in Nat
  BY <1>4, <1>7, SMTT(30)
<1>9. c <= q * PAGE_SIZE
  BY <1>1, <1>4, <1>7, <1>8, SMTT(30)
<1>10. PagesFor(image) = q
  BY <1>3, <1>6, SMTT(30) DEF q
<1>11. e < q * PAGE_SIZE
  BY <1>1, <1>2, <1>8, <1>9, SMTT(30)
<1> QED
  BY <1>1, <1>2, <1>7, <1>9, <1>10, <1>11, SMTT(30) DEF c, e
-----------------------------------------------------------------------------
\* The steps.
\* It holds at boot.
LEMMA ProgramsInitInv == ProgramsInit => PInv
<1> SUFFICES ASSUME ProgramsInit PROVE PInv
  OBVIOUS
<1>1. IInv
  BY InitInv, SMTT(30) DEF ProgramsInit
<1>2. mem.mem_top <= MEM_CAP
  <2>1. BootMap \in MemoryMapType
    BY ActorsAssumption DEF MemoryMapType
  <2>2. MemTop(BootMap) <= MEM_CAP
    BY <2>1, MemTopFacts, SMTT(30)
  <2> QED
    BY <2>2, SMTT(30) DEF ProgramsInit, Init, memory_init
<1>3. PoolInv
  <2>1. 0 \in Slot
    BY ActorsAssumption, SMTT(30) DEF Slot
  <2> QED
    BY <2>1, ZenonT(30) DEF ProgramsInit, PoolInv, OneTablePerSlot
<1>4. LoadingInv
  BY SMTT(30) DEF ProgramsInit, LoadingInv, CopyInBounds
<1>5. LoadedInv
  BY SMTT(30) DEF ProgramsInit, LoadedInv
<1> QED
  BY <1>1, <1>2, <1>3, <1>4, <1>5, SMTT(30) DEF PInv

\* Rebuilding the page directory of a slot leaves the pool as it is.
LEMMA PoolKept ==
  ASSUME PoolInv, UNCHANGED tables, as_pd' \in [Slot -> Table \cup {NoTable}],
         \A s \in Slot : as_pd'[s] \in {as_pd[s], NoTable}
  PROVE  PoolInv'
BY SMTT(30) DEF PoolInv, OneTablePerSlot, tables

\* What every step but the end of a load that succeeds does to the programs: it
\* may end some actors, and starts none in a program.
LEMMA ProgramsKept ==
  ASSUME PInv, IInv', Kept(mem, mem'), UNCHANGED tables, loading' = NoProgram,
         as_pd' \in [Slot -> Table \cup {NoTable}],
         loaded' \in [Slot -> Program \cup {NoProgram}],
         \A s \in Slot : as_pd'[s] \in {as_pd[s], NoTable},
         \A s \in Slot : loaded'[s] # NoProgram =>
           loaded'[s] = loaded[s] /\ state'[s] # "DEAD" /\ as_pd'[s] = as_pd[s],
         \A s \in Slot : state'[s] # "DEAD" /\ loaded'[s] = NoProgram => as_pd'[s] = NoTable
  PROVE  PInv'
<1>1. PoolInv'
  BY PoolKept, ZenonT(30) DEF PInv
<1>2. mem'.mem_top <= MEM_CAP
  BY SMTT(30) DEF PInv, Kept
<1>3. LoadingInv'
  BY ZenonT(30) DEF LoadingInv, CopyInBounds
<1>4. LoadedInv'
  <2> SUFFICES ASSUME NEW s \in Slot, loaded'[s] # NoProgram
               PROVE  /\ state'[s] # "DEAD"
                      /\ as_pd'[s] # NoTable /\ as_pt1'[as_pd'[s]] = PagesOf(loaded'[s])
                      /\ Sound(loaded'[s], mem')
                      /\ \A t \in Slot \ {s} :
                           loaded'[t] # NoProgram => PagesOf(loaded'[s]) \cap PagesOf(loaded'[t]) = {}
    BY ZenonT(30) DEF LoadedInv, PagesOf, Sound
  <2>1. loaded'[s] = loaded[s] /\ state'[s] # "DEAD" /\ as_pd'[s] = as_pd[s] /\ as_pt1' = as_pt1
    BY SMTT(30) DEF tables
  <2>2. /\ as_pd[s] # NoTable /\ as_pt1[as_pd[s]] = PagesOf(loaded[s])
        /\ Sound(loaded[s], mem)
        /\ \A t \in Slot \ {s} :
             loaded[t] # NoProgram => PagesOf(loaded[s]) \cap PagesOf(loaded[t]) = {}
    BY <2>1, ZenonT(30) DEF PInv, LoadedInv
  <2>3. Sound(loaded[s], mem')
    BY <2>2, SoundKept, ZenonT(30)
  <2> QED
    BY <2>1, <2>2, <2>3, ZenonT(30)
<1> QED
  BY <1>1, <1>2, <1>3, <1>4, SMTT(30) DEF PInv

\* A step of the kernel.
LEMMA KernelStepInv == PInv /\ KernelStep => PInv'
<1> SUFFICES ASSUME PInv, KernelStep PROVE PInv'
  OBVIOUS
<1>1. /\ loading' = NoProgram /\ UNCHANGED tables
      /\ as_pd' = [s \in Slot |-> IF Spawned(s) THEN NoTable ELSE as_pd[s]]
      /\ loaded' = [s \in Slot |->
           IF state[s] = "DEAD" \/ state'[s] = "DEAD" THEN NoProgram ELSE loaded[s]]
  BY ZenonT(30) DEF KernelStep, RebuiltDirectories
<1>2. IInv' /\ Kept(mem, mem')
  BY NextInv, NextKept, ZenonT(30) DEF PInv, KernelStep
<1>3. /\ as_pd \in [Slot -> Table \cup {NoTable}]
      /\ loaded \in [Slot -> Program \cup {NoProgram}]
      /\ \A s \in Slot : state[s] # "DEAD" /\ loaded[s] = NoProgram => as_pd[s] = NoTable
  BY SMTT(30) DEF PInv, PoolInv, LoadedInv
<1>4. /\ as_pd' \in [Slot -> Table \cup {NoTable}]
      /\ loaded' \in [Slot -> Program \cup {NoProgram}]
      /\ \A s \in Slot : as_pd'[s] \in {as_pd[s], NoTable}
  BY <1>1, <1>3, SMTT(30)
<1>5. /\ \A s \in Slot : loaded'[s] # NoProgram =>
           loaded'[s] = loaded[s] /\ state'[s] # "DEAD" /\ as_pd'[s] = as_pd[s]
      /\ \A s \in Slot : state'[s] # "DEAD" /\ loaded'[s] = NoProgram => as_pd'[s] = NoTable
  BY <1>1, <1>3, SMTT(30) DEF Spawned
<1> QED
  BY <1>1, <1>2, <1>4, <1>5, ProgramsKept, ZenonT(30)

\* A load that ends without a spawn: refused, or no slot or stack.
LEMMA LoadEndsInv == PInv /\ (LoadRefused \/ LoadUnspawned) => PInv'
<1> SUFFICES ASSUME PInv, LoadRefused \/ LoadUnspawned PROVE PInv'
  BY SMTT(30)
<1>1. /\ loading' = NoProgram /\ as_pd' = as_pd /\ loaded' = loaded /\ UNCHANGED tables
      /\ state' = state
  BY SMTT(30) DEF LoadRefused, LoadUnspawned, SpawnFails, vars
<1>2. [Next]_vars
  BY DEF LoadRefused, LoadUnspawned, Next
<1>3. IInv' /\ Kept(mem, mem')
  BY <1>2, NextInv, NextKept, SMTT(30) DEF PInv
<1> QED
  BY <1>1, <1>3, ProgramsKept, ZenonT(30) DEF PInv, PoolInv, LoadedInv

\* The loader claims pages and changes nothing else.
LEMMA LoaderInv ==
  ASSUME PInv, NEW id \in Object, NEW image \in Images, loader_spawn_program(id, image)
  PROVE  PInv'
<1> DEFINE n == PagesFor(image)
           r == alloc_dma_pages(mem, n)
           run == Run(r.page, n)
<1>1. /\ r.page # NULL /\ IsProgram(image) /\ mem' = r.mem
      /\ loading' = [base |-> r.page, pages |-> n, entry_offset |-> image.entry_offset,
                     code_size |-> image.code_size, bytes |-> image.bytes]
      /\ UNCHANGED <<state, stack_page, mailbox, caps, spawn_count, spawn_quota, receiving,
                     current_actor, booted, machine, as_pd, tables, loaded>>
  BY SMTT(30) DEF loader_spawn_program, ClaimPages
<1>2. /\ n \in Nat /\ image.code_size <= n * PAGE_SIZE /\ image.entry_offset < n * PAGE_SIZE
      /\ image.entry_offset \in Nat /\ image.code_size \in Nat /\ image.bytes \in Nat
      /\ image.entry_offset < image.code_size
      /\ PROGRAM_HEADER + image.code_size <= image.bytes
  BY <1>1, PagesForFacts, SMTT(30)
<1>3. /\ mem \in Allocators /\ stack_page \in [Slot -> Page \cup {NULL}]
      /\ StacksOK(stack_page, mem) /\ WellFormed(mem) /\ mem.mem_top <= MEM_CAP
  BY PagesInv, ZenonT(30) DEF PInv, StacksOK
<1> HIDE DEF n
<1>4. /\ n # 0 /\ r.page \in Page
      /\ run \subseteq Page \ mem.bitmap
      /\ \A p \in run : p >= PRIVATE_WINDOW_END
      /\ r.mem = [mem EXCEPT !.bitmap = @ \cup run]
  BY <1>1, <1>2, <1>3, ClaimFacts, SMTT(30)
<1> HIDE DEF r, run
<1>5. /\ mem'.bitmap = mem.bitmap \cup run
      /\ mem'.free_list = mem.free_list /\ mem'.mem_top = mem.mem_top
      /\ mem' \in Allocators
  BY <1>1, <1>3, <1>4, SMTT(30) DEF Allocators
<1>6. IInv'
  <2>1. StacksOK(stack_page', mem')
    BY <1>1, <1>3, <1>5, ZenonT(30) DEF StacksOK, WellFormed
  <2>2. \A s \in Slot : state'[s] # "DEAD" => stack_page'[s] # NULL
    BY <1>1, ZenonT(30) DEF PInv, IInv, PrivateStacks
  <2>3. PrivateStacks' /\ FreeListExact'
    BY <2>1, <2>2, PagesBack, SMTT(30)
  <2>4. TypeOK'
    BY <1>1, <1>5, ZenonT(30) DEF PInv, IInv, TypeOK, Allocators
  <2>5. OneRunning' /\ NoLostWakeup' /\ SpawnQuota' /\ BootCounts'
    BY <1>1, ZenonT(30) DEF PInv, IInv, OneRunning, NoLostWakeup, SpawnQuota, BootCounts
  <2>6. FreeListBound'
    BY <1>1, <1>5, ZenonT(30) DEF PInv, IInv, FreeListBound, Owners
  <2> QED
    BY <2>3, <2>4, <2>5, <2>6, SMTT(30) DEF IInv
<1>7. Kept(mem, mem')
  BY <1>5, SMTT(30) DEF Kept
<1>8. PoolInv'
  BY <1>1, PoolKept, ZenonT(30) DEF PInv, PoolInv
<1>9. PagesOf(loading') = run
  BY <1>1 DEF PagesOf, run
<1>10. run \cap Elements(mem.free_list) = {}
  BY <1>3, <1>4, SMTT(30) DEF WellFormed
<1>11. LoadingInv'
  <2>1. loading' \in Program
    BY <1>1, <1>2, <1>4, SMTT(30) DEF Program
  <2>2. CopyInBounds'
    BY <1>1, <1>2, <1>4, <1>9, SMTT(30) DEF CopyInBounds, PagesOf
  <2>3. Sound(loading', mem')
    BY <1>1, <1>2, <1>4, <1>5, <1>9, <1>10, SMTT(30) DEF Sound
  <2> QED
    BY <2>1, <2>2, <2>3, ZenonT(30) DEF LoadingInv, Sound, PagesOf
<1>12. LoadedInv'
  <2>1. \A s \in Slot : loaded[s] # NoProgram =>
          Sound(loaded[s], mem') /\ PagesOf(loaded[s]) \cap run = {}
    <3> SUFFICES ASSUME NEW s \in Slot, loaded[s] # NoProgram
                 PROVE  Sound(loaded[s], mem') /\ PagesOf(loaded[s]) \cap run = {}
      BY SMTT(30)
    <3>1. Sound(loaded[s], mem)
      BY ZenonT(30) DEF PInv, LoadedInv
    <3>2. PagesOf(loaded[s]) \subseteq mem.bitmap
      BY <3>1, SMTT(30) DEF Sound
    <3> QED
      BY <1>4, <1>7, <3>1, <3>2, SoundKept, SMTT(30)
  <2> QED
    BY <1>1, <1>9, <2>1, ZenonT(30) DEF PInv, LoadedInv, tables, PagesOf, Sound
<1> QED
  BY <1>3, <1>5, <1>6, <1>8, <1>11, <1>12, SMTT(30) DEF PInv

\* No page table for the new actor: a dead slot has a stack and nothing else
\* changes.
LEMMA LoadUnmappedInv == PInv /\ LoadUnmapped => PInv'
<1> SUFFICES ASSUME PInv, LoadUnmapped PROVE PInv'
  OBVIOUS
<1> DEFINE i == FirstDead
<1>0. IInv
  BY SMTT(30) DEF PInv
<1>1. /\ CanSpawn /\ loading' = NoProgram
      /\ stack_page' = [stack_page EXCEPT ![i] = alloc_page(mem).page]
      /\ mailbox' = [mailbox EXCEPT ![i] = << >>]
      /\ caps' = [caps EXCEPT ![i] = NoCaps]
      /\ spawn_count' = [spawn_count EXCEPT ![i] = 0]
      /\ spawn_quota' = [spawn_quota EXCEPT ![i] = MAX_SPAWNS_PER_ACTOR]
      /\ receiving' = [receiving EXCEPT ![i] = FALSE]
      /\ mem' = SpawnMem
      /\ as_pd' = [as_pd EXCEPT ![i] = NoTable]
      /\ UNCHANGED <<state, current_actor, booted, machine, tables, loaded>>
  BY SMTT(30) DEF LoadUnmapped
<1>2. i \in Slot /\ state[i] = "DEAD"
  BY <1>1, FirstDeadFacts, SMTT(30) DEF CanSpawn
<1> HIDE DEF i
<1>3. /\ mem' \in Allocators /\ stack_page' \in [Slot -> Page \cup {NULL}]
      /\ StacksOK(stack_page', mem') /\ FreeListBound'
      /\ stack_page'[i] # NULL
      /\ \A s \in Slot : s # i => stack_page'[s] = stack_page[s]
  BY <1>0, <1>1, <1>2, PagesInv, SpawnKeeps, ZenonT(30) DEF IInv
<1>4. PrivateStacks' /\ FreeListExact'
  BY <1>0, <1>1, <1>3, PagesBack, ZenonT(30) DEF IInv, PrivateStacks
<1>5. TypeOK'
  <2>1. << >> \in Seq(Message) /\ MAX_SPAWNS_PER_ACTOR \in Nat /\ NoCaps \in Tables
    BY ActorsAssumption, NoCapsType, SMTT(40)
  <2> QED
    BY <1>0, <1>1, <1>2, <1>3, <2>1, ZenonT(30) DEF IInv, TypeOK, Allocators, Tables
<1>6. OneRunning' /\ NoLostWakeup'
  BY <1>0, <1>1, <1>2 DEF IInv, TypeOK, OneRunning, NoLostWakeup
<1>7. SpawnQuota' /\ BootCounts'
  <2>1. MAX_SPAWNS_PER_ACTOR \in Nat
    BY ActorsAssumption, SMTT(30)
  <2> QED
    BY <1>0, <1>1, <1>2, <2>1, SMTT(30) DEF IInv, TypeOK, SpawnQuota, BootCounts
<1>8. IInv'
  BY <1>3, <1>4, <1>5, <1>6, <1>7, SMTT(30) DEF IInv
<1>9. Kept(mem, mem')
  BY <1>0, <1>1, SpawnMemKept, SMTT(30)
<1>10. /\ as_pd \in [Slot -> Table \cup {NoTable}]
       /\ loaded \in [Slot -> Program \cup {NoProgram}]
       /\ \A s \in Slot : state[s] # "DEAD" /\ loaded[s] = NoProgram => as_pd[s] = NoTable
       /\ \A s \in Slot : loaded[s] # NoProgram => state[s] # "DEAD"
  BY SMTT(30) DEF PInv, PoolInv, LoadedInv
<1>11. /\ as_pd' \in [Slot -> Table \cup {NoTable}]
       /\ \A s \in Slot : as_pd'[s] \in {as_pd[s], NoTable}
       /\ \A s \in Slot : s # i => as_pd'[s] = as_pd[s]
  BY <1>1, <1>2, <1>10, SMTT(30)
<1> QED
  BY <1>1, <1>2, <1>8, <1>9, <1>10, <1>11, ProgramsKept, SMTT(30)

\* The table hal_address_space_map_program() takes is the slot's own if it has
\* one, and otherwise the first that nobody has.
LEMMA MapFacts ==
  ASSUME PoolInv, NEW i \in Slot, Usable(i) # {}, hal_address_space_map_program(i),
         Run(loading.base, loading.pages) \subseteq Page
  PROVE  LET t == Minimum(Usable(i))
         IN  /\ PoolInv'
             /\ t \in Table /\ as_pd'[i] = t
             /\ as_pt1'[t] = Run(loading.base, loading.pages)
             /\ \A s \in Slot \ {i} : as_pd'[s] = as_pd[s]
             /\ \A s \in Slot \ {i} : as_pd[s] # NoTable => as_pt1'[as_pd[s]] = as_pt1[as_pd[s]]
<1> DEFINE t == Minimum(Usable(i))
<1>1. Table \in SUBSET Nat /\ NoActor \notin Slot /\ NoTable \notin Table
  BY ProgramsAssumption, SlotFacts, SMTT(30) DEF Table, NoTable
<1>2. Usable(i) \in SUBSET Nat
  BY <1>1, ZenonT(30) DEF Usable
<1>3. t \in Usable(i) /\ \A u \in Usable(i) : t <= u
  BY <1>2, MinimumExists
<1>4. /\ as_pt1_owner' = [Owners0 EXCEPT ![t] = i]
      /\ as_pt1_pool_init_done' = TRUE
      /\ as_pt1' = [as_pt1 EXCEPT ![t] = Run(loading.base, loading.pages)]
      /\ as_pd' = [as_pd EXCEPT ![i] = t]
  BY DEF hal_address_space_map_program
<1> HIDE DEF t
<1>5. /\ Owners0 \in [Table -> Slot \cup {NoActor}]
      /\ \A u, v \in Table : Owners0[u] = Owners0[v] /\ Owners0[u] # NoActor => u = v
      /\ \A u, v \in Table : u < v /\ Owners0[u] = NoActor => Owners0[v] = NoActor
      /\ \A s \in Slot : as_pd[s] # NoTable => as_pd[s] \in Table /\ Owners0[as_pd[s]] = s
  BY SMTT(30) DEF PoolInv, OneTablePerSlot, Owners0
<1>6. /\ t \in Table /\ Owners0[t] \in {i, NoActor}
      /\ \A u \in Table : Owners0[u] \in {i, NoActor} => t <= u
  BY <1>3, SMTT(30) DEF Usable
<1>7. \A u \in Table : Owners0[u] = i => u = t
  <2> SUFFICES ASSUME NEW u \in Table, Owners0[u] = i, u # t
               PROVE  FALSE
    OBVIOUS
  <2>1. t < u
    <3>1. t <= u /\ t \in Nat /\ u \in Nat
      BY <1>1, <1>6, SMTT(30)
    <3> QED
      BY <3>1, SMTT(30)
  <2>2. Owners0[t] = NoActor
    BY <1>1, <1>5, <1>6, SMTT(30)
  <2> QED
    BY <1>1, <1>5, <1>6, <2>1, <2>2, SMTT(30)
<1>8. \A u \in Table : u < t => Owners0[u] # NoActor
  <2> SUFFICES ASSUME NEW u \in Table, u < t, Owners0[u] = NoActor
               PROVE  FALSE
    BY SMTT(30)
  <2>1. t <= u /\ t \in Nat /\ u \in Nat
    BY <1>1, <1>6, SMTT(30)
  <2> QED
    BY <2>1, SMTT(30)
<1>9. /\ as_pt1_owner' \in [Table -> Slot \cup {NoActor}]
      /\ as_pt1_owner'[t] = i
      /\ \A u \in Table \ {t} : as_pt1_owner'[u] = Owners0[u]
  BY <1>4, <1>5, <1>6, SMTT(30)
<1>10. OneTablePerSlot'
  BY <1>1, <1>5, <1>7, <1>9, SMTT(30) DEF OneTablePerSlot
<1>11. \A u, v \in Table : u < v /\ as_pt1_owner'[u] = NoActor => as_pt1_owner'[v] = NoActor
  <2> SUFFICES ASSUME NEW u \in Table, NEW v \in Table, u < v, as_pt1_owner'[u] = NoActor
               PROVE  as_pt1_owner'[v] = NoActor
    BY SMTT(30)
  <2>1. u # t /\ Owners0[u] = NoActor /\ Owners0[v] = NoActor
    BY <1>1, <1>5, <1>9, SMTT(30)
  <2>2. v # t
    BY <1>8, <2>1, SMTT(30)
  <2> QED
    BY <1>9, <2>1, <2>2, SMTT(30)
<1>12. /\ as_pd' \in [Slot -> Table \cup {NoTable}] /\ as_pd'[i] = t
       /\ \A s \in Slot \ {i} : as_pd'[s] = as_pd[s]
  BY <1>4, <1>6, SMTT(30) DEF PoolInv
<1>13. /\ as_pt1' \in [Table -> SUBSET Page]
       /\ as_pt1'[t] = Run(loading.base, loading.pages)
       /\ \A u \in Table \ {t} : as_pt1'[u] = as_pt1[u]
  BY <1>4, <1>6, SMTT(30) DEF PoolInv
<1>14. \A s \in Slot \ {i} : as_pd[s] # NoTable => as_pd[s] \in Table \ {t}
  BY <1>1, <1>5, <1>6, SMTT(30)
<1>15. \A s \in Slot : as_pd'[s] # NoTable => as_pt1_owner'[as_pd'[s]] = s
  BY <1>5, <1>9, <1>12, <1>14, SMTT(30)
<1>16. PoolInv'
  BY <1>4, <1>9, <1>10, <1>11, <1>12, <1>13, <1>15, ZenonT(30) DEF PoolInv
<1> QED
  BY <1>6, <1>12, <1>13, <1>14, <1>16, ZenonT(30) DEF t

\* The new actor sees its program, and the windows of the others stay.
LEMMA LoadDoneInv == PInv /\ LoadDone => PInv'
<1> SUFFICES ASSUME PInv, LoadDone PROVE PInv'
  OBVIOUS
<1> DEFINE i == FirstDead
           t == Minimum(Usable(i))
<1>0. IInv /\ PoolInv /\ LoadingInv /\ LoadedInv /\ mem.mem_top <= MEM_CAP
  BY DEF PInv
<1>1. /\ loading # NoProgram /\ CanSpawn /\ CanMap(i) /\ actor_spawn_child
      /\ hal_address_space_map_program(i)
      /\ loaded' = [loaded EXCEPT ![i] = loading]
      /\ loading' = NoProgram
  BY DEF LoadDone
<1>2. i \in Slot /\ state[i] = "DEAD"
  BY <1>1, FirstDeadFacts, SMTT(30) DEF CanSpawn
<1>3. state' = [state EXCEPT ![i] = "READY"]
  BY <1>1, SMTT(30) DEF actor_spawn_child, actor_spawn
<1> HIDE DEF i
<1>4. IInv' /\ Kept(mem, mem')
  <2>1. [Next]_vars
    BY <1>1, SMTT(30) DEF Next
  <2> QED
    BY <1>0, <2>1, NextInv, NextKept, SMTT(30)
<1>5. /\ loading \in Program /\ Sound(loading, mem)
      /\ mem.bitmap \in SUBSET Page
  BY <1>0, <1>1, SMTT(30) DEF LoadingInv, IInv, TypeOK
<1>6. /\ PagesOf(loading) = Run(loading.base, loading.pages)
      /\ PagesOf(loading) \subseteq Page
  BY <1>5, SMTT(30) DEF PagesOf, Sound
<1>7. /\ PoolInv'
      /\ t \in Table /\ as_pd'[i] = t
      /\ as_pt1'[t] = PagesOf(loading)
      /\ \A s \in Slot \ {i} : as_pd'[s] = as_pd[s]
      /\ \A s \in Slot \ {i} : as_pd[s] # NoTable => as_pt1'[as_pd[s]] = as_pt1[as_pd[s]]
  <2>1. Usable(i) # {}
    BY <1>1, SMTT(30) DEF CanMap
  <2> QED
    BY <1>0, <1>1, <1>2, <1>6, <2>1, MapFacts, ZenonT(30)
<1> HIDE DEF t
<1>8. LoadingInv'
  BY <1>1, SMTT(30) DEF LoadingInv, CopyInBounds
<1>9. /\ loaded' \in [Slot -> Program \cup {NoProgram}]
      /\ loaded'[i] = loading
      /\ \A s \in Slot \ {i} : loaded'[s] = loaded[s] /\ state'[s] = state[s]
      /\ state'[i] = "READY"
  BY <1>0, <1>1, <1>2, <1>3, <1>5, ZenonT(30) DEF LoadedInv, IInv, TypeOK
<1>10. loaded[i] = NoProgram
  BY <1>0, <1>2, ZenonT(30) DEF LoadedInv
<1>11. t # NoTable
  <2>1. \A u \in Table : u >= 0
    BY SMTT(30) DEF Table
  <2> QED
    BY <1>7, <2>1, SMTT(40) DEF NoTable
<1>12. \A s \in Slot : state'[s] # "DEAD" /\ loaded'[s] = NoProgram => as_pd'[s] = NoTable
  BY <1>0, <1>1, <1>7, <1>9, ZenonT(30) DEF LoadedInv
<1>13. ASSUME NEW s \in Slot, loaded'[s] # NoProgram
       PROVE  /\ state'[s] # "DEAD"
              /\ as_pd'[s] # NoTable /\ as_pt1'[as_pd'[s]] = PagesOf(loaded'[s])
              /\ Sound(loaded'[s], mem')
              /\ \A u \in Slot \ {s} :
                   loaded'[u] # NoProgram => PagesOf(loaded'[s]) \cap PagesOf(loaded'[u]) = {}
  <2>1. CASE s = i
    <3>1. Sound(loaded'[s], mem')
      BY <1>4, <1>5, <1>9, <2>1, SoundKept, ZenonT(30)
    <3>2. \A u \in Slot \ {i} : loaded[u] # NoProgram => PagesOf(loaded[u]) \cap PagesOf(loading) = {}
      BY <1>0, <1>1, ZenonT(30) DEF LoadedInv
    <3> QED
      BY <1>7, <1>9, <1>11, <2>1, <3>1, <3>2, ZenonT(30)
  <2>2. CASE s # i
    <3>1. loaded'[s] = loaded[s] /\ state'[s] = state[s] /\ as_pd'[s] = as_pd[s]
      BY <1>7, <1>9, <2>2, ZenonT(30)
    <3>2. /\ state[s] # "DEAD"
          /\ as_pd[s] # NoTable /\ as_pt1[as_pd[s]] = PagesOf(loaded[s])
          /\ Sound(loaded[s], mem)
          /\ PagesOf(loaded[s]) \cap PagesOf(loading) = {}
          /\ \A u \in Slot \ {s} :
               loaded[u] # NoProgram => PagesOf(loaded[s]) \cap PagesOf(loaded[u]) = {}
      BY <1>0, <1>1, <1>13, <3>1, ZenonT(30) DEF LoadedInv
    <3>3. Sound(loaded'[s], mem')
      BY <1>4, <3>1, <3>2, SoundKept, ZenonT(30)
    <3> QED
      BY <1>7, <1>9, <2>2, <3>1, <3>2, <3>3, ZenonT(30)
  <2> QED
    BY <2>1, <2>2, ZenonT(30)
<1>14. LoadedInv'
  BY <1>1, <1>9, <1>12, <1>13, ZenonT(30) DEF LoadedInv, PagesOf, Sound
<1> QED
  BY <1>0, <1>4, <1>7, <1>8, <1>14, ZenonT(30) DEF PInv, Kept

\* Every step preserves the invariant.
LEMMA ProgramsNextInv == PInv /\ [ProgramsNext]_pvars => PInv'
<1> SUFFICES ASSUME PInv, [ProgramsNext]_pvars PROVE PInv'
  OBVIOUS
<1>1. CASE KernelStep
  BY <1>1, KernelStepInv
<1>2. CASE \E id \in Object, image \in Images : loader_spawn_program(id, image)
  BY <1>2, LoaderInv, SMTT(30)
<1>3. CASE LoadRefused \/ LoadUnspawned
  BY <1>3, LoadEndsInv, SMTT(30)
<1>4. CASE LoadUnmapped
  BY <1>4, LoadUnmappedInv
<1>5. CASE LoadDone
  BY <1>5, LoadDoneInv
<1>6. CASE UNCHANGED pvars
  <2>1. UNCHANGED vars /\ UNCHANGED <<as_pd, as_pt1, as_pt1_owner, as_pt1_pool_init_done, loading, loaded>>
    BY <1>6, SMTT(30) DEF pvars, programs, tables
  <2>2. IInv'
    BY <2>1, NextInv, SMTT(30) DEF PInv
  <2>3. state' = state /\ mem' = mem
    BY <2>1, SMTT(30) DEF vars
  <2>4. PoolInv' /\ LoadingInv' /\ LoadedInv'
    BY <2>1, <2>3, ZenonT(30) DEF PInv, PoolInv, LoadingInv, LoadedInv, OneTablePerSlot, CopyInBounds, Sound, PagesOf
  <2> QED
    BY <2>2, <2>3, <2>4, SMTT(30) DEF PInv
<1> QED
  BY <1>1, <1>2, <1>3, <1>4, <1>5, <1>6, SMTT(30) DEF ProgramsNext

-----------------------------------------------------------------------------
\* The inductive invariant holds in every reachable state.
THEOREM ProgramsInvariance == ProgramsSpec => []PInv
BY ProgramsInitInv, ProgramsNextInv, PTL DEF ProgramsSpec

\* A live actor's window shows the program that loader_spawn_program() copied
\* for it and nothing else, whatever is loaded, spawned, terminated and reaped
\* around it; an actor of the kernel's own code has none.
THEOREM ProgramIsolation == ProgramsSpec => []OwnProgram
<1>1. PInv => OwnProgram
  <2> SUFFICES ASSUME PInv, NEW s \in Slot, state[s] # "DEAD"
               PROVE  IF loaded[s] = NoProgram
                      THEN as_pd[s] = NoTable
                      ELSE /\ as_pd[s] # NoTable
                           /\ as_pt1_owner[as_pd[s]] = s
                           /\ as_pt1[as_pd[s]] = PagesOf(loaded[s])
                           /\ loaded[s].entry_offset < loaded[s].pages * PAGE_SIZE
                           /\ PagesOf(loaded[s]) \subseteq mem.bitmap \ Elements(mem.free_list)
                           /\ \A t \in Slot : stack_page[t] \notin PagesOf(loaded[s])
                           /\ \A t \in Slot \ {s} : loaded[t] # NoProgram =>
                                PagesOf(loaded[s]) \cap PagesOf(loaded[t]) = {}
    BY ZenonT(30) DEF OwnProgram, Alive
  <2>1. CASE loaded[s] = NoProgram
    BY <2>1, ZenonT(30) DEF PInv, LoadedInv
  <2>2. CASE loaded[s] # NoProgram
    <3>1. /\ as_pd[s] # NoTable /\ as_pt1[as_pd[s]] = PagesOf(loaded[s])
          /\ Sound(loaded[s], mem)
          /\ \A t \in Slot \ {s} :
               loaded[t] # NoProgram => PagesOf(loaded[s]) \cap PagesOf(loaded[t]) = {}
      BY <2>2, ZenonT(30) DEF PInv, LoadedInv
    <3>2. as_pt1_owner[as_pd[s]] = s
      BY <3>1, ZenonT(30) DEF PInv, PoolInv
    <3>3. \A t \in Slot : stack_page[t] \notin PagesOf(loaded[s])
      <4> SUFFICES ASSUME NEW t \in Slot, stack_page[t] \in PagesOf(loaded[s])
                   PROVE  FALSE
        BY SMTT(30)
      <4>1. /\ mem \in Allocators /\ stack_page \in [Slot -> Page \cup {NULL}]
            /\ StacksOK(stack_page, mem)
        BY PagesInv, SMTT(30) DEF PInv
      <4>2. stack_page[t] \in mem.bitmap /\ stack_page[t] >= PRIVATE_WINDOW_END
        BY <3>1, ZenonT(30) DEF Sound
      <4>3. stack_page[t] \in Page
        BY <4>1, <4>2, SMTT(30) DEF Allocators
      <4>4. hal_address_space_create(stack_page[t]) /\ stack_page[t] \in Nat
        BY <4>1, <4>3, PageType, ZenonT(30) DEF StacksOK
      <4> QED
        BY <4>2, <4>4, Constants, SMTT(30) DEF hal_address_space_create
    <3> QED
      BY <2>2, <3>1, <3>2, <3>3, ZenonT(30) DEF Sound
  <2> QED
    BY <2>1, <2>2, ZenonT(30)
<1> QED
  BY <1>1, ProgramsInvariance, PTL

\* loader_spawn_program() copies what it read, the entry point with it, into pages
\* that it claimed and that hold it, and the pool of page tables holds one for
\* each slot at most.
THEOREM LoadsInBounds == ProgramsSpec => [](CopyInBounds /\ OneTablePerSlot)
<1>1. PInv => CopyInBounds /\ OneTablePerSlot
  BY DEF PInv, PoolInv, LoadingInv
<1> QED
  BY <1>1, ProgramsInvariance, PTL

\* The stacks stay private when pages are also claimed by the loader and when
\* actor_spawn_program_child() takes back an actor that it could not map.
THEOREM StacksPrivateWithPrograms == ProgramsSpec => []PrivateStacks
<1>1. PInv => PrivateStacks
  BY DEF PInv, IInv
<1> QED
  BY <1>1, ProgramsInvariance, PTL

\* A load that fails leaves every live actor as it was, at whatever point of
\* SYS_SPAWN_PROGRAM it fails.
THEOREM FailedLoads == ProgramsSpec => FailedLoadHarmless
<1> DEFINE A == loading # NoProgram /\ (\A s \in Slot : ~Spawned(s)) => \A s \in Alive : Endured(s)
<1>1. PInv /\ [ProgramsNext]_pvars => [A]_pvars
  <2> SUFFICES ASSUME PInv, ProgramsNext, loading # NoProgram,
                      \A s \in Slot : ~Spawned(s),
                      NEW s \in Slot, state[s] # "DEAD"
               PROVE  Endured(s)
    BY SMTT(30) DEF Alive
  <2>1. CASE LoadRefused
    BY <2>1, SMTT(30) DEF LoadRefused, vars, tables, Endured
  <2>2. CASE LoadUnspawned
    BY <2>2, ZenonT(30) DEF LoadUnspawned, SpawnFails, tables, Endured
  <2>3. CASE LoadUnmapped
    <3>1. FirstDead \in Slot /\ s # FirstDead
      BY <2>3, FirstDeadFacts, SMTT(30) DEF LoadUnmapped, CanSpawn
    <3>2. /\ state \in [Slot -> States] /\ stack_page \in [Slot -> Page \cup {NULL}]
          /\ mailbox \in [Slot -> Seq(Message)] /\ caps \in [Slot -> Tables]
          /\ spawn_count \in [Slot -> Nat] /\ spawn_quota \in [Slot -> Nat]
          /\ as_pd \in [Slot -> Table \cup {NoTable}]
      BY SMTT(30) DEF PInv, PoolInv, IInv, TypeOK, States, Tables
    <3> QED
      BY <2>3, <3>1, <3>2, ZenonT(30) DEF LoadUnmapped, tables, Endured
  <2>4. CASE LoadDone
    <3>1. CanSpawn /\ state' = [state EXCEPT ![FirstDead] = "READY"]
      BY <2>4, SMTT(30) DEF LoadDone, actor_spawn_child, actor_spawn
    <3>2. Spawned(FirstDead) /\ FirstDead \in Slot
      BY <3>1, FirstDeadFacts, ZenonT(30) DEF CanSpawn, Spawned, PInv, IInv, TypeOK
    <3> QED
      BY <3>2
  <2> QED
    BY <2>1, <2>2, <2>3, <2>4, SMTT(30) DEF ProgramsNext, KernelStep, loader_spawn_program
<1> QED
  BY <1>1, ProgramsInvariance, PTL DEF ProgramsSpec, FailedLoadHarmless
=============================================================================
