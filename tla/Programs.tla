------------------------------ MODULE Programs ------------------------------
(***************************************************************************)
(* Programs loaded from storage objects: SYS_SPAWN_PROGRAM, the loader of  *)
(* src/src/core/loader.c, actor_spawn_program_child() and the program      *)
(* windows of src/src/hal/x86_64/paging.c, composed with the actor kernel  *)
(* and its page allocator.                                                 *)
(*                                                                         *)
(* The call runs with interrupts off.  It is two steps with nothing in     *)
(* between, the loader's and the kernel's, `loading' being what the first  *)
(* hands to the second.  A physical page is the address it starts at.      *)
(***************************************************************************)
EXTENDS Actors

CONSTANTS
  PROGRAM_POOL_SIZE,    \* 2: the page tables of all the program windows
  PROGRAM_WINDOW_MAX,   \* 2MB: what one page table maps
  PROGRAM_HEADER,       \* 12: sizeof(struct program_header)
  UINT32,               \* 2^32
  Object,               \* the objects the actors of this instance may read
  Images                \* what storage_read() may find in them

Image == [bytes : Nat, magic : BOOLEAN, entry_offset : 0 .. UINT32 - 1, code_size : 0 .. UINT32 - 1]

ASSUME ProgramsAssumption ==
  /\ {PROGRAM_POOL_SIZE, PROGRAM_WINDOW_MAX, PROGRAM_HEADER, UINT32} \subseteq Nat \ {0}
  /\ PROGRAM_WINDOW_MAX % PAGE_SIZE = 0 /\ PROGRAM_WINDOW_MAX + PAGE_SIZE <= UINT32
  /\ "READ_OBJECT" \in Op /\ Object \subseteq Slot
  /\ \A image \in Images : image \in Image

Table == 0 .. PROGRAM_POOL_SIZE - 1
NoTable == -1
NoProgram == [pages |-> 0]
Program == [base : Page, pages : Nat \ {0}, entry_offset : Nat, code_size : Nat, bytes : Nat]

VARIABLES
  as_pd,                  \* the table in the program entry of each slot's page directory
  as_pt1,                 \* the physical pages each table of the pool maps
  as_pt1_owner,           \* the slot each table belongs to, or -1
  as_pt1_pool_init_done,
  loading,                \* the program between the loader and the kernel
  loaded                  \* history: the program that the live actor in each slot was started in
tables == <<as_pt1, as_pt1_owner, as_pt1_pool_init_done>>
programs == <<as_pd, tables, loading, loaded>>
pvars == <<vars, programs>>

-----------------------------------------------------------------------------
\* Mistake: an object may be shorter than its header says.
IsProgramTruncated(image) ==
  /\ image.bytes >= PROGRAM_HEADER
  /\ image.magic
  /\ image.code_size # 0 /\ image.code_size <= PROGRAM_WINDOW_MAX
  /\ image.entry_offset < image.code_size

\* The loader's checks of the header, whose sum is one of 64-bit numbers.
IsProgram(image) ==
  /\ image.bytes >= PROGRAM_HEADER
  /\ image.magic
  /\ image.code_size # 0 /\ image.code_size <= PROGRAM_WINDOW_MAX
  /\ image.bytes >= PROGRAM_HEADER + image.code_size
  /\ image.entry_offset < image.code_size

PagesFor(image) == ((image.code_size + PAGE_SIZE - 1) % UINT32) \div PAGE_SIZE

ClaimPages(image) == alloc_dma_pages(mem, PagesFor(image))

\* loader_spawn_program() up to its call of actor_spawn_program_child(): the
\* pages are claimed and written before anything asks whether the caller may
\* spawn, and no path gives them back.
loader_spawn_program(id, image) ==
  /\ loading = NoProgram
  /\ InUserMode
  /\ actor_has_cap(current_actor, "READ_OBJECT", id)
  /\ IsProgram(image)
  /\ ClaimPages(image).page # NULL
  /\ mem' = ClaimPages(image).mem
  /\ loading' = [base |-> ClaimPages(image).page, pages |-> PagesFor(image),
                 entry_offset |-> image.entry_offset, code_size |-> image.code_size,
                 bytes |-> image.bytes]
  /\ UNCHANGED <<state, stack_page, mailbox, caps, spawn_count, spawn_quota, receiving,
                 current_actor, booted, machine, as_pd, tables, loaded>>

-----------------------------------------------------------------------------
\* hal_address_space_map_program()
\* The owners after the initialisation that the first call makes.
Owners0 == IF as_pt1_pool_init_done THEN as_pt1_owner ELSE [t \in Table |-> NoActor]

\* A table of the slot's own, or one that nobody has had yet.
Usable(slot) == {t \in Table : Owners0[t] \in {slot, NoActor}}

CanMap(slot) == Usable(slot) # {} /\ loading.pages * PAGE_SIZE <= PROGRAM_WINDOW_MAX

hal_address_space_map_program(slot) ==
  LET t == Minimum(Usable(slot))
  IN  /\ as_pt1_owner' = [Owners0 EXCEPT ![t] = slot]
      /\ as_pt1_pool_init_done' = TRUE
      /\ as_pt1' = [as_pt1 EXCEPT ![t] = Run(loading.base, loading.pages)]
      /\ as_pd' = [as_pd EXCEPT ![slot] = t]

\* actor_spawn_program_child(), which ends the call.
\* Without spawn authority or quota.
LoadRefused ==
  /\ loading # NoProgram
  /\ ~MaySpawn
  /\ loading' = NoProgram
  /\ UNCHANGED <<vars, as_pd, tables, loaded>>

\* No slot or no stack for the new actor.
LoadUnspawned ==
  /\ loading # NoProgram
  /\ SpawnFails
  /\ loading' = NoProgram
  /\ UNCHANGED <<as_pd, tables, loaded>>

\* Mistake: the child that never runs counts against the quota.
LoadUnmappedCounts ==
  /\ loading # NoProgram
  /\ MaySpawn /\ CanSpawn /\ ~CanMap(FirstDead)
  /\ stack_page' = [stack_page EXCEPT ![FirstDead] = alloc_page(mem).page]
  /\ mailbox' = [mailbox EXCEPT ![FirstDead] = << >>]
  /\ caps' = [caps EXCEPT ![FirstDead] = NoCaps]
  /\ spawn_count' = [spawn_count EXCEPT ![FirstDead] = 0, ![current_actor] = @ + 1]
  /\ spawn_quota' = [spawn_quota EXCEPT ![FirstDead] = MAX_SPAWNS_PER_ACTOR]
  /\ receiving' = [receiving EXCEPT ![FirstDead] = FALSE]
  /\ mem' = SpawnMem
  /\ as_pd' = [as_pd EXCEPT ![FirstDead] = NoTable]
  /\ loading' = NoProgram
  /\ UNCHANGED <<state, current_actor, booted, machine, tables, loaded>>

\* No page table: the actor that actor_spawn() made is dead at once, its stack
\* still in the slot.
LoadUnmapped ==
  /\ loading # NoProgram
  /\ MaySpawn /\ CanSpawn /\ ~CanMap(FirstDead)
  /\ stack_page' = [stack_page EXCEPT ![FirstDead] = alloc_page(mem).page]
  /\ mailbox' = [mailbox EXCEPT ![FirstDead] = << >>]
  /\ caps' = [caps EXCEPT ![FirstDead] = NoCaps]
  /\ spawn_count' = [spawn_count EXCEPT ![FirstDead] = 0]
  /\ spawn_quota' = [spawn_quota EXCEPT ![FirstDead] = MAX_SPAWNS_PER_ACTOR]
  /\ receiving' = [receiving EXCEPT ![FirstDead] = FALSE]
  /\ mem' = SpawnMem
  /\ as_pd' = [as_pd EXCEPT ![FirstDead] = NoTable]
  /\ loading' = NoProgram
  /\ UNCHANGED <<state, current_actor, booted, machine, tables, loaded>>

\* The grants and the count are those of actor_spawn_child().
LoadDone ==
  /\ loading # NoProgram
  /\ CanSpawn /\ CanMap(FirstDead)
  /\ actor_spawn_child
  /\ hal_address_space_map_program(FirstDead)
  /\ loaded' = [loaded EXCEPT ![FirstDead] = loading]
  /\ loading' = NoProgram

-----------------------------------------------------------------------------
\* Mistake: the tables of a reused slot keep their program entry.
RebuiltDirectoriesKept == as_pd

\* actor_spawn() rebuilds the tables of the slot it fills.
RebuiltDirectories == [s \in Slot |-> IF Spawned(s) THEN NoTable ELSE as_pd[s]]

\* Every other step of the kernel.
KernelStep ==
  /\ loading = NoProgram
  /\ Next
  /\ as_pd' = RebuiltDirectories
  /\ loaded' = [s \in Slot |-> IF state[s] = "DEAD" \/ state'[s] = "DEAD" THEN NoProgram ELSE loaded[s]]
  /\ UNCHANGED <<tables, loading>>

ProgramsInit ==
  /\ Init
  /\ as_pd = [s \in Slot |-> NoTable]
  /\ as_pt1 = [t \in Table |-> {}]
  /\ as_pt1_owner = [t \in Table |-> 0]
  /\ as_pt1_pool_init_done = FALSE
  /\ loading = NoProgram
  /\ loaded = [s \in Slot |-> NoProgram]

ProgramsNext ==
  \/ KernelStep
  \/ \E id \in Object, image \in Images : loader_spawn_program(id, image)
  \/ LoadRefused
  \/ LoadUnspawned
  \/ LoadUnmapped
  \/ LoadDone

ProgramsSpec == ProgramsInit /\ [][ProgramsNext]_pvars

-----------------------------------------------------------------------------
ProgramsTypeOK ==
  /\ TypeOK
  /\ as_pd \in [Slot -> Table \cup {NoTable}]
  /\ as_pt1 \in [Table -> SUBSET Page]
  /\ as_pt1_owner \in [Table -> Slot \cup {NoActor}]
  /\ as_pt1_pool_init_done \in BOOLEAN
  /\ loading \in Program \cup {NoProgram}
  /\ loaded \in [Slot -> Program \cup {NoProgram}]

\* An actor sees through its program window the program it was started in, and
\* nothing else: the window is a page table of its own slot, maps the pages the
\* loader claimed for it, and no live actor's program, no stack and no later
\* allocation shares one of them.  An actor that was started in the kernel's own
\* code has no window, whatever ran in its slot before.
Alive == {s \in Slot : state[s] # "DEAD"}
PagesOf(p) == Run(p.base, p.pages)
OwnProgram ==
  \A s \in Alive :
    IF loaded[s] = NoProgram
    THEN as_pd[s] = NoTable
    ELSE /\ as_pd[s] # NoTable
         /\ as_pt1_owner[as_pd[s]] = s
         /\ as_pt1[as_pd[s]] = PagesOf(loaded[s])
         /\ loaded[s].entry_offset < loaded[s].pages * PAGE_SIZE
         /\ PagesOf(loaded[s]) \subseteq mem.bitmap \ Elements(mem.free_list)
         /\ \A t \in Slot : stack_page[t] \notin PagesOf(loaded[s])
         /\ \A t \in Alive \ {s} :
              loaded[t] # NoProgram => PagesOf(loaded[s]) \cap PagesOf(loaded[t]) = {}

\* What loader_spawn_program() copies was read from the object, fits the pages it
\* claimed, and goes where the caller's address space maps all of memory: past
\* the window in which every page belongs to one actor.  The entry point lies in
\* what was copied.
CopyInBounds ==
  loading # NoProgram =>
    /\ PROGRAM_HEADER + loading.code_size <= loading.bytes
    /\ loading.code_size <= loading.pages * PAGE_SIZE
    /\ loading.entry_offset < loading.code_size
    /\ \A p \in PagesOf(loading) : p >= PRIVATE_WINDOW_END

\* However often programs are loaded into a slot, it holds one table of the pool:
\* hal_address_space_map_program() takes back the one it gave before, since none
\* is ever freed.
OneTablePerSlot ==
  as_pt1_pool_init_done =>
    \A t, u \in Table : as_pt1_owner[t] = as_pt1_owner[u] /\ as_pt1_owner[t] # NoActor => t = u

\* A call of SYS_SPAWN_PROGRAM that ends without a new actor leaves every actor
\* alone: what it holds, has spawned, has been sent and sees through its window.
\* (The pages it claimed are lost.)
Endured(s) ==
  /\ <<state'[s], stack_page'[s], mailbox'[s], caps'[s]>>
       = <<state[s], stack_page[s], mailbox[s], caps[s]>>
  /\ <<spawn_count'[s], spawn_quota'[s], as_pd'[s]>> = <<spawn_count[s], spawn_quota[s], as_pd[s]>>
  /\ as_pd[s] # NoTable => as_pt1'[as_pd[s]] = as_pt1[as_pd[s]]
FailedLoadHarmless ==
  [][loading # NoProgram /\ (\A s \in Slot : ~Spawned(s)) => \A s \in Alive : Endured(s)]_pvars
=============================================================================
