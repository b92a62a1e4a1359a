# Vajra in TLA+

A verification project for the Vajra kernel (`src/`): an x86-64 kernel in C in
which ring-3 *actors* run under a preemptive scheduler, talk through mailboxes,
hold capabilities instead of user ids, load programs from stored objects, and
reach a disk, a network card, a keyboard, a clock and a second core.

## 1. Inventory

| Part | Source (under `src/src/`) | State | What is hard | Module |
|---|---|---|---|---|
| Physical memory | `core/memory.c` | bitmap, bump pointer, free list | three ways to hand out a page must never agree on one; unaligned or wrapping maps; a full free list | `Memory`, `MemoryManager` |
| Actors and capabilities | `core/actor.c` | `actors[]`, `current_actor`, `caps[]`, quotas | timer ticks everywhere; a wakeup that must not be lost; slots and stacks that are reused; tables that fill | `Actors` |
| Programs | `core/loader.c`, `hal/x86_64/paging.c` | program windows, pool of two page tables | five ways for a load to fail half way; tables that are not given back; sums that wrap | `Programs` |
| Objects | `core/storage.c`, `hal/x86_64/ata.c` | `objects[]`, directory sector, data sectors | the machine stops between two writes; a disk write fails | `Storage` |
| Network messages | `core/net.c` | sequence numbers | lost, repeated, late frames; restarts | `Net` |
| Network driver | `hal/x86_64/virtio_net.c` | two rings shared with the card | the card works in parallel; indices wrap; a buffer the card still owns | `VirtioNet` |
| Console, second core | `hal/x86_64/console.c`, `smp.c` | panes, cursors, escape state, lock, boot flag | two cores write at once; parameters out of range; a timeout races the flag | `Console` |
| Keyboard, line editor | `hal/x86_64/keyboard.c`, `core/main.c` | ring, shift state, the shell's line | the interrupt handler and the poller share the ring | `Keyboard`, `Terminal` |
| Clock | `hal/x86_64/rtc.c` | - | registers that change while they are read; formats | `Clock`, `Terminal` |
| Demonstration | `core/main.c` | scripts of the boot actors, the shell's jobs | actors that wait for each other; slots that pass from one to another | `Demo` |
| System calls, interrupts | `hal/x86_64/syscall.c`, `interrupts.c` | - | capability checks before each call | all of these |

The parts meet in these places: every spawn allocates a stack page and every
switch may free some; a load claims pages, then spawns; every object call goes
through the capabilities of the current actor; boot creates actors, objects and
grants in a fixed order that the code later relies on (slots and object ids are
`#define`s). `PROJECT.json` lists the hazards of the code at their lines, with
the properties that would catch each of them.

## 2. Modules

```
PageAllocator <- implements - MemoryManager - extends -> Memory
                                                           ^
                                     Actors - extends -----+
                                     ^    ^
                Programs - extends --+    +-- extends - Demo

Namespace     <- implements - Storage
DeviceQueue   <- implements - VirtioNet
DeviceQueue   <- implements - Terminal - extends -> Keyboard, Clock
Net           machines and the link between them
Console       two cores, the panes and the boot of the second core

theorems:  MemoryLemmas, MemoryProofs, ActorsProofs, ProgramsProofs, StorageProofs,
           NetProofs, VirtioNetProofs, DevicesProofs (console, keyboard, clock)
instances: MCMemory, MCActors, MCPrograms, MCDemo, MCStorage, MCNet, MCVirtioNet,
           MCConsole, MCTerminal
```

* **Memory** has the functions of `memory.c` as operators on one record (bitmap,
  `next_free_page`, `mem_top`, `free_list`), so that a caller can compose several
  in a step. A page is its address; addresses wrap at `WORD`.
* **MemoryManager** lets arbitrary callers use those functions, and counts in `held` how
  often each page is in their hands. **PageAllocator** is what this must look like from
  outside: its counts go from 0 to 1 and back, and no step takes one to 2.
* **Actors** is `actor.c`. A system call enters through an interrupt gate and
  interrupts stay off until its last change of state, so it is one step. The
  exception is a receive that blocks: `receiving` marks an actor in the middle of
  its loop, where it can be preempted. `schedule_next` is part of every action that
  calls it, and `reap_dead_actors` is part of `schedule_next`. A capability table
  is the set of what it holds and how many entries it uses, which is all that the
  code can tell apart, entries being only added and cleared together.
* **Programs** adds `SYS_SPAWN_PROGRAM` to `Actors`. The call is two steps that nothing
  separates: the loader's, up to the pages it claims, and the kernel's, which ends in one
  of `LoadRefused`, `LoadUnspawned`, `LoadUnmapped` and `LoadDone`. An object is what the
  loader looks at in it (`Image`); the page size is taken in 32 bits, the bounds check
  in 64, as in C. `loaded` is history.
* **Storage** is `storage.c` on the disk of `ata.c`, behind the capability checks of
  `syscall.c`. A call is a step in memory and then one step per sector; `op` is what
  it has yet to write. `Crash` may come between any two steps. A disk operation may
  fail after any sector. Object sizes count sectors; a name is a model string whose
  stored form is `Stored[name]`. **Namespace** is what a restart must be able to
  rely on. `own`, `judged` and `cut` are history.
* **Demo** has the actors of `main.c` as programs on `Actors`: the mailbox trio, the
  coordinator with its workers, the storage pipeline, and the shell with its `count`,
  `pipe`, `stop`, `kill` and `exit` commands and the counters, sources and sinks they
  start. A program is a table of labels with a system call after each; `pc` is the label
  of an actor, `local` what its function keeps in variables. The calls are the actions of
  `Actors`. Of an object it keeps whether its contents are bad and its trust. History: `seen`
  and `passed` of the objects; `knows`, which slots hold actors that an actor has to do with;
  `misled`, the slots whose actor was sent something not meant for it (for an earlier actor of
  the slot, or the user's `stop`); `mishaps`, which programs were refused a child, terminated
  or misled; and `shell.sourceless`, the sinks of pipes whose source could not be spawned.
* **Net** is `net.c` on a link that loses frames or delivers them twice, into receive
  rings of bounded size. A reliable send is a loop of steps (transmit, poll), during
  which its machine does nothing else and the others go on. A machine may restart between
  any two steps; it then starts again with sequence number 1.
* **VirtioNet** is one machine's driver against its card: each access to shared memory is
  a step, and the card moves between any two of them, or not at all. A frame is a model
  value; a buffer that is being filled is `Garbled`. Seen from outside, reception is the
  queue of **DeviceQueue**.
* **Console** is `hal_console_putchar` of two cores, with the lock, the escape sequences,
  the cursors and `int` parameters that wrap round, and `hal_smp_boot_ap`, which wakes the
  second core and waits for its flag. The second core selects no window: it prints into the
  one that is current. A character is its class.
* **Keyboard** is the interrupt handler, its ring, and the shell's `shell_read_line`;
  **Clock** is `hal_rtc_read` against a chip that changes second while it is read, in each
  of its four register formats. **Terminal** composes the two with the shell's loop, of which
  a line may also `clear` the pane or `exit`, and with the second core, which prints into the
  pane at any time; `mixed` says that it has. The ring implements `DeviceQueue`.

Definitions introduced by `Mistake:` are plausible bugs, each the mutated form of the
definition that follows; no specification uses them.

## 3. Runs

| Run | Checks | Distinct states |
|---|---|---|
| `memory` | `NothingSkipped`, `Implements` | 10 thousand |
| `actors` | `PrivateStacks`, `FreeListBound`, `AuthorityFlow` | 1.15 million |
| `actors_live` | `OneRunning`, `NoLostWakeup`; `ReadyRuns`, `WaitingReceives`, `DeadReaped` under fairness | 28 thousand |
| `programs` | `OwnProgram`, `CopyInBounds`, `FailedLoadHarmless` | 515 thousand |
| `storage` | `DirectoryConsistent`, `OwnData`, `TrustEarned`, `Implements`; the machine may stop | 67 thousand |
| `storage_faults` | `UniqueNames`, `BootIds`; the machine may stop and the disk may fail, one name is too long | 5 thousand |
| `net` | `ConfirmedUnlessRestarted`, `InOrder`; `ReliableSendReturns` under fairness | 279 thousand |
| `driver` | `BuffersAccounted`, `SentAsGiven`, `Implements` | 906 thousand |
| `console` | `CursorInside`, `OneInPutchar`, `ApReported`; `WriteReturns` under fairness | 421 thousand |
| `terminal` | `ShownIsTyped`, `TimeTold`, `KeysInOrder`; `LineCarriedOut` under fairness | 103 thousand |
| `demo` | `NoMessageMisread`, `TrustEarned`, `ReadsFinalVerdict`, `PipeExact`, `JobsInReach`; `WrittenGetsVerdict` under fairness | 226 thousand |
| `actors_leak` | must fail: `NoPageForgotten` | - |

What each property says is in the comment above it and what each run shows is in
`PROJECT.json`.

**Bounds.** Three slots, two filled at boot, are enough for a parent, a child and a
bystander, for a slot to be reused, and for the round robin to pass somebody over. The
actors' machine has six pages, four of which can be stacks: two more than stacks and free
list may come to together, so that the bound on them is not one on the memory, and a spawn can
fail for want of a slot and for a page outside the window. Capability tables of 3 or 4 and
mailboxes of 1 or 2 fill up. `Delegable` limits what is delegated, `Calls` which object
calls are made.

In `programs` there are four slots and a pool of two tables, for three slots that may ask for
one, and room for three program pages: programs of one page and of two, with every way
to be none, run out of each of these. `UINT32` is 8, so that the page count wraps for
the sizes that the loader must refuse.

The store has one boot object and one slot for users in `storage`, two and two in
`storage_faults`; two sectors per object are the least that a write can be cut between.
Slots and ids are ordered in the code, so there is no symmetry to use.

The network has two machines, rings of two frames, calls of two attempts, three messages
and one restart: a retransmission can meet a full ring, the acknowledgement of an earlier
attempt or of an earlier boot. The driver has queues of two descriptors and three
buffers, of which two are posted; its indices wrap at 4, so that both rings go round and the
counters overflow; the card may owe two frames, which takes a send that timed out.

The console has panes of two columns and one or two rows, parameters of nines in an `int`
of eight values (nothing, one, too large, negative), two parameters kept, and writes of two
characters; since the escape state outlives a write, sequences of any length arise. The
terminal has a ring of two places, one letter, and lines of two, so that ring and line
fill up, and seconds on either side of noon, one o'clock, midnight and the turn of a year.
The time is asked for only before anything is typed: clock and keyboard share nothing.

`demo` has ten slots, eight of them filled at boot, the code's mailboxes, and capability
tables and quotas cut down with the number of slots. `Casts` says which of the boot actors
run their program in one behaviour, whom the timer interrupts and how often, and how many
commands the shell gets; the other boot actors wait in a receive, and are not preempted while
they do. The mailbox trio, the coordinator, the pipeline and the shell each run alone with
ticks without end (the trio and the pipeline also from the objects an earlier boot has left; the
shell with two commands, or with three when only it and the first spare slot are
interrupted). All eight run together, as in `kernel_main()`, with one tick and one command or
with two ticks; and downloader and scanner run beside the shell, and beside the coordinator, with
the ticks that it takes until a message or a terminate reaches the next actor of a slot. In these
casts the scanner is refused an inspector; an inspector is terminated by the coordinator or by
the user, or hears the user's `stop` before its task; the scanner's last message reaches a worker or
a sink; and ends of a pipe are terminated.

**Fairness.** In `actors_live` the timer keeps ticking and boot goes on (weak fairness),
and an actor that is resumed over and over inside `actor_receive()` eventually gets
through the handful of instructions to its message (strong fairness, because each tick
disables that step: a tick is 10 ms away, the message a few instructions). Actors are not
assumed to do anything else: not to yield, nor exit. In `demo` the machine goes on, and where
ticks have no end the same strong fairness holds for the next step of downloader, scanner and
spawned actors, whose code has no loop without a system call. In `net` the loop of a reliable send goes on, as interrupts are
off; nothing is assumed of the link or of the other machine. In `console` each core goes on
with what it does; nothing is assumed of who wins the lock. In `terminal` the shell, which
the round robin comes back to, and a read of the clock, with interrupts off, go on; nothing
is assumed of who types. `driver` assumes nothing, least of all of the card, and has no
liveness property: its loops are bounded by `SPINS`.

**Where code and comments disagree.** `actors_leak` states a claim of a comment that the
code does not keep (`actor.c:147`, the stack of an actor is "freed on reap once DEAD"): an
actor exits, the one that runs next spawns before the next switch, and the child takes the slot
and overwrites `stack_page`.

The modelling met more disagreements, for which no run is kept:

* `schedule_next` halts as soon as nobody is runnable, with actors blocked in a receive;
  `actor.h:199` says "once every actor has exited".
* `actor_terminate` returns 0 for a target that is already dead; `actor.h:185` says -1.
* `directory_save` ignores a failed write: with `DiskFaults`, `DirectoryConsistent` fails.
* A name of more than 15 characters is stored cut and compared whole, so it can be created
  twice; `UniqueNames` speaks of the names that fit.
* `storage.h:73` says that new contents reset the trust; a restart after the data sectors
  and before the directory leaves the old trust over them. `TrustEarned` excepts the objects
  in `cut`.
* `net.h:43` says that a reliable send "returns 0 once genuinely delivered"; after a restart
  the numbers begin at 1 again (`net.c:94`), and a late acknowledgement of an old message can
  confirm a new one that was lost. `ConfirmedUnlessRestarted` excepts that.
* A slot is all the address there is. If the downloader has exited and its slot has gone to a
  worker, the scanner's last `MSG_SCAN_DONE` (`main.c:733`) is taken for the worker's task, the
  reply is refused, and the coordinator waits for ever; `main.c:531` says that the worker can
  always reply. If the slot has gone to a sink, the message is added up as a value of the pipe. The
  coordinator's terminate (`main.c:573`) of a second worker that has already exited ends whoever
  has its slot. `NoMessageMisread` excepts the actors that were so misled (`misled`); `PipeExact` speaks
  of pipes of which no end was terminated or misled.
* With all slots taken the scanner is refused its inspector and returns without a verdict and
  without an acknowledgement (`main.c:693-697`), so that the downloader stays blocked; `actor.h:20-28`
  reports this and raises `MAX_ACTORS` by one, which is enough until the shell has jobs.
  `WrittenGetsVerdict` names this case, and those of an inspector that is terminated or misled.
* `main.c:1049` says that the slow counter checks its mailbox each round; it never receives,
  and a `stop` has no effect on it. `JobsInReach` therefore speaks of the authority to stop a
  job and not of its effect. A sink whose source could not be spawned is not among the `jobs`
  (`main.c:1264`).
* `console.c:23-28` and `hal.h:17` reserve the bottom pane for the shell. The second core (`smp.c:74-98`)
  selects no window, and its lines land in the shell's pane when the shell wrote last. `CursorInside`
  therefore says nothing about which pane, and `ShownIsTyped` speaks of the time before such a
  line, and after a `clear`.
* The driver counts on one transmit descriptor in flight (`virtio_net.c:254`), which a send
  that timed out breaks: the late completion is taken for that of the next frame.
  `SentAsGiven` speaks of the time before that.
* In 12-hour mode noon is told as midnight and midnight as noon (`rtc.c:65`), where `main.c:1218`
  prints the hour as UTC. `TimeTold` leaves out that hour.
* Letting go of one of two shift keys that are held ends the shift (`keyboard.c:75`).

## 4. Theorems

Each holds for every value of the constants that the named assumptions admit, which say
little more than that sizes are natural numbers and inputs have their type.

* **MemoryProofs** `Invariance`: `TypeOK /\ Exclusive /\ NothingSkipped` is inductive as
  it stands; `Exclusive` has that no page is in two hands. `Refinement`: every step of `MemoryManager` is a step of `PageAllocator`
  or a stutter; it needs the invariant (a page not in the bitmap is held by nobody) and
  that `mark_range_free` keeps to whole pages that the map reports.
* **ActorsProofs** `Invariance`: the inductive invariant `IInv` is the conjunction of all
  safety invariants of `Actors` with `BootCounts`, which says that nobody has spawned
  anything before boot is over (needed when `BootStart` replaces the quotas). The parts
  depend on each other: that a page is on the free list once needs that no two slots
  share one, and that a freed stack fits on the free list needs the bound on both.
  From it follow `StacksPrivate`, `FreeListNeverFull`, `OnlyCurrentRuns`, `WakeupsKept`,
  `QuotaKept`; `AuthorityConserved` proves the action property `AuthorityFlow` step by step.
* **ProgramsProofs**: `PInv` is `IInv`, a bound on `mem_top`, and three parts: `PoolInv` (each
  table of the pool has one owner and each window is a table of its slot), `LoadingInv` (what
  the loader hands over was claimed, is in bounds, and belongs to nobody), `LoadedInv` (the
  programs of live actors are allocated, disjoint, and off the free list). The last needs
  that free pages lie inside the private window and program pages past it. From it
  `ProgramIsolation`, `LoadsInBounds`, `StacksPrivateWithPrograms`; and the action property
  `FailedLoads`.
* **StorageProofs**: three invariants, each on top of the last. `NamesInv` (table and directory
  each have distinct names and begin with the boot objects) gives `NamesKept` and `BootIdsKept`,
  with any faults and crashes. `DiskInv` adds what relates the disk to memory between and during calls, and
  gives `DirectoryKept`, `ContentsOwn` and `TrustIsOfContents` on a disk that does not fail. `RefInv` adds that what is yet to be
  saved is one step of `Namespace` from what a restart would recover, and gives
  `StoreImplements` if, besides, names fit their entries.
* **NetProofs**: `NetInv` says that a frame in a ring is genuine (an acknowledgement follows a
  delivery), that a sequence number means one message until its machine restarts, and that the
  messages of one sender wait in their order and none before the last one given. From it
  `ReliableMeansDelivered` and `DeliveredInOrder`.
* **VirtioNetProofs**: the invariant `IInv` is in counts and positions, because the indices wrap:
  between the driver's and the card's index each ring has at most as many entries as it has
  places (`Accounts`), no buffer is twice in what is offered, taken, used or in hand, and
  together these are all of the posted buffers. `Contents` adds that a used entry tells the
  frame that its buffer has, `Owing` and `InTime` that until a send has timed out the card owes
  at most the frame being sent. From it `BuffersStayAccounted` and `FramesSentAsGiven`. For
  `ReceiveSideIsQueue` the used ring, read from the driver's index to the card's, behind the
  frame in hand, is the queue; the lemmas on `Place` and `Between` are what this needs of
  arithmetic modulo `UINT16`, of which `QSIZE` is a divisor.
* **DevicesProofs**, console: `ConsoleInv` says that the lock is taken exactly while a core is
  inside, that the flag is raised by a core that was woken, and `CursorInside`, which every
  character class keeps. From it `ScreenKept`, `CoresApart`, `ApReportTrue`.
* **DevicesProofs**, terminal: `TInv` (the indices are places of the ring; the row shows the
  line unless `mixed`) gives `RowShowsLine`, and with it every step of the ring is one of a bounded queue:
  `RingIsQueue`. `ClockInv` says that each register read so far is that of the second before
  or of the second after; the conversions from BCD and from twelve hours lose nothing, the
  hour of noon and midnight left out, and `TimeIsTold` follows.
* **MemoryLemmas** has the facts on the operators of `Memory` that the others use.

Model-checked only: all liveness properties (liveness under fairness is beyond the
prover), and `Demo`, whose properties are about fixed scripts.

## 5. Not modelled

* The scripts `actor_one`, `actor_two`, `actor_three` and `actor_greedy`, the network peer, the
  program loader actor and the namer of `main.c`: straight sequences of calls that `Actors`, `Net`,
  `Programs` and `Storage` let any caller make in any order.
* The ARP exchange at boot, and the shell's parsing and the output of its `run`, `ls`,
  `date` and `echo`: text, or calls that only read, or (`run`) the load that `Programs` has.
* `Storage` composed with the capability tables of `Actors`: `Storage` keeps which ids its
  caller was granted. A creator keeps its capabilities for an id after deleting the object;
  ids are what capabilities are about, and only the namer may create.
* Page contents, colours and text, the bytes of programs.
* The ports of the disk, the APIC and the trampoline of the second core, the timer and
  interrupt controllers: sequences of port writes without state that anything reads back.
* Descriptor tables, context switch and boot loader: register-level code without protocol.
* PCI and E820 discovery: inputs of the models.
* The superseded assembly kernel under `legacy-asm/`.
