------------------------------- MODULE Actors -------------------------------
(***************************************************************************)
(* The actor kernel, src/src/core/actor.c: preemptive round-robin          *)
(* scheduling, mailboxes, capabilities, spawning and termination, on top   *)
(* of the page allocator of Memory.tla.                                    *)
(*                                                                         *)
(* One core runs the actors.  A syscall enters through an interrupt gate   *)
(* and keeps interrupts off until its last change of state, so a syscall   *)
(* of the current actor is one step.  The exception is a receive that      *)
(* blocks: it gives the processor away in the middle of its loop and goes  *)
(* on when the actor is next scheduled (`receiving').  The timer can       *)
(* preempt an actor anywhere else, in ring 3 or on the way out of ring 0.  *)
(***************************************************************************)
EXTENDS Memory

CONSTANTS
  MAX_ACTORS,            \* 17
  MAILBOX_CAPACITY,      \* 8
  MAX_CAPS_PER_ACTOR,    \* 20
  MAX_SPAWNS_PER_ACTOR,  \* 2
  Op,                    \* the operations a capability may name
  Payload,               \* the contents of a message
  Delegable,             \* bound: the operations the actors of this instance delegate
  BootMap,               \* the memory map of this machine
  BOOT_ACTORS,           \* how many actors kernel_main() spawns
  BootCaps,              \* what kernel_main() grants to each slot
  BootQuota              \* the spawn quota of each slot after kernel_main()

Slot == 0 .. MAX_ACTORS - 1
Cap == [op : Op, target : Slot]
Message == [sender : Slot, payload : Payload]

ASSUME ActorsAssumption ==
  /\ MAX_ACTORS \in Nat \ {0}
  /\ {MAILBOX_CAPACITY, MAX_CAPS_PER_ACTOR, MAX_SPAWNS_PER_ACTOR} \subseteq Nat
  /\ {"SEND", "SPAWN", "TERMINATE"} \subseteq Op
  /\ Delegable \subseteq Op
  /\ BOOT_ACTORS \in 0 .. MAX_ACTORS
  /\ \A r \in BootMap : r \in [base : Nat, length : Nat]
  /\ BootCaps \in [Slot -> SUBSET Cap]
  /\ \A s \in Slot : IsFiniteSet(BootCaps[s]) /\ Cardinality(BootCaps[s]) <= MAX_CAPS_PER_ACTOR
  /\ BootQuota \in [Slot -> Nat]

NoActor == -1

VARIABLES
  state,          \* actors[i].state
  stack_page,     \* actors[i].stack_page
  mailbox,        \* actors[i].mailbox, from mailbox_head, mailbox_count long
  caps,           \* actors[i].caps: the capabilities held, the entries used
  spawn_count,    \* actors[i].spawn_count
  spawn_quota,    \* actors[i].spawn_quota
  receiving,      \* actor i is inside actor_receive()'s loop
  current_actor,  \* the actor on the processor
  mem,            \* the page allocator
  booted,         \* how many actors kernel_main() has spawned so far
  machine         \* "up", "idle" (no runnable actor left) or "panic"
vars == <<state, stack_page, mailbox, caps, spawn_count, spawn_quota,
          receiving, current_actor, mem, booted, machine>>

-----------------------------------------------------------------------------
\* Capabilities.  Entries are only ever added, and all cleared together, so
\* a table is the set of what it holds and the number of its entries in use.
NoCaps == [held |-> {}, count |-> 0]

actor_has_cap(s, op, target) == [op |-> op, target |-> target] \in caps[s].held

actor_add_cap(table, op, target) ==
  IF table.count < MAX_CAPS_PER_ACTOR
  THEN [held |-> table.held \cup {[op |-> op, target |-> target]}, count |-> table.count + 1]
  ELSE table

-----------------------------------------------------------------------------
\* Scheduling.
\* Mistake: the loop stops at the current actor instead of passing over it.
ReapedBelow(st) ==
  {s \in Slot : s < current_actor /\ st[s] = "DEAD" /\ stack_page[s] # NULL}

\* reap_dead_actors() frees the stacks of the dead, in the order of the slots,
\* but for the actor that is still on the processor.
Reaped(st) ==
  {s \in Slot : s # current_actor /\ st[s] = "DEAD" /\ stack_page[s] # NULL}

\* The k-th slot of a set of slots.
Ranked(S, k) == CHOOSE s \in S : Cardinality({t \in S : t <= s}) = k
ReapedPages(st) == [k \in 1 .. Cardinality(Reaped(st)) |-> stack_page[Ranked(Reaped(st), k)]]

\* free_page() of each of a sequence of pages: the ones that fit.
FreePages(m, pages) ==
  [m EXCEPT !.free_list =
     SubSeq(@ \o pages, 1,
            IF Len(@) + Len(pages) <= FREE_LIST_CAPACITY
            THEN Len(@) + Len(pages)
            ELSE FREE_LIST_CAPACITY)]

reap_dead_actors(st) ==
  /\ mem' = FreePages(mem, ReapedPages(st))
  /\ stack_page' = [s \in Slot |-> IF s \in Reaped(st) THEN NULL ELSE stack_page[s]]

Runnable(st) == {s \in Slot : st[s] \in {"READY", "RUNNING"}}

\* Mistake: the search always begins at slot 0.
DistanceFromZero(s) == s

\* How far after the current actor the round robin meets a slot.
Distance(s) ==
  LET start == IF current_actor = NoActor THEN 0 ELSE current_actor
  IN  (s - start + MAX_ACTORS - 1) % MAX_ACTORS
NextRunnable(st) ==
  CHOOSE s \in Runnable(st) : \A t \in Runnable(st) : Distance(s) <= Distance(t)

\* schedule_next(), called with the actors in state st.
schedule_next(st) ==
  /\ reap_dead_actors(st)
  /\ IF Runnable(st) = {}
     THEN /\ machine' = "idle"
          /\ state' = st
          /\ UNCHANGED current_actor
     ELSE /\ current_actor' = NextRunnable(st)
          /\ state' = [st EXCEPT ![NextRunnable(st)] = "RUNNING"]
          /\ UNCHANGED machine

-----------------------------------------------------------------------------
\* Spawning.
DeadSlots == {s \in Slot : state[s] = "DEAD"}
FirstDead == Minimum(DeadSlots)

\* hal_address_space_create() maps a stack only inside the private window.
hal_address_space_create(page) == MEM_BASE <= page /\ page + PAGE_SIZE <= PRIVATE_WINDOW_END

\* Mistake: a stack that could not be mapped is used all the same.
CanSpawnUnmapped == DeadSlots # {} /\ alloc_page(mem).page # NULL

\* Whether actor_spawn() succeeds, and the allocator after it either way.
CanSpawn ==
  /\ DeadSlots # {}
  /\ alloc_page(mem).page # NULL
  /\ hal_address_space_create(alloc_page(mem).page)
SpawnMem ==
  IF DeadSlots = {} THEN mem
  ELSE IF CanSpawn THEN alloc_page(mem).mem
  ELSE free_page(alloc_page(mem).mem, alloc_page(mem).page)

\* actor_spawn() into slot i; its callers say what becomes of the
\* capabilities and the spawn counters.
actor_spawn(i) ==
  /\ state' = [state EXCEPT ![i] = "READY"]
  /\ stack_page' = [stack_page EXCEPT ![i] = alloc_page(mem).page]
  /\ mailbox' = [mailbox EXCEPT ![i] = << >>]
  /\ spawn_quota' = [spawn_quota EXCEPT ![i] = MAX_SPAWNS_PER_ACTOR]
  /\ receiving' = [receiving EXCEPT ![i] = FALSE]
  /\ mem' = SpawnMem

-----------------------------------------------------------------------------
\* Boot.
Init ==
  /\ state = [s \in Slot |-> "DEAD"]
  /\ stack_page = [s \in Slot |-> NULL]
  /\ mailbox = [s \in Slot |-> << >>]
  /\ caps = [s \in Slot |-> NoCaps]
  /\ spawn_count = [s \in Slot |-> 0]
  /\ spawn_quota = [s \in Slot |-> MAX_SPAWNS_PER_ACTOR]
  /\ receiving = [s \in Slot |-> FALSE]
  /\ current_actor = NoActor
  /\ mem = memory_init(BootMap)
  /\ booted = 0
  /\ machine = "up"

\* kernel_main() spawns the first actors one after the other; it does not
\* look at the results.
BootSpawn ==
  /\ current_actor = NoActor
  /\ booted < BOOT_ACTORS
  /\ booted' = booted + 1
  /\ IF CanSpawn
     THEN actor_spawn(FirstDead)
     ELSE mem' = SpawnMem /\ UNCHANGED <<state, stack_page, mailbox, spawn_quota, receiving>>
  /\ UNCHANGED <<caps, spawn_count, current_actor, machine>>

\* Then it grants the capabilities, raises the quotas and starts the scheduler.
BootStart ==
  /\ current_actor = NoActor
  /\ booted = BOOT_ACTORS
  /\ machine = "up"
  /\ caps' = [s \in Slot |-> [held |-> BootCaps[s], count |-> Cardinality(BootCaps[s])]]
  /\ spawn_quota' = BootQuota
  /\ schedule_next(state)
  /\ UNCHANGED <<mailbox, spawn_count, receiving, booted>>

-----------------------------------------------------------------------------
\* The current actor runs, and is in ring 3 unless it is inside a receive.
Running == current_actor # NoActor /\ machine = "up"
InUserMode == Running /\ ~receiving[current_actor]

\* Mistake: the actor that yields stays RUNNING.
actor_yield_running ==
  /\ schedule_next(state)
  /\ UNCHANGED <<mailbox, caps, spawn_count, spawn_quota, receiving, booted>>

\* actor_yield(), by SYS_YIELD or by the timer interrupt.
actor_yield ==
  /\ schedule_next([state EXCEPT ![current_actor] = "READY"])
  /\ UNCHANGED <<mailbox, caps, spawn_count, spawn_quota, receiving, booted>>

SysYield == InUserMode /\ actor_yield
TimerTick == Running /\ actor_yield

\* SYS_EXIT
actor_exit ==
  /\ InUserMode
  /\ schedule_next([state EXCEPT ![current_actor] = "DEAD"])
  /\ UNCHANGED <<mailbox, caps, spawn_count, spawn_quota, receiving, booted>>

\* SYS_SEND: refused without the capability, to a dead actor, or to one whose
\* mailbox is full; a blocked receiver is woken.
SendAllowed(dest) ==
  /\ actor_has_cap(current_actor, "SEND", dest)
  /\ state[dest] # "DEAD"
  /\ Len(mailbox[dest]) < MAILBOX_CAPACITY

\* Mistake: a blocked receiver is not woken.
actor_send_silent(dest, payload) ==
  /\ InUserMode
  /\ SendAllowed(dest)
  /\ mailbox' = [mailbox EXCEPT ![dest] =
                   Append(@, [sender |-> current_actor, payload |-> payload])]
  /\ UNCHANGED <<state, stack_page, caps, spawn_count, spawn_quota, receiving,
                 current_actor, mem, booted, machine>>

actor_send(dest, payload) ==
  /\ InUserMode
  /\ SendAllowed(dest)
  /\ mailbox' = [mailbox EXCEPT ![dest] =
                   Append(@, [sender |-> current_actor, payload |-> payload])]
  /\ state' = [state EXCEPT ![dest] = IF @ = "BLOCKED" THEN "READY" ELSE @]
  /\ UNCHANGED <<stack_page, caps, spawn_count, spawn_quota, receiving,
                 current_actor, mem, booted, machine>>

\* SYS_RECEIVE, from its call or from where it last blocked: the message at
\* the head of the mailbox, or away from the processor until there is one.
actor_receive ==
  /\ Running
  /\ IF mailbox[current_actor] = << >>
     THEN /\ receiving' = [receiving EXCEPT ![current_actor] = TRUE]
          /\ schedule_next([state EXCEPT ![current_actor] = "BLOCKED"])
          /\ UNCHANGED mailbox
     ELSE /\ receiving' = [receiving EXCEPT ![current_actor] = FALSE]
          /\ mailbox' = [mailbox EXCEPT ![current_actor] = Tail(@)]
          /\ UNCHANGED <<state, stack_page, current_actor, mem, machine>>
  /\ UNCHANGED <<caps, spawn_count, spawn_quota, booted>>

\* SYS_GRANT: only what the caller holds; the destination may be dead, and
\* its table may be full.
actor_delegate(dest, op, target) ==
  /\ InUserMode
  /\ actor_has_cap(current_actor, op, target)
  /\ caps' = [caps EXCEPT ![dest] = actor_add_cap(@, op, target)]
  /\ UNCHANGED <<state, stack_page, mailbox, spawn_count, spawn_quota,
                 receiving, current_actor, mem, booted, machine>>

\* SYS_SPAWN
MaySpawn ==
  /\ actor_has_cap(current_actor, "SPAWN", 0)
  /\ spawn_count[current_actor] < spawn_quota[current_actor]

\* Mistake: the child starts with what the slot's last occupant held.
actor_spawn_child_inherits ==
  /\ InUserMode
  /\ MaySpawn
  /\ CanSpawn
  /\ actor_spawn(FirstDead)
  /\ spawn_count' = [spawn_count EXCEPT ![FirstDead] = 0, ![current_actor] = @ + 1]
  /\ caps' = [caps EXCEPT
       ![FirstDead] = actor_add_cap(@, "SEND", current_actor),
       ![current_actor] =
          actor_add_cap(actor_add_cap(@, "SEND", FirstDead), "TERMINATE", FirstDead)]
  /\ UNCHANGED <<current_actor, booted, machine>>

actor_spawn_child ==
  /\ InUserMode
  /\ MaySpawn
  /\ CanSpawn
  /\ actor_spawn(FirstDead)
  /\ spawn_count' = [spawn_count EXCEPT ![FirstDead] = 0, ![current_actor] = @ + 1]
  /\ caps' = [caps EXCEPT
       ![FirstDead] = actor_add_cap(NoCaps, "SEND", current_actor),
       ![current_actor] =
          actor_add_cap(actor_add_cap(@, "SEND", FirstDead), "TERMINATE", FirstDead)]
  /\ UNCHANGED <<current_actor, booted, machine>>

\* SYS_SPAWN when actor_spawn() fails: no slot, no page, or a page that is
\* not in the private window and goes back to the allocator.
SpawnFails ==
  /\ InUserMode
  /\ MaySpawn
  /\ ~CanSpawn
  /\ mem' = SpawnMem
  /\ UNCHANGED <<state, stack_page, mailbox, caps, spawn_count, spawn_quota,
                 receiving, current_actor, booted, machine>>

\* SYS_TERMINATE: nothing looks at whether the target is already dead.
TerminateAllowed(target) ==
  /\ target # current_actor
  /\ actor_has_cap(current_actor, "TERMINATE", target)

actor_terminate(target) ==
  /\ InUserMode
  /\ TerminateAllowed(target)
  /\ state' = [state EXCEPT ![target] = "DEAD"]
  /\ UNCHANGED <<stack_page, mailbox, caps, spawn_count, spawn_quota,
                 receiving, current_actor, mem, booted, machine>>

\* An exception of the current actor (a stack overflow, an access outside its
\* address space): exception_handler() stops the machine.
Panic ==
  /\ Running
  /\ machine' = "panic"
  /\ UNCHANGED <<state, stack_page, mailbox, caps, spawn_count, spawn_quota,
                 receiving, current_actor, mem, booted>>

\* hal_halt_forever()
Halted == machine # "up" /\ UNCHANGED vars

\* A syscall that is refused changes nothing: a stuttering step.
Next ==
  \/ BootSpawn
  \/ BootStart
  \/ SysYield
  \/ TimerTick
  \/ actor_exit
  \/ \E dest \in Slot, payload \in Payload : actor_send(dest, payload)
  \/ actor_receive
  \/ \E dest \in Slot, op \in Delegable, target \in Slot : actor_delegate(dest, op, target)
  \/ actor_spawn_child
  \/ SpawnFails
  \/ \E target \in Slot : actor_terminate(target)
  \/ Panic
  \/ Halted

Spec == Init /\ [][Next]_vars

\* The timer ticks forever.  An actor resumed inside a receive is only a few
\* instructions from its message and a tick is 10ms away, so it gets there.
Fairness ==
  /\ WF_vars(BootSpawn) /\ WF_vars(BootStart)
  /\ WF_vars(TimerTick)
  /\ \A s \in Slot : SF_vars(current_actor = s /\ receiving[s] /\ actor_receive)
FairSpec == Spec /\ Fairness

-----------------------------------------------------------------------------
TypeOK ==
  /\ state \in [Slot -> {"DEAD", "READY", "RUNNING", "BLOCKED"}]
  /\ stack_page \in [Slot -> Page \cup {NULL}]
  /\ mailbox \in [Slot -> Seq(Message)]
  /\ caps \in [Slot -> [held : SUBSET Cap, count : 0 .. MAX_CAPS_PER_ACTOR]]
  /\ spawn_count \in [Slot -> Nat]
  /\ spawn_quota \in [Slot -> Nat]
  /\ receiving \in [Slot -> BOOLEAN]
  /\ current_actor \in Slot \cup {NoActor}
  /\ mem \in [bitmap : SUBSET Page, next_free_page : Nat, mem_top : Nat, free_list : Seq(Page)]
  /\ booted \in 0 .. BOOT_ACTORS
  /\ machine \in {"up", "idle", "panic"}

\* There is one processor: the running actor is the current one, and it is
\* running until it halts the machine (actor_terminate() rests on this when it
\* says that its target cannot be running).
OneRunning ==
  \A s \in Slot : state[s] = "RUNNING" <=> s = current_actor /\ machine # "idle"

\* No wakeup is lost: an actor that actor_receive() took off the processor has
\* nothing in its mailbox for as long as it stays blocked.
NoLostWakeup == \A s \in Slot : state[s] = "BLOCKED" => receiving[s] /\ mailbox[s] = << >>

\* An actor that can run has a stack of its own: mapped in the private window,
\* in no other slot, and not on the free list from which the next spawn would
\* take it.  A dead slot may keep its page, under the same conditions, until
\* reap_dead_actors() frees it.
PrivateStacks ==
  /\ \A s \in Slot : state[s] # "DEAD" => stack_page[s] # NULL
  /\ \A s \in Slot : stack_page[s] # NULL =>
       /\ hal_address_space_create(stack_page[s])
       /\ stack_page[s] \in mem.bitmap \ Elements(mem.free_list)
       /\ \A t \in Slot : stack_page[t] = stack_page[s] => t = s

\* A page is on the free list once, and keeps its bitmap bit there, so that
\* the bump scan cannot hand it out a second time.
FreeListExact ==
  /\ Elements(mem.free_list) \subseteq mem.bitmap
  /\ \A i, j \in DOMAIN mem.free_list : mem.free_list[i] = mem.free_list[j] => i = j

\* The stacks in use and the free list together stay within one page more than
\* there are slots (the extra one is a page that actor_spawn() could not map),
\* so free_page() never finds the list of 32 full and drops a page.
Owners == {s \in Slot : stack_page[s] # NULL}
FreeListBound == Len(mem.free_list) + Cardinality(Owners) <= MAX_ACTORS + 1

\* No actor spawns more than its quota, across delegated spawn authority and
\* slots that are reused.
SpawnQuota == \A s \in Slot : spawn_count[s] <= spawn_quota[s]

\* Authority is never manufactured or inherited: what the actor in a slot gains
\* in a step, the current actor held before it, or it is the link between a
\* parent and the child that this step spawned.  A child gains all that it has:
\* the slot it is put into may still hold the capabilities of a dead actor.
Spawned(s) == state[s] = "DEAD" /\ state'[s] # "DEAD"
Gained(s) == caps'[s].held \ (IF Spawned(s) THEN {} ELSE caps[s].held)
AuthorityGained ==
  \A s \in Slot : \A c \in Gained(s) :
    \/ c \in caps[current_actor].held
    \/ /\ s = current_actor /\ c.op \in {"SEND", "TERMINATE"}
       /\ Spawned(c.target)
    \/ /\ c = [op |-> "SEND", target |-> current_actor]
       /\ Spawned(s)
AuthorityFlow == [][current_actor # NoActor => AuthorityGained]_vars

\* Round robin starves nobody: while the machine is up, an actor that is ready
\* gets the processor, however the others spawn, block, wake and exit.
ReadyRuns ==
  \A s \in Slot : state[s] = "READY" ~> (state[s] \in {"RUNNING", "DEAD"} \/ machine # "up")

\* A message that finds its receiver waiting is received, unless the receiver
\* is terminated first.
WaitingReceives ==
  \A s \in Slot :
    (receiving[s] /\ mailbox[s] # << >>) ~> (~receiving[s] \/ state[s] = "DEAD" \/ machine # "up")

\* The stack of a dead actor does not stay behind in its slot.
DeadReaped ==
  \A s \in Slot :
    (state[s] = "DEAD" /\ stack_page[s] # NULL)
      ~> (stack_page[s] = NULL \/ state[s] # "DEAD" \/ machine # "up")

-----------------------------------------------------------------------------
\* A claim of the repository that the code does not keep.

\* "freed on reap once DEAD" (the comment on stack_page, actor.c:147): no page
\* that was handed out as a stack is forgotten, neither a stack that some slot
\* still names nor on the free list.
NoPageForgotten ==
  mem.bitmap \cap FreeAtBoot(BootMap)
    \subseteq {stack_page[s] : s \in Owners} \cup Elements(mem.free_list)
=============================================================================
