---------------------------- MODULE ActorsProofs ----------------------------
(***************************************************************************)
(* The safety invariants of the actor kernel hold for every number of      *)
(* slots, mailbox, capability table and quota size, memory map and boot    *)
(* configuration, and every sequence of syscalls and timer ticks.          *)
(***************************************************************************)
EXTENDS Actors, MemoryLemmas, FiniteSetTheorems

States == {"DEAD", "READY", "RUNNING", "BLOCKED"}

\* Nobody has spawned anybody before the scheduler starts.
BootCounts == current_actor = NoActor => \A s \in Slot : spawn_count[s] = 0

\* The pages: what PrivateStacks and FreeListExact say of them.
StacksOK(pages, m) ==
  /\ WellFormed(m)
  /\ \A s \in Slot : pages[s] # NULL =>
       /\ hal_address_space_create(pages[s])
       /\ pages[s] \in m.bitmap \ Elements(m.free_list)
       /\ \A t \in Slot : pages[t] = pages[s] => t = s

-----------------------------------------------------------------------------
\* The slots are finitely many naturals.
LEMMA SlotFacts ==
  /\ Slot \subseteq Nat
  /\ NoActor \notin Slot
  /\ IsFiniteSet(Slot) /\ Cardinality(Slot) = MAX_ACTORS
<1>1. MAX_ACTORS \in Nat \ {0}
  BY ActorsAssumption
<1>2. IsFiniteSet(0 .. MAX_ACTORS - 1) /\ Cardinality(0 .. MAX_ACTORS - 1) = MAX_ACTORS
  BY <1>1, FS_Interval
<1> QED
  BY <1>1, <1>2 DEF Slot, NoActor

\* A set of n slots has a k-th slot for every k up to n.
LEMMA RankedFacts ==
  ASSUME NEW S \in SUBSET Slot
  PROVE  /\ IsFiniteSet(S) /\ Cardinality(S) \in Nat
         /\ \A k \in 1 .. Cardinality(S) :
              Ranked(S, k) \in S /\ Cardinality({t \in S : t <= Ranked(S, k)}) = k
<1> DEFINE below(s) == {t \in S : t <= s}
           n == Cardinality(S)
           rank == [s \in S |-> Cardinality(below(s))]
<1>1. IsFiniteSet(S) /\ n \in Nat /\ S \subseteq Nat
  BY SlotFacts, FS_Subset, FS_CardinalityType, ZenonT(30)
<1>2. \A s \in S : /\ IsFiniteSet(below(s)) /\ Cardinality(below(s)) \in Nat
                   /\ Cardinality(below(s)) <= n /\ Cardinality(below(s)) # 0
  <2> TAKE s \in S
  <2>1. below(s) \in SUBSET S
    OBVIOUS
  <2>2. s \in below(s)
    BY <1>1
  <2> HIDE DEF below
  <2> QED
    BY <1>1, <2>1, <2>2, FS_Subset, FS_CardinalityType, FS_EmptySet, SMTT(30)
<1>3. \A s, t \in S : s < t => Cardinality(below(s)) # Cardinality(below(t))
  <2> SUFFICES ASSUME NEW s \in S, NEW t \in S, s < t
               PROVE  Cardinality(below(s)) # Cardinality(below(t))
    OBVIOUS
  <2>1. below(s) \in SUBSET below(t)
    <3>1. \A u \in S : u <= s => u <= t
      <4> TAKE u \in S
      <4>1. u \in Nat /\ s \in Nat /\ t \in Nat
        BY <1>1, Zenon
      <4> QED
        BY <4>1
    <3> QED
      BY <3>1
  <2>2. t \in below(t) /\ t \notin below(s)
    BY <1>1
  <2>3. IsFiniteSet(below(t))
    BY <1>2
  <2> HIDE DEF below
  <2> QED
    BY <2>1, <2>2, <2>3, FS_Subset
<1>4. rank \in [S -> 1 .. n]
  <2> HIDE DEF below, n
  <2> QED  BY <1>1, <1>2
<1>5. \A s, t \in S : rank[s] = rank[t] => s = t
  <2> HIDE DEF below
  <2> QED  BY <1>1, <1>3
<1>6. rank \in Injection(S, 1 .. n)
  <2> HIDE DEF rank, n
  <2> QED  BY <1>4, <1>5 DEF Injection, IsInjective
<1>7. IsFiniteSet(1 .. n) /\ Cardinality(1 .. n) = n
  <2> HIDE DEF n
  <2> QED  BY <1>1, FS_Interval
<1>8. rank \in Surjection(S, 1 .. n)
  <2> HIDE DEF rank
  <2> QED  BY <1>6, <1>7, FS_Injection
<1>9. \A k \in 1 .. n : \E s \in S : Cardinality(below(s)) = k
  <2>1. \A k \in 1 .. n : \E s \in S : rank[s] = k
    <3> HIDE DEF rank, n
    <3> QED  BY <1>8 DEF Surjection
  <2> HIDE DEF below, n
  <2> QED  BY <2>1
<1> QED
  BY <1>1, <1>9, ZenonT(30) DEF Ranked

\* A set of slots that loses some of its members loses their number.
LEMMA CardinalityDiff ==
  ASSUME NEW S \in SUBSET Slot, NEW T \in SUBSET S
  PROVE  /\ Cardinality(S) \in Nat /\ Cardinality(T) \in Nat
         /\ Cardinality(S \ T) = Cardinality(S) - Cardinality(T)
<1>1. IsFiniteSet(S) /\ IsFiniteSet(T)
  BY SlotFacts, FS_Subset, ZenonT(30)
<1>2. S \cap T = T
  OBVIOUS
<1> QED
  BY <1>1, <1>2, FS_Difference, FS_CardinalityType, ZenonT(30)

\* Appending pages that are not on the free list to it, as far as they fit.
LEMMA FreePagesFacts ==
  ASSUME NEW m \in Allocators, WellFormed(m), NEW pages \in Seq(Page),
         \A i, j \in DOMAIN pages : pages[i] = pages[j] => i = j,
         Elements(pages) \subseteq m.bitmap \ Elements(m.free_list)
  PROVE  LET n == FreePages(m, pages)
         IN  /\ n \in Allocators /\ WellFormed(n)
             /\ n.bitmap = m.bitmap
             /\ Elements(n.free_list) \subseteq Elements(m.free_list) \cup Elements(pages)
             /\ Len(n.free_list) <= Len(m.free_list) + Len(pages)
<1> DEFINE fl == m.free_list
           all == fl \o pages
           size == IF Len(fl) + Len(pages) <= FREE_LIST_CAPACITY
                   THEN Len(fl) + Len(pages) ELSE FREE_LIST_CAPACITY
           new == SubSeq(all, 1, size)
<1>1. /\ fl \in Seq(Page) /\ Len(fl) \in Nat /\ DOMAIN fl = 1 .. Len(fl)
      /\ Len(pages) \in Nat /\ DOMAIN pages = 1 .. Len(pages)
  BY SeqLen DEF Allocators
<1>2. /\ all \in Seq(Page) /\ Len(all) = Len(fl) + Len(pages)
      /\ \A i \in 1 .. Len(fl) + Len(pages) :
           all[i] = IF i <= Len(fl) THEN fl[i] ELSE pages[i - Len(fl)]
  BY <1>1, SeqJoin
<1>3. size \in 0 .. Len(fl) + Len(pages)
  BY <1>1, MemoryAssumption
<1>4. FreePages(m, pages) = [m EXCEPT !.free_list = new]
  BY DEF FreePages
<1> HIDE DEF all, size
<1>5. /\ new \in Seq(Page) /\ Len(new) = size /\ DOMAIN new = 1 .. size
      /\ \A i \in 1 .. size : new[i] = all[i]
  BY <1>1, <1>2, <1>3, PrefixFacts, SeqLen, SMTT(30)
<1> HIDE DEF new
<1>6. /\ FreePages(m, pages).free_list = new
      /\ FreePages(m, pages).bitmap = m.bitmap
      /\ FreePages(m, pages) \in Allocators
  BY <1>4, <1>5, ZenonT(30) DEF Allocators
<1>7. /\ Elements(fl) \subseteq m.bitmap
      /\ \A i, j \in 1 .. Len(fl) : fl[i] = fl[j] => i = j
  BY <1>1 DEF WellFormed
<1> HIDE DEF fl
<1>8. \A i \in 1 .. size :
        /\ i <= Len(fl) => i \in DOMAIN fl /\ new[i] = fl[i]
        /\ ~(i <= Len(fl)) => i - Len(fl) \in DOMAIN pages /\ new[i] = pages[i - Len(fl)]
  BY <1>1, <1>2, <1>3, <1>5
<1>9. Elements(new) \subseteq Elements(fl) \cup Elements(pages)
  BY <1>5, <1>8 DEF Elements
<1>10. \A i, j \in 1 .. size : new[i] = new[j] => i = j
  <2> SUFFICES ASSUME NEW i \in 1 .. size, NEW j \in 1 .. size, new[i] = new[j]
               PROVE  i = j
    OBVIOUS
  <2>1. \A a \in DOMAIN fl, b \in DOMAIN pages : fl[a] # pages[b]
    BY DEF Elements, fl
  <2>2. CASE i <= Len(fl) /\ j <= Len(fl)
    <3>1. i \in DOMAIN fl /\ j \in DOMAIN fl /\ fl[i] = fl[j]
      BY <1>8, <2>2
    <3> QED
      BY <1>1, <1>7, <3>1
  <2>3. CASE ~(i <= Len(fl)) /\ ~(j <= Len(fl))
    <3>1. i - Len(fl) = j - Len(fl)
      BY <1>8, <2>3
    <3> QED
      BY <1>1, <1>3, <3>1
  <2>4. CASE i <= Len(fl) /\ ~(j <= Len(fl))
    BY <1>8, <2>1, <2>4
  <2>5. CASE ~(i <= Len(fl)) /\ j <= Len(fl)
    BY <1>8, <2>1, <2>5, SMTT(30)
  <2> QED
    BY <2>2, <2>3, <2>4, <2>5
<1>11. WellFormed(FreePages(m, pages))
  BY <1>5, <1>6, <1>7, <1>9, <1>10, SMTT(30) DEF WellFormed, fl
<1> QED
  BY <1>1, <1>3, <1>5, <1>6, <1>9, <1>11, SMTT(30) DEF fl

-----------------------------------------------------------------------------
\* Scheduling.
\* The pages that reap_dead_actors() frees are the distinct stacks of the
\* slots it reaps.
LEMMA ReapedFacts ==
  ASSUME NEW st, stack_page \in [Slot -> Page \cup {NULL}], StacksOK(stack_page, mem)
  PROVE  /\ ReapedPages(st) \in Seq(Page)
         /\ Len(ReapedPages(st)) = Cardinality(Reaped(st))
         /\ \A i, j \in DOMAIN ReapedPages(st) : ReapedPages(st)[i] = ReapedPages(st)[j] => i = j
         /\ Elements(ReapedPages(st)) \subseteq {stack_page[s] : s \in Reaped(st)}
         /\ Elements(ReapedPages(st)) \subseteq mem.bitmap \ Elements(mem.free_list)
<1> DEFINE S == Reaped(st)
           n == Cardinality(S)
           pages == ReapedPages(st)
<1>1. S \in SUBSET Slot /\ \A s \in S : stack_page[s] \in Page
  BY DEF Reaped
<1>2. /\ n \in Nat
      /\ \A k \in 1 .. n : Ranked(S, k) \in S /\ Cardinality({t \in S : t <= Ranked(S, k)}) = k
  <2> HIDE DEF S
  <2> QED  BY <1>1, RankedFacts
<1>3. pages = [k \in 1 .. n |-> stack_page[Ranked(S, k)]]
  BY DEF ReapedPages
<1>4. \A k \in 1 .. n : pages[k] = stack_page[Ranked(S, k)] /\ pages[k] \in Page
  <2> HIDE DEF S, n, pages
  <2> QED  BY <1>1, <1>2, <1>3, ZenonT(30)
<1>5. pages \in Seq(Page) /\ Len(pages) = n /\ DOMAIN pages = 1 .. n
  <2> HIDE DEF S, n, pages
  <2>1. pages \in [1 .. n -> Page]
    BY <1>3, <1>4
  <2> QED
    BY <1>2, <2>1
<1>6. \A i, j \in 1 .. n : pages[i] = pages[j] => i = j
  <2> SUFFICES ASSUME NEW i \in 1 .. n, NEW j \in 1 .. n, pages[i] = pages[j]
               PROVE  i = j
    OBVIOUS
  <2>1. stack_page[Ranked(S, i)] = stack_page[Ranked(S, j)] /\ stack_page[Ranked(S, i)] # NULL
    <3> HIDE DEF S, n, pages
    <3> QED  BY <1>4, PageType
  <2>2. Ranked(S, i) \in Slot /\ Ranked(S, j) \in Slot
    <3> HIDE DEF S, n, pages
    <3> QED  BY <1>1, <1>2, ZenonT(30)
  <2>3. Ranked(S, i) = Ranked(S, j)
    <3> HIDE DEF S, n, pages
    <3> QED  BY <2>1, <2>2 DEF StacksOK
  <2> HIDE DEF S, n, pages
  <2> QED
    BY <1>2, <2>3, ZenonT(30)
<1>7. Elements(pages) \subseteq {stack_page[s] : s \in S}
  <2> HIDE DEF S, n, pages
  <2> QED  BY <1>2, <1>4, <1>5, ZenonT(30) DEF Elements
<1>8. {stack_page[s] : s \in S} \subseteq mem.bitmap \ Elements(mem.free_list)
  BY DEF StacksOK, Reaped
<1> QED
  BY <1>5, <1>6, <1>7, <1>8

\* reap_dead_actors() keeps the stacks of the others private and moves the
\* pages it takes to the free list.
LEMMA ReapKeeps ==
  ASSUME NEW st, stack_page \in [Slot -> Page \cup {NULL}], mem \in Allocators,
         StacksOK(stack_page, mem), FreeListBound, reap_dead_actors(st)
  PROVE  /\ stack_page' \in [Slot -> Page \cup {NULL}] /\ mem' \in Allocators
         /\ StacksOK(stack_page', mem') /\ FreeListBound'
         /\ \A s \in Slot : st[s] # "DEAD" => stack_page'[s] = stack_page[s]
<1> DEFINE S == Reaped(st)
           pages == ReapedPages(st)
<1>1. /\ mem' = FreePages(mem, pages)
      /\ stack_page' = [s \in Slot |-> IF s \in S THEN NULL ELSE stack_page[s]]
  BY DEF reap_dead_actors
<1>2. /\ pages \in Seq(Page) /\ Len(pages) = Cardinality(S)
      /\ \A i, j \in DOMAIN pages : pages[i] = pages[j] => i = j
      /\ Elements(pages) \subseteq {stack_page[s] : s \in S}
      /\ Elements(pages) \subseteq mem.bitmap \ Elements(mem.free_list)
  BY ReapedFacts
<1>3. S \in SUBSET Owners /\ Owners \in SUBSET Slot
  BY DEF Reaped, Owners
<1>4. \A s \in Slot : st[s] # "DEAD" => s \notin S
  BY DEF Reaped
<1> HIDE DEF S, pages
<1>5. /\ mem' \in Allocators /\ WellFormed(mem')
      /\ mem'.bitmap = mem.bitmap
      /\ Elements(mem'.free_list) \subseteq Elements(mem.free_list) \cup Elements(pages)
      /\ Len(mem'.free_list) <= Len(mem.free_list) + Len(pages)
  BY <1>1, <1>2, FreePagesFacts, SMTT(30) DEF StacksOK
<1>6. /\ \A s \in Slot : stack_page'[s] # NULL => stack_page'[s] = stack_page[s] /\ s \notin S
      /\ stack_page' \in [Slot -> Page \cup {NULL}]
  BY <1>1, SMTT(30)
<1>7. StacksOK(stack_page', mem')
  <2> SUFFICES ASSUME NEW s \in Slot, stack_page'[s] # NULL
               PROVE  /\ hal_address_space_create(stack_page'[s])
                      /\ stack_page'[s] \in mem'.bitmap \ Elements(mem'.free_list)
                      /\ \A t \in Slot : stack_page'[t] = stack_page'[s] => t = s
    BY <1>5, SMTT(30) DEF StacksOK
  <2>1. /\ stack_page'[s] = stack_page[s] /\ s \notin S
        /\ hal_address_space_create(stack_page[s])
        /\ stack_page[s] \in mem.bitmap \ Elements(mem.free_list)
        /\ \A t \in Slot : stack_page[t] = stack_page[s] => t = s
    BY <1>6 DEF StacksOK
  <2>2. stack_page[s] \notin Elements(pages)
    BY <1>2, <1>3, <2>1, SMTT(30)
  <2>3. \A t \in Slot : stack_page'[t] = stack_page'[s] => t = s
    BY <1>6, <2>1, SMTT(30)
  <2> QED
    BY <1>5, <2>1, <2>2, <2>3, SMTT(30)
<1>8. FreeListBound'
  <2>1. Owners' = Owners \ S
    BY <1>1, <1>3, SMTT(30) DEF Owners
  <2>2. /\ Cardinality(Owners) \in Nat /\ Cardinality(S) \in Nat
        /\ Cardinality(Owners') = Cardinality(Owners) - Cardinality(S)
    BY <1>3, <2>1, CardinalityDiff, ZenonT(30)
  <2>3. Len(mem.free_list) \in Nat /\ Len(mem'.free_list) \in Nat
    BY <1>5, SeqLen DEF Allocators
  <2>4. MAX_ACTORS \in Nat
    BY ActorsAssumption
  <2> QED
    BY <1>2, <1>5, <2>2, <2>3, <2>4, SMTT(30) DEF FreeListBound
<1> QED
  BY <1>1, <1>4, <1>5, <1>6, <1>7, <1>8

\* The round robin finds a runnable actor if there is one.
LEMMA NextRunnableFacts ==
  ASSUME NEW st, Runnable(st) # {}, current_actor \in Slot \cup {NoActor}
  PROVE  NextRunnable(st) \in Runnable(st)
<1> DEFINE D == {Distance(s) : s \in Runnable(st)}
<1>1. \A s \in Slot : Distance(s) \in Nat
  <2> TAKE s \in Slot
  <2> DEFINE start == IF current_actor = NoActor THEN 0 ELSE current_actor
  <2>1. MAX_ACTORS \in Nat \ {0} /\ s \in Nat /\ start \in Nat
    BY ActorsAssumption, SlotFacts
  <2>2. s - start + MAX_ACTORS - 1 \in Int
    BY <2>1
  <2>3. (s - start + MAX_ACTORS - 1) % MAX_ACTORS \in Nat
    <3> HIDE DEF start
    <3> QED  BY <2>1, <2>2
  <2> QED
    BY <2>3 DEF Distance
<1>2. D \in SUBSET Nat /\ D # {}
  BY <1>1 DEF Runnable
<1>3. Minimum(D) \in D /\ \A d \in D : Minimum(D) <= d
  <2> HIDE DEF D
  <2> QED  BY <1>2, MinimumExists
<1>4. \E s \in Runnable(st) : \A t \in Runnable(st) : Distance(s) <= Distance(t)
  BY <1>3, ZenonT(30)
<1> QED
  BY <1>4 DEF NextRunnable

\* schedule_next() of actors none of which is running keeps every invariant
\* of the stacks and the free list, and makes one actor run.
LEMMA ScheduleKeeps ==
  ASSUME NEW st \in [Slot -> States \ {"RUNNING"}],
         TypeOK, PrivateStacks, FreeListExact, FreeListBound, machine = "up",
         \A s \in Slot : st[s] # "DEAD" => stack_page[s] # NULL,
         schedule_next(st)
  PROVE  /\ state' \in [Slot -> States]
         /\ stack_page' \in [Slot -> Page \cup {NULL}] /\ mem' \in Allocators
         /\ current_actor' \in Slot \cup {NoActor}
         /\ machine' \in {"up", "idle"}
         /\ OneRunning' /\ PrivateStacks' /\ FreeListExact' /\ FreeListBound'
         /\ \A s \in Slot : state'[s] = "BLOCKED" => st[s] = "BLOCKED"
         /\ \A s \in Slot : state'[s] = "DEAD" <=> st[s] = "DEAD"
         /\ current_actor' = NoActor => current_actor = NoActor
<1>1. /\ stack_page \in [Slot -> Page \cup {NULL}] /\ mem \in Allocators
      /\ current_actor \in Slot \cup {NoActor}
  BY DEF TypeOK, Allocators
<1>2. StacksOK(stack_page, mem)
  BY DEF PrivateStacks, FreeListExact, StacksOK, WellFormed
<1>3. reap_dead_actors(st)
  BY DEF schedule_next
<1>4. /\ stack_page' \in [Slot -> Page \cup {NULL}] /\ mem' \in Allocators
      /\ StacksOK(stack_page', mem') /\ FreeListBound'
      /\ \A s \in Slot : st[s] # "DEAD" => stack_page'[s] = stack_page[s]
  BY <1>1, <1>2, <1>3, ReapKeeps, SMTT(30)
<1>5. FreeListExact'
  BY <1>4 DEF FreeListExact, StacksOK, WellFormed
<1>6. /\ state' \in [Slot -> States]
      /\ current_actor' \in Slot \cup {NoActor}
      /\ machine' \in {"up", "idle"}
      /\ OneRunning'
      /\ \A s \in Slot : state'[s] = "BLOCKED" => st[s] = "BLOCKED"
      /\ \A s \in Slot : state'[s] = "DEAD" <=> st[s] = "DEAD"
      /\ current_actor' = NoActor => current_actor = NoActor
  <2>1. CASE Runnable(st) = {}
    <3>1. machine' = "idle" /\ state' = st /\ current_actor' = current_actor
      BY <2>1 DEF schedule_next
    <3> QED
      BY <1>1, <3>1 DEF OneRunning
  <2>2. CASE Runnable(st) # {}
    <3> DEFINE n == NextRunnable(st)
    <3>1. n \in Slot /\ st[n] = "READY"
      BY <1>1, <2>2, NextRunnableFacts DEF Runnable
    <3>2. /\ current_actor' = n /\ machine' = machine
          /\ state' = [st EXCEPT ![n] = "RUNNING"]
      BY <2>2, SMTT(30) DEF schedule_next
    <3> HIDE DEF n
    <3> QED
      BY <3>1, <3>2, SlotFacts, SMTT(30) DEF OneRunning, States
  <2> QED
    BY <2>1, <2>2, SMTT(30)
<1>7. PrivateStacks'
  BY <1>4, <1>6 DEF PrivateStacks, StacksOK
<1> QED
  BY <1>4, <1>5, <1>6, <1>7

-----------------------------------------------------------------------------
\* Spawning.
\* The number of slots that own a page, before and after one of them gets one.
LEMMA OwnersFacts ==
  /\ Owners \in SUBSET Slot
  /\ Cardinality(Owners) \in Nat /\ Cardinality(Owners) <= MAX_ACTORS
<1>1. Owners \in SUBSET Slot
  BY DEF Owners
<1> QED
  BY <1>1, SlotFacts, FS_Subset, FS_CardinalityType, ZenonT(30)

\* A spawn takes the first dead slot.
LEMMA FirstDeadFacts ==
  ASSUME DeadSlots # {}
  PROVE  FirstDead \in Slot /\ state[FirstDead] = "DEAD"
<1>1. DeadSlots \in SUBSET Nat
  BY SlotFacts, ZenonT(30) DEF DeadSlots
<1>2. FirstDead \in DeadSlots
  BY <1>1, MinimumExists DEF FirstDead
<1> QED
  BY <1>2 DEF DeadSlots

\* The page of an attempt to spawn is nobody's stack.
LEMMA SpawnPage ==
  ASSUME mem \in Allocators, stack_page \in [Slot -> Page \cup {NULL}],
         StacksOK(stack_page, mem)
  PROVE  LET r == alloc_page(mem)
         IN  /\ r.mem \in Allocators /\ WellFormed(r.mem)
             /\ r.page \in Page \cup {NULL}
             /\ StacksOK(stack_page, r.mem)
             /\ r.page # NULL =>
                  /\ r.page \in r.mem.bitmap \ Elements(r.mem.free_list)
                  /\ \A s \in Slot : stack_page[s] # r.page
             /\ Len(r.mem.free_list) \in Nat /\ Len(mem.free_list) \in Nat
             /\ Len(r.mem.free_list) = Len(mem.free_list) - 1 \/ Len(r.mem.free_list) = 0
             /\ Len(r.mem.free_list) <= Len(mem.free_list)
<1> DEFINE r == alloc_page(mem)
<1>1. /\ r.mem \in Allocators /\ WellFormed(r.mem)
      /\ r.page \in Page \cup {NULL}
      /\ mem.bitmap \subseteq r.mem.bitmap
      /\ Elements(r.mem.free_list) \subseteq Elements(mem.free_list)
      /\ r.page # NULL =>
           /\ r.page \in r.mem.bitmap
           /\ r.page \notin Elements(r.mem.free_list)
           /\ r.page \in Elements(mem.free_list) \/ r.page \notin mem.bitmap
      /\ Len(r.mem.free_list) = Len(mem.free_list) - 1 \/ Len(r.mem.free_list) = 0
      /\ Len(r.mem.free_list) <= Len(mem.free_list)
  BY AllocFacts, ZenonT(30) DEF StacksOK
<1> HIDE DEF r
<1>2. StacksOK(stack_page, r.mem)
  BY <1>1 DEF StacksOK
<1>3. r.page # NULL => \A s \in Slot : stack_page[s] # r.page
  BY <1>1 DEF StacksOK
<1>4. Len(r.mem.free_list) \in Nat /\ Len(mem.free_list) \in Nat
  BY <1>1, SeqLen DEF Allocators
<1> QED
  BY <1>1, <1>2, <1>3, <1>4 DEF r

\* An actor_spawn() that fails leaves the stacks private, and at most the one
\* page it could not map on the free list.
LEMMA SpawnFailsKeeps ==
  ASSUME mem \in Allocators, stack_page \in [Slot -> Page \cup {NULL}],
         StacksOK(stack_page, mem), FreeListBound, ~CanSpawn
  PROVE  /\ SpawnMem \in Allocators
         /\ StacksOK(stack_page, SpawnMem)
         /\ Len(SpawnMem.free_list) + Cardinality(Owners) <= MAX_ACTORS + 1
<1>1. CASE DeadSlots = {}
  BY <1>1 DEF SpawnMem, FreeListBound
<1>2. CASE DeadSlots # {}
  <2> DEFINE r == alloc_page(mem)
             n == free_page(r.mem, r.page)
  <2>1. SpawnMem = n
    BY <1>2, SMTT(30) DEF SpawnMem
  <2>2. /\ r.mem \in Allocators /\ WellFormed(r.mem)
        /\ r.page \in Page \cup {NULL}
        /\ StacksOK(stack_page, r.mem)
        /\ r.page # NULL =>
             /\ r.page \in r.mem.bitmap \ Elements(r.mem.free_list)
             /\ \A s \in Slot : stack_page[s] # r.page
        /\ Len(r.mem.free_list) \in Nat /\ Len(mem.free_list) \in Nat
        /\ Len(r.mem.free_list) = Len(mem.free_list) - 1 \/ Len(r.mem.free_list) = 0
    BY SpawnPage
  <2>3. r.page \in Page => r.page \in r.mem.bitmap \ Elements(r.mem.free_list)
    BY <2>2, PageType, SMTT(30)
  <2> HIDE DEF r
  <2>4. /\ n \in Allocators /\ WellFormed(n)
        /\ n.bitmap = r.mem.bitmap
        /\ Elements(n.free_list) \subseteq Elements(r.mem.free_list) \cup ({r.page} \ {NULL})
        /\ Len(n.free_list) <= Len(r.mem.free_list) + 1
    BY <2>2, <2>3, FreeFacts, ZenonT(30)
  <2> HIDE DEF n
  <2>5. StacksOK(stack_page, n)
    <3>1. \A s \in Slot : stack_page[s] # NULL => stack_page[s] \notin Elements(n.free_list)
      BY <2>2, <2>4 DEF StacksOK
    <3> QED
      BY <2>2, <2>4, <3>1 DEF StacksOK
  <2>6. Len(n.free_list) \in Nat
    BY <2>4, SeqLen, SMTT(30) DEF Allocators
  <2>7. Len(n.free_list) + Cardinality(Owners) <= MAX_ACTORS + 1
    BY <2>2, <2>4, <2>6, OwnersFacts, ActorsAssumption, SMTT(30), ZenonT(30) DEF FreeListBound
  <2> QED
    BY <2>1, <2>4, <2>5, <2>7, SMTT(30)
<1> QED
  BY <1>1, <1>2

\* One that succeeds gives its slot a stack that is private.
LEMMA SpawnKeeps ==
  ASSUME mem \in Allocators, stack_page \in [Slot -> Page \cup {NULL}],
         StacksOK(stack_page, mem), FreeListBound, CanSpawn,
         NEW i \in Slot,
         stack_page' = [stack_page EXCEPT ![i] = alloc_page(mem).page],
         mem' = SpawnMem
  PROVE  /\ mem' \in Allocators /\ stack_page' \in [Slot -> Page \cup {NULL}]
         /\ StacksOK(stack_page', mem') /\ FreeListBound'
         /\ stack_page'[i] # NULL
         /\ \A s \in Slot : s # i => stack_page'[s] = stack_page[s]
<1> DEFINE r == alloc_page(mem)
<1>1. mem' = r.mem /\ r.page # NULL /\ hal_address_space_create(r.page)
  BY SMTT(30) DEF SpawnMem, CanSpawn
<1>2. /\ r.mem \in Allocators /\ WellFormed(r.mem)
      /\ r.page \in Page \cup {NULL}
      /\ StacksOK(stack_page, r.mem)
      /\ r.page # NULL =>
           /\ r.page \in r.mem.bitmap \ Elements(r.mem.free_list)
           /\ \A s \in Slot : stack_page[s] # r.page
      /\ Len(r.mem.free_list) \in Nat /\ Len(mem.free_list) \in Nat
      /\ Len(r.mem.free_list) = Len(mem.free_list) - 1 \/ Len(r.mem.free_list) = 0
  BY SpawnPage
<1>3. stack_page' = [stack_page EXCEPT ![i] = r.page]
  BY SMTT(30)
<1> HIDE DEF r
<1>4. /\ stack_page' \in [Slot -> Page \cup {NULL}]
      /\ stack_page'[i] = r.page
      /\ \A s \in Slot : s # i => stack_page'[s] = stack_page[s]
  BY <1>2, <1>3, SMTT(30)
<1>5. StacksOK(stack_page', mem')
  <2> SUFFICES ASSUME NEW s \in Slot, stack_page'[s] # NULL
               PROVE  /\ hal_address_space_create(stack_page'[s])
                      /\ stack_page'[s] \in mem'.bitmap \ Elements(mem'.free_list)
                      /\ \A t \in Slot : stack_page'[t] = stack_page'[s] => t = s
    BY <1>1, <1>2, SMTT(30) DEF StacksOK
  <2>1. CASE s = i
    BY <1>1, <1>2, <1>4, <2>1, SMTT(30), ZenonT(30)
  <2>2. CASE s # i
    BY <1>1, <1>2, <1>4, <2>2, SMTT(30), ZenonT(30) DEF StacksOK
  <2> QED
    BY <2>1, <2>2, SMTT(30), ZenonT(30)
<1>6. FreeListBound'
  <2>1. Owners' \in SUBSET (Owners \cup {i})
    BY <1>4, SMTT(30) DEF Owners
  <2>2. IsFiniteSet(Owners) /\ IsFiniteSet(Owners \cup {i})
    BY OwnersFacts, SlotFacts, FS_Subset, FS_AddElement, SMTT(30)
  <2>3. /\ Cardinality(Owners \cup {i}) <= Cardinality(Owners) + 1
        /\ Cardinality(Owners \cup {i}) \in Nat
    BY <2>2, OwnersFacts, FS_AddElement, FS_CardinalityType, SMTT(30)
  <2>4. /\ Cardinality(Owners') <= Cardinality(Owners \cup {i})
        /\ Cardinality(Owners') \in Nat
    BY <2>1, <2>2, FS_Subset, FS_CardinalityType, SMTT(30)
  <2>5. Owners' \in SUBSET Slot
    BY DEF Owners
  <2>6. Cardinality(Owners') <= MAX_ACTORS
    BY <2>5, SlotFacts, FS_Subset, ZenonT(30)
  <2>7. Len(r.mem.free_list) + Cardinality(Owners') <= MAX_ACTORS + 1
    <3>1. /\ Len(mem.free_list) + Cardinality(Owners) <= MAX_ACTORS + 1
          /\ MAX_ACTORS \in Nat /\ Cardinality(Owners) \in Nat
      BY OwnersFacts, ActorsAssumption DEF FreeListBound
    <3>2. Cardinality(Owners') <= Cardinality(Owners) + 1
      BY <2>3, <2>4, <3>1, SMTT(30), ZenonT(30)
    <3>3. CASE Len(r.mem.free_list) = Len(mem.free_list) - 1
      BY <1>2, <2>4, <3>1, <3>2, <3>3, SMTT(30)
    <3>4. CASE Len(r.mem.free_list) = 0
      BY <2>4, <2>6, <3>1, <3>4, SMTT(30)
    <3> QED
      BY <1>2, <3>3, <3>4
  <2> QED
    BY <1>1, <2>7, SMTT(30) DEF FreeListBound
<1> QED
  BY <1>1, <1>2, <1>4, <1>5, <1>6

-----------------------------------------------------------------------------
\* Capability tables keep their type.
Tables == [held : SUBSET Cap, count : 0 .. MAX_CAPS_PER_ACTOR]

\* actor_add_cap() keeps a table a table, within its capacity.
LEMMA AddCapType ==
  ASSUME NEW t \in Tables, NEW op \in Op, NEW target \in Slot
  PROVE  actor_add_cap(t, op, target) \in Tables
<1>1. [op |-> op, target |-> target] \in Cap
  BY DEF Cap
<1>2. MAX_CAPS_PER_ACTOR \in Nat
  BY ActorsAssumption, SMTT(30)
<1> QED
  BY <1>1, <1>2 DEF actor_add_cap, Tables

\* The empty table is one.
LEMMA NoCapsType == NoCaps \in Tables
BY ActorsAssumption DEF NoCaps, Tables

-----------------------------------------------------------------------------
\* The inductive invariant.
IInv ==
  /\ TypeOK
  /\ OneRunning
  /\ NoLostWakeup
  /\ PrivateStacks
  /\ FreeListExact
  /\ FreeListBound
  /\ SpawnQuota
  /\ BootCounts

\* It holds when the kernel starts: no slot has a page, and the free list is
\* empty.
LEMMA InitInv == Init => IInv
<1> SUFFICES ASSUME Init PROVE IInv
  BY SMTT(30)
<1>1. /\ mem \in Allocators /\ Elements(mem.free_list) = {} /\ Len(mem.free_list) = 0
      /\ mem.free_list = << >>
  <2>1. BootMap \in MemoryMapType
    BY ActorsAssumption DEF MemoryMapType
  <2>2. MemTop(BootMap) \in Nat
    BY <2>1, MemTopFacts
  <2>3. Page \ FreeAtBoot(BootMap) \in SUBSET Page
    OBVIOUS
  <2>4. << >> \in Seq(Page) /\ MEM_BASE \in Nat
    BY Constants, SMTT(30)
  <2> QED
    BY <2>2, <2>3, <2>4, SMTT(30) DEF Init, memory_init, Allocators, Elements
<1>2. TypeOK
  <2>1. 0 \in 0 .. BOOT_ACTORS /\ MAX_SPAWNS_PER_ACTOR \in Nat
    BY ActorsAssumption
  <2>2. NoCaps \in [held : SUBSET Cap, count : 0 .. MAX_CAPS_PER_ACTOR]
    BY NoCapsType, SMTT(30) DEF Tables
  <2> QED
    BY <1>1, <2>1, <2>2, SMTT(30) DEF Init, TypeOK, Allocators
<1>3. OneRunning /\ NoLostWakeup
  BY SlotFacts, SMTT(30) DEF Init, OneRunning, NoLostWakeup
<1>4. PrivateStacks /\ FreeListExact
  BY <1>1, SMTT(30) DEF Init, PrivateStacks, FreeListExact
<1>5. FreeListBound
  <2>1. Owners = {}
    BY SMTT(30) DEF Init, Owners
  <2> QED
    BY <1>1, <2>1, FS_EmptySet, ActorsAssumption, SMTT(30) DEF FreeListBound
<1>6. SpawnQuota /\ BootCounts
  BY ActorsAssumption, SMTT(30), ZenonT(30) DEF Init, SpawnQuota, BootCounts
<1> QED
  BY <1>2, <1>3, <1>4, <1>5, <1>6, SMTT(30) DEF IInv

-----------------------------------------------------------------------------
\* Every step keeps the inductive invariant.
\* The page invariants, in the form the lemmas on pages take.
LEMMA PagesInv ==
  ASSUME IInv
  PROVE  /\ mem \in Allocators /\ stack_page \in [Slot -> Page \cup {NULL}]
         /\ StacksOK(stack_page, mem)
BY SMTT(30), ZenonT(30) DEF IInv, TypeOK, Allocators, PrivateStacks, FreeListExact, StacksOK, WellFormed

\* ... and back.
LEMMA PagesBack ==
  ASSUME NEW pages, NEW m, StacksOK(pages, m), stack_page' = pages, mem' = m,
         \A s \in Slot : state'[s] # "DEAD" => pages[s] # NULL
  PROVE  PrivateStacks' /\ FreeListExact'
<1>1. PrivateStacks'
  BY SMTT(30) DEF PrivateStacks, StacksOK
<1>2. FreeListExact'
  BY SMTT(30) DEF FreeListExact, StacksOK, WellFormed
<1> QED
  BY <1>1, <1>2, SMTT(30), ZenonT(30)

\* The current actor gives the processor away in state x.
LEMMA SwitchKeeps ==
  ASSUME IInv, Running, NEW x \in {"READY", "DEAD", "BLOCKED"},
         schedule_next([state EXCEPT ![current_actor] = x])
  PROVE  /\ current_actor \in Slot
         /\ state' \in [Slot -> States]
         /\ stack_page' \in [Slot -> Page \cup {NULL}] /\ mem' \in Allocators
         /\ current_actor' \in Slot
         /\ machine' \in {"up", "idle", "panic"}
         /\ OneRunning' /\ PrivateStacks' /\ FreeListExact' /\ FreeListBound'
         /\ \A s \in Slot : state'[s] = "BLOCKED" =>
              IF s = current_actor THEN x = "BLOCKED" ELSE state[s] = "BLOCKED"
         /\ \A s \in Slot : state[s] = "DEAD" => state'[s] = "DEAD"
<1> DEFINE st == [state EXCEPT ![current_actor] = x]
<1>1. /\ current_actor \in Slot /\ machine = "up"
      /\ state \in [Slot -> States]
  BY DEF IInv, TypeOK, Running, States
<1>2. st \in [Slot -> States \ {"RUNNING"}]
  BY <1>1 DEF IInv, OneRunning, States
<1>3. state[current_actor] = "RUNNING"
  BY <1>1, SMTT(30) DEF IInv, OneRunning
<1>4. \A s \in Slot : st[s] # "DEAD" => stack_page[s] # NULL
  BY <1>1, <1>3, SMTT(30) DEF IInv, PrivateStacks
<1>5. \A s \in Slot : st[s] = "BLOCKED" =>
        IF s = current_actor THEN x = "BLOCKED" ELSE state[s] = "BLOCKED"
  BY <1>1
<1>6. \A s \in Slot : state[s] = "DEAD" => st[s] = "DEAD"
  BY <1>1, <1>3
<1>7. schedule_next(st)
  BY SMTT(30)
<1> HIDE DEF st
<1>8. /\ state' \in [Slot -> States]
      /\ stack_page' \in [Slot -> Page \cup {NULL}] /\ mem' \in Allocators
      /\ current_actor' \in Slot \cup {NoActor}
      /\ machine' \in {"up", "idle"}
      /\ OneRunning' /\ PrivateStacks' /\ FreeListExact' /\ FreeListBound'
      /\ \A s \in Slot : state'[s] = "BLOCKED" => st[s] = "BLOCKED"
      /\ \A s \in Slot : state'[s] = "DEAD" <=> st[s] = "DEAD"
      /\ current_actor' = NoActor => current_actor = NoActor
  BY <1>1, <1>2, <1>4, <1>7, ScheduleKeeps, SMTT(30) DEF IInv
<1>9. current_actor' \in Slot
  BY <1>1, <1>8, SlotFacts, SMTT(30)
<1> QED
  BY <1>1, <1>5, <1>6, <1>8, <1>9, SMTT(30)

\* SYS_YIELD, the timer and SYS_EXIT.
LEMMA YieldInv ==
  ASSUME IInv, Running, NEW x \in {"READY", "DEAD"},
         schedule_next([state EXCEPT ![current_actor] = x]),
         UNCHANGED <<mailbox, caps, spawn_count, spawn_quota, receiving, booted>>
  PROVE  IInv'
<1>1. /\ state' \in [Slot -> States]
      /\ stack_page' \in [Slot -> Page \cup {NULL}] /\ mem' \in Allocators
      /\ current_actor' \in Slot
      /\ machine' \in {"up", "idle", "panic"}
      /\ OneRunning' /\ PrivateStacks' /\ FreeListExact' /\ FreeListBound'
      /\ \A s \in Slot : state'[s] = "BLOCKED" => state[s] = "BLOCKED"
  BY SwitchKeeps, ZenonT(30)
<1>2. TypeOK'
  BY <1>1, ZenonT(30) DEF IInv, TypeOK, States, Allocators
<1>3. NoLostWakeup'
  BY <1>1 DEF IInv, NoLostWakeup
<1>4. SpawnQuota' /\ BootCounts'
  BY <1>1, SlotFacts, ZenonT(30) DEF IInv, SpawnQuota, BootCounts
<1> QED
  BY <1>1, <1>2, <1>3, <1>4, SMTT(30) DEF IInv

\* A receive, whether it takes a message or blocks and gives the processor away.
LEMMA ReceiveInv == IInv /\ actor_receive => IInv'
<1> SUFFICES ASSUME IInv, actor_receive PROVE IInv'
  BY SMTT(30)
<1>1. /\ Running /\ current_actor \in Slot
      /\ UNCHANGED <<caps, spawn_count, spawn_quota, booted>>
  BY DEF IInv, TypeOK, Running, actor_receive
<1>2. CASE mailbox[current_actor] = << >>
  <2>1. /\ receiving' = [receiving EXCEPT ![current_actor] = TRUE]
        /\ schedule_next([state EXCEPT ![current_actor] = "BLOCKED"])
        /\ mailbox' = mailbox
    BY <1>2, SMTT(30) DEF actor_receive
  <2>2. /\ state' \in [Slot -> States]
        /\ stack_page' \in [Slot -> Page \cup {NULL}] /\ mem' \in Allocators
        /\ current_actor' \in Slot
        /\ machine' \in {"up", "idle", "panic"}
        /\ OneRunning' /\ PrivateStacks' /\ FreeListExact' /\ FreeListBound'
        /\ \A s \in Slot : state'[s] = "BLOCKED" =>
             s = current_actor \/ state[s] = "BLOCKED"
    BY <1>1, <2>1, SwitchKeeps, SMTT(30)
  <2>3. TypeOK'
    BY <1>1, <2>1, <2>2, ZenonT(30) DEF IInv, TypeOK, States, Allocators
  <2>4. NoLostWakeup'
    BY <1>1, <1>2, <2>1, <2>2, SMTT(30), ZenonT(30) DEF IInv, TypeOK, NoLostWakeup
  <2>5. SpawnQuota' /\ BootCounts'
    BY <1>1, <2>2, SlotFacts, SMTT(30) DEF IInv, SpawnQuota, BootCounts
  <2> QED
    BY <2>2, <2>3, <2>4, <2>5, SMTT(30) DEF IInv
<1>3. CASE mailbox[current_actor] # << >>
  <2>1. /\ receiving' = [receiving EXCEPT ![current_actor] = FALSE]
        /\ mailbox' = [mailbox EXCEPT ![current_actor] = Tail(@)]
        /\ UNCHANGED <<state, stack_page, current_actor, mem, machine>>
    BY <1>3, SMTT(30), ZenonT(30) DEF actor_receive
  <2>2. TypeOK'
    <3>1. Tail(mailbox[current_actor]) \in Seq(Message)
      BY <1>1, <1>3, SeqTail, SMTT(30) DEF IInv, TypeOK
    <3> QED
      BY <1>1, <2>1, <3>1, SMTT(30), ZenonT(30) DEF IInv, TypeOK
  <2>3. NoLostWakeup'
    <3>1. state[current_actor] = "RUNNING"
      BY <1>1, SMTT(30), ZenonT(30) DEF IInv, OneRunning, Running
    <3> QED
      BY <1>1, <2>1, <3>1, SMTT(30) DEF IInv, TypeOK, NoLostWakeup
  <2>4. OneRunning' /\ PrivateStacks' /\ FreeListExact' /\ FreeListBound'
    BY <2>1, SMTT(30) DEF IInv, OneRunning, PrivateStacks, FreeListExact, FreeListBound, Owners
  <2>5. SpawnQuota' /\ BootCounts'
    BY <1>1, <2>1, SMTT(30), ZenonT(30) DEF IInv, SpawnQuota, BootCounts
  <2> QED
    BY <2>2, <2>3, <2>4, <2>5, SMTT(30) DEF IInv
<1> QED
  BY <1>2, <1>3, SMTT(30)

\* A send puts its message into the mailbox and wakes the receiver in one step.
LEMMA SendInv ==
  ASSUME IInv, NEW dest \in Slot, NEW payload \in Payload, actor_send(dest, payload)
  PROVE  IInv'
<1>1. /\ current_actor \in Slot /\ machine = "up"
      /\ mailbox' = [mailbox EXCEPT ![dest] =
                       Append(@, [sender |-> current_actor, payload |-> payload])]
      /\ state' = [state EXCEPT ![dest] = IF @ = "BLOCKED" THEN "READY" ELSE @]
      /\ UNCHANGED <<stack_page, caps, spawn_count, spawn_quota, receiving,
                     current_actor, mem, booted, machine>>
  BY SMTT(30) DEF IInv, TypeOK, actor_send, InUserMode, Running
<1>2. /\ state \in [Slot -> States] /\ state' \in [Slot -> States]
      /\ \A s \in Slot : state'[s] = state[s] \/ (state[s] = "BLOCKED" /\ state'[s] = "READY")
      /\ state'[dest] # "BLOCKED"
  BY <1>1, SMTT(30), ZenonT(30) DEF IInv, TypeOK, States
<1>3. TypeOK'
  <2>1. [sender |-> current_actor, payload |-> payload] \in Message
    BY <1>1, SMTT(30), ZenonT(30) DEF Message
  <2>2. Append(mailbox[dest], [sender |-> current_actor, payload |-> payload]) \in Seq(Message)
    BY <2>1, SeqAppend, SMTT(30) DEF IInv, TypeOK
  <2> QED
    BY <1>1, <1>2, <2>2, ZenonT(30) DEF IInv, TypeOK, States
<1>4. NoLostWakeup'
  BY <1>1, <1>2, SMTT(30) DEF IInv, TypeOK, NoLostWakeup
<1>5. OneRunning'
  BY <1>1, <1>2, SMTT(30) DEF IInv, OneRunning
<1>6. PrivateStacks' /\ FreeListExact' /\ FreeListBound'
  BY <1>1, <1>2, ZenonT(30) DEF IInv, PrivateStacks, FreeListExact, FreeListBound, Owners
<1>7. SpawnQuota' /\ BootCounts'
  BY <1>1, ZenonT(30) DEF IInv, SpawnQuota, BootCounts
<1> QED
  BY <1>3, <1>4, <1>5, <1>6, <1>7, SMTT(30), ZenonT(30) DEF IInv

\* A delegation changes capability tables only.
LEMMA DelegateInv ==
  ASSUME IInv, NEW dest \in Slot, NEW op \in Delegable, NEW target \in Slot,
         actor_delegate(dest, op, target)
  PROVE  IInv'
<1>1. /\ caps' = [caps EXCEPT ![dest] = actor_add_cap(@, op, target)]
      /\ UNCHANGED <<state, stack_page, mailbox, spawn_count, spawn_quota,
                     receiving, current_actor, mem, booted, machine>>
  BY SMTT(30) DEF actor_delegate
<1>2. TypeOK'
  <2>1. caps \in [Slot -> Tables] /\ op \in Op
    BY ActorsAssumption, SMTT(30) DEF IInv, TypeOK, Tables
  <2>2. actor_add_cap(caps[dest], op, target) \in Tables
    BY <2>1, AddCapType, SMTT(30)
  <2>3. caps' \in [Slot -> Tables]
    BY <1>1, <2>1, <2>2, SMTT(30), ZenonT(30)
  <2> QED
    BY <1>1, <2>3, ZenonT(30) DEF IInv, TypeOK, Tables
<1>3. OneRunning' /\ NoLostWakeup' /\ SpawnQuota' /\ BootCounts'
  BY <1>1, SMTT(30), ZenonT(30) DEF IInv, OneRunning, NoLostWakeup, SpawnQuota, BootCounts
<1>4. PrivateStacks' /\ FreeListExact' /\ FreeListBound'
  BY <1>1, SMTT(30), ZenonT(30) DEF IInv, PrivateStacks, FreeListExact, FreeListBound, Owners
<1> QED
  BY <1>2, <1>3, <1>4, SMTT(30) DEF IInv

\* Terminating another actor leaves its stack to the next switch.
LEMMA TerminateInv ==
  ASSUME IInv, NEW target \in Slot, actor_terminate(target)
  PROVE  IInv'
<1>1. /\ target # current_actor
      /\ state' = [state EXCEPT ![target] = "DEAD"]
      /\ UNCHANGED <<stack_page, mailbox, caps, spawn_count, spawn_quota,
                     receiving, current_actor, mem, booted, machine>>
  BY SMTT(30), ZenonT(30) DEF actor_terminate, TerminateAllowed
<1>2. TypeOK' /\ OneRunning'
  BY <1>1, SMTT(30), ZenonT(30) DEF IInv, TypeOK, OneRunning
<1>3. NoLostWakeup' /\ SpawnQuota' /\ BootCounts'
  BY <1>1, SMTT(30), ZenonT(30) DEF IInv, TypeOK, NoLostWakeup, SpawnQuota, BootCounts
<1>4. PrivateStacks' /\ FreeListExact' /\ FreeListBound'
  BY <1>1, SMTT(30) DEF IInv, TypeOK, PrivateStacks, FreeListExact, FreeListBound, Owners
<1> QED
  BY <1>2, <1>3, <1>4, SMTT(30) DEF IInv

\* A machine that stops for an exception changes nothing else.
LEMMA PanicInv == IInv /\ Panic => IInv'
<1> SUFFICES ASSUME IInv, Panic PROVE IInv'
  OBVIOUS
<1>1. /\ machine = "up" /\ machine' = "panic"
      /\ UNCHANGED <<state, stack_page, mailbox, caps, spawn_count, spawn_quota,
                     receiving, current_actor, mem, booted>>
  BY SMTT(30) DEF Panic, Running
<1>2. TypeOK' /\ OneRunning' /\ NoLostWakeup'
  BY <1>1, ZenonT(30) DEF IInv, TypeOK, OneRunning, NoLostWakeup
<1>3. PrivateStacks' /\ FreeListExact' /\ FreeListBound' /\ SpawnQuota' /\ BootCounts'
  BY <1>1, ZenonT(30) DEF IInv, PrivateStacks, FreeListExact, FreeListBound, Owners, SpawnQuota, BootCounts
<1> QED
  BY <1>2, <1>3, SMTT(30) DEF IInv

\* A spawn that fails changes the allocator and nothing else.
LEMMA SpawnFailsInv ==
  ASSUME IInv, ~CanSpawn, mem' = SpawnMem, booted' \in 0 .. BOOT_ACTORS,
         UNCHANGED <<state, stack_page, mailbox, caps, spawn_count, spawn_quota,
                     receiving, current_actor, machine>>
  PROVE  IInv'
<1>1. /\ SpawnMem \in Allocators
      /\ StacksOK(stack_page, SpawnMem)
      /\ Len(SpawnMem.free_list) + Cardinality(Owners) <= MAX_ACTORS + 1
  BY PagesInv, SpawnFailsKeeps, SMTT(30) DEF IInv
<1>2. TypeOK'
  BY <1>1, ZenonT(30) DEF IInv, TypeOK, Allocators
<1>3. PrivateStacks' /\ FreeListExact'
  BY <1>1, PagesBack, ZenonT(30) DEF IInv, PrivateStacks
<1>4. FreeListBound'
  BY <1>1, SMTT(30) DEF FreeListBound, Owners
<1>5. OneRunning' /\ NoLostWakeup' /\ SpawnQuota' /\ BootCounts'
  BY SMTT(30), ZenonT(30) DEF IInv, OneRunning, NoLostWakeup, SpawnQuota, BootCounts
<1> QED
  BY <1>2, <1>3, <1>4, <1>5, SMTT(30), ZenonT(30) DEF IInv

\* actor_spawn() of a dead slot, by kernel_main() or by an actor.
LEMMA SpawnInv ==
  ASSUME IInv, CanSpawn, actor_spawn(FirstDead), UNCHANGED <<current_actor, machine>>
  PROVE  /\ state' \in [Slot -> States]
         /\ stack_page' \in [Slot -> Page \cup {NULL}] /\ mem' \in Allocators
         /\ mailbox' \in [Slot -> Seq(Message)]
         /\ spawn_quota' \in [Slot -> Nat] /\ receiving' \in [Slot -> BOOLEAN]
         /\ OneRunning' /\ NoLostWakeup'
         /\ PrivateStacks' /\ FreeListExact' /\ FreeListBound'
         /\ FirstDead \in Slot /\ state[FirstDead] = "DEAD"
         /\ FirstDead # current_actor \/ machine = "idle"
<1> DEFINE i == FirstDead
<1>1. i \in Slot /\ state[i] = "DEAD"
  BY FirstDeadFacts, SMTT(30) DEF CanSpawn
<1>2. /\ state' = [state EXCEPT ![i] = "READY"]
      /\ stack_page' = [stack_page EXCEPT ![i] = alloc_page(mem).page]
      /\ mailbox' = [mailbox EXCEPT ![i] = << >>]
      /\ spawn_quota' = [spawn_quota EXCEPT ![i] = MAX_SPAWNS_PER_ACTOR]
      /\ receiving' = [receiving EXCEPT ![i] = FALSE]
      /\ mem' = SpawnMem
  BY SMTT(30) DEF actor_spawn
<1> HIDE DEF i
<1>3. /\ mem' \in Allocators /\ stack_page' \in [Slot -> Page \cup {NULL}]
      /\ StacksOK(stack_page', mem') /\ FreeListBound'
      /\ stack_page'[i] # NULL
      /\ \A s \in Slot : s # i => stack_page'[s] = stack_page[s]
  BY <1>1, <1>2, PagesInv, SpawnKeeps, ZenonT(30) DEF IInv
<1>4. state' \in [Slot -> States] /\ \A s \in Slot : s # i => state'[s] = state[s]
  BY <1>1, <1>2 DEF IInv, TypeOK, States
<1>5. /\ mailbox' \in [Slot -> Seq(Message)]
      /\ spawn_quota' \in [Slot -> Nat] /\ receiving' \in [Slot -> BOOLEAN]
  <2>1. << >> \in Seq(Message) /\ MAX_SPAWNS_PER_ACTOR \in Nat
    BY ActorsAssumption, SMTT(30)
  <2> QED
    BY <1>1, <1>2, <2>1, SMTT(30) DEF IInv, TypeOK
<1>6. OneRunning'
  BY <1>1, <1>2, SMTT(30) DEF IInv, TypeOK, OneRunning
<1>7. NoLostWakeup'
  BY <1>1, <1>2, SMTT(30) DEF IInv, TypeOK, NoLostWakeup
<1>8. \A s \in Slot : state'[s] # "DEAD" => stack_page'[s] # NULL
  BY <1>3, <1>4, ZenonT(30) DEF IInv, PrivateStacks
<1>9. PrivateStacks' /\ FreeListExact'
  BY <1>3, <1>8, PagesBack, ZenonT(30)
<1>10. i # current_actor \/ machine = "idle"
  BY <1>1 DEF IInv, OneRunning
<1> QED
  BY <1>1, <1>3, <1>4, <1>5, <1>6, <1>7, <1>9, <1>10, SMTT(30), ZenonT(30) DEF i

\* A spawn of kernel_main(), before any actor runs.
LEMMA BootSpawnInv == IInv /\ BootSpawn => IInv'
<1> SUFFICES ASSUME IInv, BootSpawn PROVE IInv'
  OBVIOUS
<1>1. /\ current_actor = NoActor /\ booted' \in 0 .. BOOT_ACTORS
      /\ UNCHANGED <<caps, spawn_count, current_actor, machine>>
  BY ActorsAssumption, SMTT(30) DEF IInv, TypeOK, BootSpawn
<1>2. CASE ~CanSpawn
  BY <1>1, <1>2, SpawnFailsInv, SMTT(30) DEF BootSpawn
<1>3. CASE CanSpawn
  <2>1. actor_spawn(FirstDead)
    BY <1>3, SMTT(30) DEF BootSpawn
  <2>2. /\ state' \in [Slot -> States]
        /\ stack_page' \in [Slot -> Page \cup {NULL}] /\ mem' \in Allocators
        /\ mailbox' \in [Slot -> Seq(Message)]
        /\ spawn_quota' \in [Slot -> Nat] /\ receiving' \in [Slot -> BOOLEAN]
        /\ OneRunning' /\ NoLostWakeup'
        /\ PrivateStacks' /\ FreeListExact' /\ FreeListBound'
    BY <1>1, <1>3, <2>1, SpawnInv, SMTT(30)
  <2>3. TypeOK'
    BY <1>1, <2>2, ZenonT(30) DEF IInv, TypeOK, States, Allocators
  <2>4. \A s \in Slot : spawn_count'[s] = 0
    BY <1>1, ZenonT(30) DEF IInv, BootCounts
  <2>5. \A s \in Slot : spawn_quota'[s] \in Nat
    BY <2>2, ZenonT(30)
  <2>6. SpawnQuota'
    BY <2>4, <2>5 DEF SpawnQuota
  <2>7. BootCounts'
    BY <2>4 DEF BootCounts
  <2> QED
    BY <2>2, <2>3, <2>6, <2>7, SMTT(30) DEF IInv
<1> QED
  BY <1>2, <1>3, SMTT(30)

\* The grants and quotas of kernel_main(), and the first switch.
LEMMA BootStartInv == IInv /\ BootStart => IInv'
<1> SUFFICES ASSUME IInv, BootStart PROVE IInv'
  OBVIOUS
<1>1. /\ current_actor = NoActor /\ machine = "up"
      /\ caps' = [s \in Slot |-> [held |-> BootCaps[s], count |-> Cardinality(BootCaps[s])]]
      /\ spawn_quota' = BootQuota
      /\ schedule_next(state)
      /\ UNCHANGED <<mailbox, spawn_count, receiving, booted>>
  BY SMTT(30) DEF BootStart
<1>2. state \in [Slot -> States \ {"RUNNING"}]
  BY <1>1, SlotFacts, SMTT(30) DEF IInv, TypeOK, OneRunning, States
<1>3. /\ state' \in [Slot -> States]
      /\ stack_page' \in [Slot -> Page \cup {NULL}] /\ mem' \in Allocators
      /\ current_actor' \in Slot \cup {NoActor}
      /\ machine' \in {"up", "idle"}
      /\ OneRunning' /\ PrivateStacks' /\ FreeListExact' /\ FreeListBound'
      /\ \A s \in Slot : state'[s] = "BLOCKED" => state[s] = "BLOCKED"
  BY <1>1, <1>2, ScheduleKeeps, ZenonT(30) DEF IInv, PrivateStacks
<1>4. caps' \in [Slot -> Tables]
  <2> SUFFICES ASSUME NEW s \in Slot
               PROVE  [held |-> BootCaps[s], count |-> Cardinality(BootCaps[s])] \in Tables
    BY <1>1, SMTT(30)
  <2>1. BootCaps[s] \in SUBSET Cap /\ IsFiniteSet(BootCaps[s])
        /\ Cardinality(BootCaps[s]) <= MAX_CAPS_PER_ACTOR /\ MAX_CAPS_PER_ACTOR \in Nat
    BY ActorsAssumption, SMTT(30)
  <2>2. Cardinality(BootCaps[s]) \in Nat
    BY <2>1, FS_CardinalityType, SMTT(30)
  <2>3. Cardinality(BootCaps[s]) \in 0 .. MAX_CAPS_PER_ACTOR
    BY <2>1, <2>2, SMTT(30)
  <2> QED
    BY <2>1, <2>3, SMTT(30) DEF Tables
<1>5. TypeOK'
  <2>1. spawn_quota' \in [Slot -> Nat]
    BY <1>1, ActorsAssumption, ZenonT(30)
  <2> QED
    BY <1>1, <1>3, <1>4, <2>1, ZenonT(30) DEF IInv, TypeOK, States, Allocators, Tables
<1>6. NoLostWakeup'
  BY <1>1, <1>3, ZenonT(30) DEF IInv, NoLostWakeup
<1>7. SpawnQuota' /\ BootCounts'
  <2>1. \A s \in Slot : spawn_count'[s] = 0 /\ spawn_quota'[s] \in Nat
    BY <1>1, ActorsAssumption, ZenonT(30) DEF IInv, BootCounts
  <2> QED
    BY <2>1, SMTT(30) DEF SpawnQuota, BootCounts
<1> QED
  BY <1>3, <1>5, <1>6, <1>7, SMTT(30), ZenonT(30) DEF IInv

\* A spawn by an actor: a fresh stack, a cleared table and one more of the quota.
LEMMA SpawnChildInv == IInv /\ actor_spawn_child => IInv'
<1> SUFFICES ASSUME IInv, actor_spawn_child PROVE IInv'
  OBVIOUS
<1> DEFINE c == current_actor
           i == FirstDead
<1>1. /\ c \in Slot /\ machine = "up" /\ MaySpawn /\ CanSpawn
      /\ actor_spawn(i)
      /\ spawn_count' = [spawn_count EXCEPT ![i] = 0, ![c] = @ + 1]
      /\ caps' = [caps EXCEPT
           ![i] = actor_add_cap(NoCaps, "SEND", c),
           ![c] = actor_add_cap(actor_add_cap(@, "SEND", i), "TERMINATE", i)]
      /\ UNCHANGED <<current_actor, booted, machine>>
  BY SMTT(30), ZenonT(30) DEF IInv, TypeOK, actor_spawn_child, InUserMode, Running
<1>2. /\ state' \in [Slot -> States]
      /\ stack_page' \in [Slot -> Page \cup {NULL}] /\ mem' \in Allocators
      /\ mailbox' \in [Slot -> Seq(Message)]
      /\ spawn_quota' \in [Slot -> Nat] /\ receiving' \in [Slot -> BOOLEAN]
      /\ OneRunning' /\ NoLostWakeup'
      /\ PrivateStacks' /\ FreeListExact' /\ FreeListBound'
      /\ i \in Slot /\ i # c
  BY <1>1, SpawnInv, SMTT(30)
<1>3. spawn_quota' = [spawn_quota EXCEPT ![i] = MAX_SPAWNS_PER_ACTOR]
  BY <1>1, SMTT(30) DEF actor_spawn
<1>4. spawn_count[c] < spawn_quota[c]
  BY <1>1, SMTT(30) DEF MaySpawn
<1> HIDE DEF i, c
<1>5. caps' \in [Slot -> Tables]
  <2>1. caps \in [Slot -> Tables] /\ "SEND" \in Op /\ "TERMINATE" \in Op
    BY ActorsAssumption DEF IInv, TypeOK, Tables
  <2>2. actor_add_cap(NoCaps, "SEND", c) \in Tables
    BY <1>1, <2>1, NoCapsType, AddCapType
  <2>3. actor_add_cap(caps[c], "SEND", i) \in Tables
    BY <1>1, <1>2, <2>1, AddCapType, SMTT(30)
  <2>4. actor_add_cap(actor_add_cap(caps[c], "SEND", i), "TERMINATE", i) \in Tables
    BY <1>2, <2>1, <2>3, AddCapType, SMTT(30)
  <2> QED
    BY <1>1, <1>2, <2>1, <2>2, <2>4, ZenonT(30)
<1>6. spawn_count' \in [Slot -> Nat] /\ SpawnQuota'
  <2>1. /\ spawn_count \in [Slot -> Nat] /\ spawn_quota \in [Slot -> Nat]
        /\ MAX_SPAWNS_PER_ACTOR \in Nat
        /\ \A s \in Slot : spawn_count[s] <= spawn_quota[s]
    BY ActorsAssumption, SMTT(30), ZenonT(30) DEF IInv, TypeOK, SpawnQuota
  <2>2. spawn_count' \in [Slot -> Nat]
    BY <1>1, <1>2, <2>1, SMTT(30), ZenonT(30)
  <2>3. /\ spawn_count'[i] = 0 /\ spawn_quota'[i] \in Nat
        /\ spawn_count'[c] = spawn_count[c] + 1 /\ spawn_quota'[c] = spawn_quota[c]
        /\ \A s \in Slot \ {i, c} :
             spawn_count'[s] = spawn_count[s] /\ spawn_quota'[s] = spawn_quota[s]
    BY <1>1, <1>2, <1>3, <2>1, SMTT(30), ZenonT(30)
  <2>4. spawn_count'[i] <= spawn_quota'[i] /\ spawn_count'[c] <= spawn_quota'[c]
    <3>1. spawn_count[c] \in Nat /\ spawn_quota[c] \in Nat
      BY <1>1, <2>1, SMTT(30)
    <3> QED
      BY <1>4, <2>3, <3>1, SMTT(30)
  <2>5. \A s \in Slot : spawn_count'[s] <= spawn_quota'[s]
    BY <2>1, <2>3, <2>4, SMTT(30)
  <2> QED
    BY <2>2, <2>5, SMTT(30), ZenonT(30) DEF SpawnQuota
<1>7. TypeOK'
  BY <1>1, <1>2, <1>5, <1>6, ZenonT(30) DEF IInv, TypeOK, States, Allocators, Tables
<1>8. BootCounts'
  <2>1. c \in Slot /\ current_actor' = c
    BY <1>1, SMTT(30) DEF c
  <2> QED
    BY <2>1, SlotFacts, SMTT(30) DEF BootCounts
<1> QED
  BY <1>2, <1>6, <1>7, <1>8, SMTT(30), ZenonT(30) DEF IInv

\* Every step of the kernel preserves the invariant.
LEMMA NextInv == IInv /\ [Next]_vars => IInv'
<1> SUFFICES ASSUME IInv, [Next]_vars PROVE IInv'
  OBVIOUS
<1>1. CASE BootSpawn
  BY <1>1, BootSpawnInv, SMTT(30)
<1>2. CASE BootStart
  BY <1>2, BootStartInv, SMTT(30)
<1>3. CASE SysYield \/ TimerTick
  BY <1>3, YieldInv, SMTT(30) DEF SysYield, TimerTick, InUserMode, actor_yield
<1>4. CASE actor_exit
  BY <1>4, YieldInv, SMTT(30) DEF actor_exit, InUserMode
<1>5. CASE \E dest \in Slot, payload \in Payload : actor_send(dest, payload)
  BY <1>5, SendInv, SMTT(30)
<1>6. CASE actor_receive
  BY <1>6, ReceiveInv
<1>7. CASE \E dest \in Slot, op \in Delegable, target \in Slot : actor_delegate(dest, op, target)
  BY <1>7, DelegateInv, SMTT(30)
<1>8. CASE actor_spawn_child
  BY <1>8, SpawnChildInv
<1>9. CASE SpawnFails
  <2>1. booted' \in 0 .. BOOT_ACTORS
    BY <1>9 DEF IInv, TypeOK, SpawnFails
  <2> QED
    BY <1>9, <2>1, SpawnFailsInv, SMTT(30) DEF SpawnFails
<1>10. CASE \E target \in Slot : actor_terminate(target)
  BY <1>10, TerminateInv, SMTT(30)
<1>11. CASE Panic
  BY <1>11, PanicInv
<1>12. CASE UNCHANGED vars
  <2>1. TypeOK' /\ OneRunning' /\ NoLostWakeup' /\ SpawnQuota' /\ BootCounts'
    BY <1>12, ZenonT(30) DEF IInv, vars, TypeOK, OneRunning, NoLostWakeup, SpawnQuota, BootCounts
  <2>2. PrivateStacks' /\ FreeListExact' /\ FreeListBound'
    BY <1>12, ZenonT(30) DEF IInv, vars, PrivateStacks, FreeListExact, FreeListBound, Owners
  <2> QED
    BY <2>1, <2>2, SMTT(30) DEF IInv
<1>13. CASE Halted
  BY <1>12, <1>13, SMTT(30) DEF Halted
<1> QED
  BY <1>1, <1>2, <1>3, <1>4, <1>5, <1>6, <1>7, <1>8, <1>9, <1>10, <1>11, <1>12, <1>13, SMTT(30), ZenonT(30) DEF Next

-----------------------------------------------------------------------------
\* The inductive invariant holds in every reachable state.
THEOREM Invariance == Spec => []IInv
BY InitInv, NextInv, PTL DEF Spec

\* Every field of actors[], the allocator and current_actor keep their type,
\* the capability tables and counters of the slots included.
THEOREM TypeCorrect == Spec => []TypeOK
<1>1. IInv => TypeOK
  BY DEF IInv
<1> QED
  BY <1>1, Invariance, PTL

\* Whatever the actors spawn, exit, terminate and let be reaped, no two slots
\* share a stack page, no actor that can run is without one, and no stack in
\* use is on the free list of free_page().
THEOREM StacksPrivate == Spec => [](PrivateStacks /\ FreeListExact)
<1>1. IInv => PrivateStacks /\ FreeListExact
  BY SMTT(30) DEF IInv
<1> QED
  BY <1>1, Invariance, PTL

\* The free list never needs more than MAX_ACTORS + 1 entries: with the 17
\* actors and the 32 entries of the code, free_page() never drops a stack.
THEOREM FreeListNeverFull == Spec => []FreeListBound
<1>1. IInv => FreeListBound
  BY SMTT(30) DEF IInv
<1> QED
  BY <1>1, Invariance, PTL

\* The only RUNNING actor is current_actor, which is what actor_terminate()
\* relies on: a target that is not the caller is not running either.
THEOREM OnlyCurrentRuns == Spec => []OneRunning
<1>1. IInv => OneRunning
  BY SMTT(30) DEF IInv
<1> QED
  BY <1>1, Invariance, PTL

\* No BLOCKED actor has mail: actor_send() and the park in actor_receive() never
\* pass each other by.
THEOREM WakeupsKept == Spec => []NoLostWakeup
<1>1. IInv => NoLostWakeup
  BY SMTT(30) DEF IInv
<1> QED
  BY <1>1, Invariance, PTL

\* The fork-bomb guard of actor_spawn_child() holds for every occupant of
\* every slot.
THEOREM QuotaKept == Spec => []SpawnQuota
<1>1. IInv => SpawnQuota
  BY SMTT(30) DEF IInv
<1> QED
  BY <1>1, Invariance, PTL

\* What actor_add_cap() adds to a table, if it fits.
LEMMA AddCapHeld ==
  ASSUME NEW t, NEW op, NEW target
  PROVE  actor_add_cap(t, op, target).held \subseteq t.held \cup {[op |-> op, target |-> target]}
BY DEF actor_add_cap

\* A step that leaves the capabilities alone brings no dead slot to life.
LEMMA NobodySpawned ==
  ASSUME IInv, Next, current_actor # NoActor, ~actor_spawn_child
  PROVE  \A s \in Slot : ~Spawned(s)
<1>1. CASE SysYield \/ TimerTick \/ actor_exit
  <2>1. PICK x \in {"READY", "DEAD", "BLOCKED"} :
          Running /\ schedule_next([state EXCEPT ![current_actor] = x])
    BY <1>1, SMTT(30) DEF SysYield, TimerTick, actor_exit, actor_yield, InUserMode
  <2>2. \A s \in Slot : state[s] = "DEAD" => state'[s] = "DEAD"
    BY <2>1, SwitchKeeps, ZenonT(30)
  <2> QED
    BY <2>2, SMTT(30), ZenonT(30) DEF Spawned
<1>2. CASE actor_receive
  <2>1. CASE mailbox[current_actor] = << >>
    <3>1. Running /\ schedule_next([state EXCEPT ![current_actor] = "BLOCKED"])
      BY <1>2, <2>1, SMTT(30), ZenonT(30) DEF actor_receive
    <3>2. \A s \in Slot : state[s] = "DEAD" => state'[s] = "DEAD"
      BY <3>1, SwitchKeeps, SMTT(30)
    <3> QED
      BY <3>2, SMTT(30) DEF Spawned
  <2>2. CASE mailbox[current_actor] # << >>
    BY <1>2, <2>2, SMTT(30), ZenonT(30) DEF actor_receive, Spawned
  <2> QED
    BY <2>1, <2>2
<1>3. CASE \E dest \in Slot, payload \in Payload : actor_send(dest, payload)
  BY <1>3, SMTT(30), ZenonT(30) DEF actor_send, SendAllowed, Spawned, IInv, TypeOK
<1>4. CASE \E target \in Slot : actor_terminate(target)
  BY <1>4, SMTT(30) DEF actor_terminate, Spawned, IInv, TypeOK
<1>5. CASE state' = state
  BY <1>5, SMTT(30), ZenonT(30) DEF Spawned
<1>6. \/ SysYield \/ TimerTick \/ actor_exit \/ actor_receive \/ state' = state
      \/ \E dest \in Slot, payload \in Payload : actor_send(dest, payload)
      \/ \E target \in Slot : actor_terminate(target)
  BY DEF Next, BootSpawn, BootStart, actor_delegate, SpawnFails, Panic, Halted, vars
<1> QED
  BY <1>1, <1>2, <1>3, <1>4, <1>5, <1>6, SMTT(30), ZenonT(30)

\* After boot, no step gives an actor what the current actor did not hold, but
\* for the links between a parent and a child just spawned.
LEMMA AuthorityStep == IInv /\ [Next]_vars => [current_actor # NoActor => AuthorityGained]_vars
<1> SUFFICES ASSUME IInv, Next, current_actor # NoActor PROVE AuthorityGained
  BY SMTT(30)
<1>1. CASE caps' = caps /\ ~actor_spawn_child
  BY <1>1, NobodySpawned, ZenonT(30) DEF AuthorityGained, Gained
<1>2. CASE /\ ~actor_spawn_child
           /\ \E dest \in Slot, op \in Delegable, target \in Slot :
                actor_delegate(dest, op, target)
  <2>1. PICK dest \in Slot, op \in Delegable, target \in Slot : actor_delegate(dest, op, target)
    BY <1>2, SMTT(30), ZenonT(30)
  <2> DEFINE new == [op |-> op, target |-> target]
  <2>2. new \in caps[current_actor].held
    BY <2>1, SMTT(30), ZenonT(30) DEF actor_delegate, actor_has_cap
  <2>3. \A s \in Slot : caps'[s] = IF s = dest THEN actor_add_cap(caps[s], op, target) ELSE caps[s]
    BY <2>1, SMTT(30), ZenonT(30) DEF actor_delegate, IInv, TypeOK
  <2> HIDE DEF new
  <2>4. \A s \in Slot : caps'[s].held \subseteq caps[s].held \cup {new}
    BY <2>3, AddCapHeld, SMTT(30), ZenonT(30) DEF new
  <2>5. \A s \in Slot : Gained(s) \subseteq {new}
    BY <1>2, <2>4, NobodySpawned, ZenonT(30) DEF Gained
  <2> QED
    BY <2>2, <2>5, SMTT(30), ZenonT(30) DEF AuthorityGained
<1>3. CASE actor_spawn_child
  <2> DEFINE c == current_actor
             i == FirstDead
             back == [op |-> "SEND", target |-> c]
             send == [op |-> "SEND", target |-> i]
             term == [op |-> "TERMINATE", target |-> i]
  <2>1. /\ c \in Slot /\ i \in Slot /\ i # c
        /\ \A s \in Slot : Spawned(s) <=> s = i
    <3>1. /\ c \in Slot /\ machine = "up" /\ CanSpawn
          /\ state' = [state EXCEPT ![i] = "READY"]
      BY <1>3, SMTT(30) DEF IInv, TypeOK, actor_spawn_child, actor_spawn, InUserMode, Running
    <3>2. i \in Slot /\ state[i] = "DEAD"
      BY <3>1, FirstDeadFacts, SMTT(30) DEF CanSpawn
    <3>3. state[c] = "RUNNING"
      BY <3>1, SMTT(30) DEF IInv, OneRunning
    <3> QED
      BY <3>1, <3>2, <3>3, SMTT(30), ZenonT(30) DEF IInv, TypeOK, Spawned
  <2>2. caps' = [caps EXCEPT
           ![i] = actor_add_cap(NoCaps, "SEND", c),
           ![c] = actor_add_cap(actor_add_cap(@, "SEND", i), "TERMINATE", i)]
    BY <1>3, SMTT(30), ZenonT(30) DEF actor_spawn_child
  <2> HIDE DEF i, c
  <2>3. /\ caps'[i] = actor_add_cap(NoCaps, "SEND", c)
        /\ caps'[c] = actor_add_cap(actor_add_cap(caps[c], "SEND", i), "TERMINATE", i)
        /\ \A s \in Slot \ {i, c} : caps'[s] = caps[s]
    BY <2>1, <2>2, SMTT(30), ZenonT(30) DEF IInv, TypeOK
  <2>4. Gained(i) \subseteq {back}
    <3>1. NoCaps.held = {}
      BY SMTT(30) DEF NoCaps
    <3>2. caps'[i].held \subseteq NoCaps.held \cup {back}
      BY <2>3, AddCapHeld, ZenonT(30)
    <3> HIDE DEF back
    <3> QED  BY <3>1, <3>2, ZenonT(30) DEF Gained
  <2>5. Gained(c) \subseteq {send, term}
    <3>1. actor_add_cap(caps[c], "SEND", i).held \subseteq caps[c].held \cup {send}
      BY AddCapHeld, ZenonT(30)
    <3>2. caps'[c].held \subseteq actor_add_cap(caps[c], "SEND", i).held \cup {term}
      BY <2>3, AddCapHeld, SMTT(30), ZenonT(30)
    <3> HIDE DEF send, term
    <3>3. caps'[c].held \subseteq caps[c].held \cup {send, term}
      BY <3>1, <3>2, SMTT(30), ZenonT(30)
    <3> QED
      BY <2>1, <3>3 DEF Gained
  <2>6. \A s \in Slot \ {i, c} : Gained(s) = {}
    BY <2>1, <2>3, ZenonT(30) DEF Gained
  <2>7. /\ send.op = "SEND" /\ send.target = i /\ term.op = "TERMINATE" /\ term.target = i
    BY SMTT(30)
  <2> HIDE DEF send, term
  <2> SUFFICES ASSUME NEW s \in Slot, NEW k \in Gained(s)
               PROVE  \/ k \in caps[c].held
                      \/ s = c /\ k.op \in {"SEND", "TERMINATE"} /\ Spawned(k.target)
                      \/ k = back /\ Spawned(s)
    BY ZenonT(30) DEF AuthorityGained, c
  <2>8. CASE s = i
    BY <2>1, <2>4, <2>8, ZenonT(30)
  <2>9. CASE s = c
    <3>1. k = send \/ k = term
      BY <2>5, <2>9, ZenonT(30)
    <3> QED
      BY <2>1, <2>7, <2>9, <3>1, ZenonT(30)
  <2>10. CASE s \notin {i, c}
    BY <2>6, <2>10, ZenonT(30)
  <2> QED
    BY <2>8, <2>9, <2>10, ZenonT(30)
<1>4. \/ caps' = caps \/ actor_spawn_child
      \/ \E dest \in Slot, op \in Delegable, target \in Slot :
           actor_delegate(dest, op, target)
  BY ZenonT(30) DEF Next, BootSpawn, BootStart, SysYield, TimerTick, actor_yield, actor_exit, actor_send,
         actor_receive, SpawnFails, actor_terminate, Panic, Halted, vars
<1> QED
  BY <1>1, <1>2, <1>3, <1>4, SMTT(30)

\* Authority is neither manufactured nor inherited, by any sequence of
\* delegations, spawns, deaths and slots that are used again.
THEOREM AuthorityConserved == Spec => AuthorityFlow
BY Invariance, AuthorityStep, PTL DEF Spec, AuthorityFlow
=============================================================================
