---------------------------- MODULE MemoryLemmas ----------------------------
(***************************************************************************)
(* Facts about the operators of Memory.tla, for every value of the         *)
(* constants: what one call of the allocator does to an allocator that is  *)
(* well-formed.  The theorems of the modules that use the allocator rest   *)
(* on them.                                                                *)
(***************************************************************************)
EXTENDS Memory, TLAPS, WellFoundedInduction

\* The allocators memory_init() and the calls after it can produce.
Allocators ==
  [bitmap : SUBSET Page, next_free_page : Nat, mem_top : Nat, free_list : Seq(Page)]

\* The pages of the free list are distinct and keep their bitmap bit.
WellFormed(m) ==
  /\ Elements(m.free_list) \subseteq m.bitmap
  /\ \A i, j \in DOMAIN m.free_list : m.free_list[i] = m.free_list[j] => i = j

\* A page is a nonzero address.
LEMMA PageType == Page \subseteq Nat /\ NULL \notin Page
BY MemoryAssumption DEF Page, NULL

\* A nonempty set of naturals has a least element, which Minimum returns.
LEMMA MinimumExists ==
  ASSUME NEW S \in SUBSET Nat, S # {}
  PROVE  Minimum(S) \in S /\ \A y \in S : Minimum(S) <= y
<1> DEFINE R == {ss \in Nat \X Nat : ss[1] < ss[2]}
<1>1. IsWellFoundedOn(R, Nat)
  BY NatLessThanWellFounded, Zenon DEF OpToRel
<1>2. \E x \in S : \A y \in S : ~ (<<y, x>> \in R)
  <2> HIDE DEF R
  <2> QED  BY <1>1, WFMin
<1>3. \A x, y \in Nat : y < x => <<y, x>> \in R
  OBVIOUS
<1>4. \E x \in S : \A y \in S : x <= y
  <2>1. PICK x \in S : \A y \in S : ~ (<<y, x>> \in R)
    BY <1>2
  <2>2. \A y \in S : ~ (y < x)
    BY <1>3, <2>1, Zenon
  <2> QED
    BY <2>2, x \in Nat
<1> QED
  BY <1>4 DEF Minimum

\* Sequences: their length, and what appending, taking the tail, joining and
\* taking a prefix give.
LEMMA SeqLen ==
  ASSUME NEW S, NEW s \in Seq(S)
  PROVE  Len(s) \in Nat /\ s \in [1 .. Len(s) -> S] /\ DOMAIN s = 1 .. Len(s)
  OBVIOUS

LEMMA SeqAppend ==
  ASSUME NEW S, NEW s \in Seq(S), NEW x \in S
  PROVE  /\ Append(s, x) \in Seq(S)
         /\ Len(Append(s, x)) = Len(s) + 1
         /\ \A i \in 1 .. Len(s) : Append(s, x)[i] = s[i]
         /\ Append(s, x)[Len(s) + 1] = x
  OBVIOUS

LEMMA SeqTail ==
  ASSUME NEW S, NEW s \in Seq(S), s # << >>
  PROVE  Head(s) \in S /\ Tail(s) \in Seq(S) /\ Len(Tail(s)) = Len(s) - 1
  OBVIOUS

LEMMA SeqJoin ==
  ASSUME NEW S, NEW s \in Seq(S), NEW t \in Seq(S)
  PROVE  /\ s \o t \in Seq(S)
         /\ Len(s \o t) = Len(s) + Len(t)
         /\ \A i \in 1 .. Len(s) + Len(t) :
              (s \o t)[i] = IF i <= Len(s) THEN s[i] ELSE t[i - Len(s)]
  OBVIOUS

LEMMA PrefixFacts ==
  ASSUME NEW S, NEW s \in Seq(S), NEW n \in 0 .. Len(s)
  PROVE  /\ SubSeq(s, 1, n) \in Seq(S)
         /\ Len(SubSeq(s, 1, n)) = n
         /\ \A i \in 1 .. n : SubSeq(s, 1, n)[i] = s[i]
  OBVIOUS

\* The bump scan goes on from an address.
LEMMA ScanEndType ==
  ASSUME NEW m \in Allocators
  PROVE  ScanEnd(m) \in Nat
<1>1. /\ PAGE_SIZE \in Nat \ {0}
      /\ m.mem_top \in Nat /\ m.next_free_page \in Nat
  BY MemoryAssumption DEF Allocators
<1>2. m.mem_top + PAGE_SIZE - 1 \in Nat
  BY <1>1
<1>3. (m.mem_top + PAGE_SIZE - 1) \div PAGE_SIZE \in Nat
  BY <1>1, <1>2
<1>4. ((m.mem_top + PAGE_SIZE - 1) \div PAGE_SIZE) * PAGE_SIZE \in Nat
  BY <1>1, <1>3
<1> QED
  BY <1>1, <1>4 DEF ScanEnd

\* alloc_page() with a page on the free list takes the last one off it.
LEMMA AllocFromFreeList ==
  ASSUME NEW m \in Allocators, WellFormed(m), Len(m.free_list) > 0
  PROVE  LET r == alloc_page(m)
         IN  /\ r.mem \in Allocators /\ WellFormed(r.mem)
             /\ r.mem.bitmap = m.bitmap
             /\ r.page \in Page /\ r.page \in Elements(m.free_list)
             /\ Elements(r.mem.free_list) = Elements(m.free_list) \ {r.page}
             /\ Len(r.mem.free_list) = Len(m.free_list) - 1
<1> DEFINE fl == m.free_list
           front == SubSeq(fl, 1, Len(fl) - 1)
<1>1. /\ fl \in Seq(Page) /\ Len(fl) \in Nat \ {0}
      /\ DOMAIN fl = 1 .. Len(fl)
      /\ \A i \in 1 .. Len(fl) : fl[i] \in Page
  BY SeqLen DEF Allocators
<1>2. /\ front \in Seq(Page) /\ Len(front) = Len(fl) - 1
      /\ DOMAIN front = 1 .. Len(fl) - 1
      /\ \A i \in 1 .. Len(fl) - 1 : front[i] = fl[i]
  BY <1>1, PrefixFacts, SeqLen
<1>3. /\ alloc_page(m).page = fl[Len(fl)]
      /\ alloc_page(m).mem = [m EXCEPT !.free_list = front]
  BY DEF alloc_page
<1>4. /\ alloc_page(m).mem.free_list = front
      /\ alloc_page(m).mem.bitmap = m.bitmap
      /\ alloc_page(m).mem \in Allocators
  BY <1>2, <1>3 DEF Allocators
<1>5. Elements(front) = Elements(fl) \ {fl[Len(fl)]}
  <2> HIDE DEF fl, front
  <2>1. \A i, j \in 1 .. Len(fl) : fl[i] = fl[j] => i = j
    BY <1>1 DEF WellFormed, fl
  <2> QED
    BY <1>1, <1>2, <2>1 DEF Elements
<1>6. \A i, j \in DOMAIN front : front[i] = front[j] => i = j
  <2> HIDE DEF fl, front
  <2>1. \A i, j \in 1 .. Len(fl) : fl[i] = fl[j] => i = j
    BY <1>1 DEF WellFormed, fl
  <2> QED
    BY <1>1, <1>2, <2>1
<1>7. WellFormed(alloc_page(m).mem)
  <2> HIDE DEF front
  <2> QED  BY <1>4, <1>5, <1>6 DEF WellFormed
<1>8. alloc_page(m).page \in Page /\ alloc_page(m).page \in Elements(fl)
  <2> HIDE DEF fl
  <2> QED  BY <1>1, <1>3 DEF Elements
<1> HIDE DEF front
<1> QED
  BY <1>2, <1>3, <1>4, <1>5, <1>7, <1>8

\* alloc_page() with an empty free list claims the first page of the bump
\* scan, which was not used before.
LEMMA AllocByBump ==
  ASSUME NEW m \in Allocators, WellFormed(m), ~(Len(m.free_list) > 0), BumpScan(m) # {}
  PROVE  LET r == alloc_page(m)
         IN  /\ r.mem \in Allocators /\ WellFormed(r.mem)
             /\ r.page \in BumpScan(m)
             /\ \A p \in BumpScan(m) : r.page <= p
             /\ r.mem = [m EXCEPT !.bitmap = @ \cup {r.page}, !.next_free_page = r.page + PAGE_SIZE]
<1> DEFINE p == Minimum(BumpScan(m))
<1>1. BumpScan(m) \subseteq Page /\ Page \subseteq Nat /\ PAGE_SIZE \in Nat
  BY PageType, MemoryAssumption DEF BumpScan
<1>2. p \in BumpScan(m) /\ \A q \in BumpScan(m) : p <= q
  BY <1>1, MinimumExists
<1> HIDE DEF p
<1>3. /\ alloc_page(m).page = p
      /\ alloc_page(m).mem = [m EXCEPT !.bitmap = @ \cup {p}, !.next_free_page = p + PAGE_SIZE]
  BY DEF alloc_page, p
<1>4. p \in Page /\ p \in Nat /\ p + PAGE_SIZE \in Nat
  <2>1. p \in Page /\ p \in Nat
    BY <1>1, <1>2, Zenon
  <2> QED
    BY <1>1, <2>1
<1> DEFINE n == [m EXCEPT !.bitmap = @ \cup {p}, !.next_free_page = p + PAGE_SIZE]
<1>5. /\ n.free_list = m.free_list
      /\ n.bitmap = m.bitmap \cup {p}
      /\ n \in Allocators
  <2>1. m.bitmap \cup {p} \in SUBSET Page
    BY <1>4 DEF Allocators
  <2> QED
    BY <1>4, <2>1 DEF Allocators
<1> HIDE DEF n
<1>6. WellFormed(n)
  BY <1>5 DEF WellFormed
<1> QED
  BY <1>2, <1>3, <1>5, <1>6 DEF n

\* alloc_page() with nothing left only moves the bump pointer.
LEMMA AllocFails ==
  ASSUME NEW m \in Allocators, WellFormed(m), ~(Len(m.free_list) > 0), BumpScan(m) = {}
  PROVE  LET r == alloc_page(m)
         IN  /\ r.mem \in Allocators /\ WellFormed(r.mem)
             /\ r.page = NULL
             /\ r.mem = [m EXCEPT !.next_free_page = ScanEnd(m)]
BY ScanEndType DEF alloc_page, Allocators, WellFormed

\* alloc_page(), for callers that do not care where the page comes from: it
\* is not on the free list any more, and nobody else has it, because it was
\* on the free list or had no bitmap bit.
LEMMA AllocFacts ==
  ASSUME NEW m \in Allocators, WellFormed(m)
  PROVE  LET r == alloc_page(m)
         IN  /\ r.mem \in Allocators /\ WellFormed(r.mem)
             /\ r.page \in Page \cup {NULL}
             /\ m.bitmap \subseteq r.mem.bitmap
             /\ Elements(r.mem.free_list) \subseteq Elements(m.free_list)
             /\ r.page # NULL =>
                  /\ r.page \in r.mem.bitmap
                  /\ r.page \notin Elements(r.mem.free_list)
                  /\ r.page \in Elements(m.free_list) \/ r.page \notin m.bitmap
             /\ \/ Len(r.mem.free_list) = Len(m.free_list) - 1
                \/ Len(r.mem.free_list) = 0
             /\ Len(r.mem.free_list) <= Len(m.free_list)
<1> DEFINE r == alloc_page(m)
<1>0. Len(m.free_list) \in Nat /\ m.bitmap \in SUBSET Page
  BY SeqLen DEF Allocators
<1>1. CASE Len(m.free_list) > 0
  <2>1. /\ r.mem \in Allocators /\ WellFormed(r.mem)
        /\ r.mem.bitmap = m.bitmap
        /\ r.page \in Page /\ r.page \in Elements(m.free_list)
        /\ Elements(r.mem.free_list) = Elements(m.free_list) \ {r.page}
        /\ Len(r.mem.free_list) = Len(m.free_list) - 1
    BY <1>1, AllocFromFreeList
  <2>2. Elements(m.free_list) \subseteq m.bitmap
    BY DEF WellFormed
  <2> HIDE DEF r
  <2> QED
    BY <1>0, <2>1, <2>2 DEF r
<1>2. CASE ~(Len(m.free_list) > 0) /\ BumpScan(m) # {}
  <2>1. /\ r.mem \in Allocators /\ WellFormed(r.mem)
        /\ r.page \in BumpScan(m)
        /\ r.mem = [m EXCEPT !.bitmap = @ \cup {r.page}, !.next_free_page = r.page + PAGE_SIZE]
    BY <1>2, AllocByBump
  <2> HIDE DEF r
  <2>2. r.mem.free_list = m.free_list /\ r.mem.bitmap = m.bitmap \cup {r.page}
    BY <2>1 DEF Allocators
  <2>3. r.page \in Page /\ r.page \notin m.bitmap
    BY <2>1 DEF BumpScan
  <2>4. Elements(m.free_list) \subseteq m.bitmap /\ Len(m.free_list) = 0
    BY <1>0, <1>2 DEF WellFormed
  <2> QED
    BY <2>1, <2>2, <2>3, <2>4 DEF r
<1>3. CASE ~(Len(m.free_list) > 0) /\ BumpScan(m) = {}
  <2>1. /\ r.mem \in Allocators /\ WellFormed(r.mem)
        /\ r.page = NULL
        /\ r.mem = [m EXCEPT !.next_free_page = ScanEnd(m)]
    BY <1>3, AllocFails
  <2> HIDE DEF r
  <2>2. r.mem.free_list = m.free_list /\ r.mem.bitmap = m.bitmap
    BY <2>1 DEF Allocators
  <2>3. Len(m.free_list) = 0
    BY <1>0, <1>3
  <2> QED
    BY <2>1, <2>2, <2>3 DEF r
<1> QED
  BY <1>1, <1>2, <1>3

\* free_page() of a page that has its bitmap bit and is not on the free list.
LEMMA FreeFacts ==
  ASSUME NEW m \in Allocators, WellFormed(m),
         NEW p \in Page \cup {NULL}, p \in Page => p \in m.bitmap \ Elements(m.free_list)
  PROVE  LET n == free_page(m, p)
         IN  /\ n \in Allocators /\ WellFormed(n)
             /\ n.bitmap = m.bitmap
             /\ n.next_free_page = m.next_free_page
             /\ n.mem_top = m.mem_top
             /\ Elements(n.free_list) \subseteq Elements(m.free_list) \cup ({p} \ {NULL})
             /\ Len(n.free_list) <= Len(m.free_list) + 1
             /\ p = NULL => n = m
<1>1. CASE p # NULL /\ Len(m.free_list) < FREE_LIST_CAPACITY
  <2> DEFINE fl == m.free_list
             ap == Append(fl, p)
  <2>1. /\ fl \in Seq(Page) /\ Len(fl) \in Nat /\ DOMAIN fl = 1 .. Len(fl)
        /\ p \in Page
    BY <1>1, SeqLen DEF Allocators
  <2>2. /\ ap \in Seq(Page) /\ Len(ap) = Len(fl) + 1
        /\ DOMAIN ap = 1 .. Len(fl) + 1
        /\ \A i \in 1 .. Len(fl) : ap[i] = fl[i]
        /\ ap[Len(fl) + 1] = p
    BY <2>1, SeqAppend, SeqLen
  <2>3. free_page(m, p) = [m EXCEPT !.free_list = ap]
    BY <1>1 DEF free_page
  <2> HIDE DEF ap
  <2>4. /\ free_page(m, p).free_list = ap
        /\ free_page(m, p).bitmap = m.bitmap
        /\ free_page(m, p).next_free_page = m.next_free_page
        /\ free_page(m, p).mem_top = m.mem_top
        /\ free_page(m, p) \in Allocators
    BY <2>2, <2>3 DEF Allocators
  <2>5. p \notin Elements(fl) /\ p \in m.bitmap
    BY <2>1
  <2>6. Elements(fl) \subseteq m.bitmap /\ \A i, j \in 1 .. Len(fl) : fl[i] = fl[j] => i = j
    BY <2>1 DEF WellFormed
  <2> HIDE DEF fl
  <2>7. Elements(ap) = Elements(fl) \cup {p}
    BY <2>1, <2>2 DEF Elements
  <2>8. \A i \in 1 .. Len(fl) : fl[i] # p
    BY <2>1, <2>5 DEF Elements
  <2>9. \A i, j \in DOMAIN ap : ap[i] = ap[j] => i = j
    BY <2>1, <2>2, <2>6, <2>8
  <2>10. WellFormed(free_page(m, p))
    BY <2>4, <2>5, <2>6, <2>7, <2>9 DEF WellFormed
  <2> QED
    BY <1>1, <2>2, <2>4, <2>7, <2>10 DEF fl
<1>2. CASE ~(p # NULL /\ Len(m.free_list) < FREE_LIST_CAPACITY)
  <2>1. free_page(m, p) = m
    BY <1>2 DEF free_page
  <2>2. Len(m.free_list) \in Nat
    BY SeqLen DEF Allocators
  <2> QED
    BY <2>1, <2>2
<1> QED
  BY <1>1, <1>2

\* The constants, as the proofs use them.
LEMMA Constants ==
  /\ PAGE_SIZE \in Nat \ {0} /\ MEM_BASE \in Nat \ {0}
  /\ MEM_CAP \in Nat /\ FALLBACK_TOP \in Nat /\ PRIVATE_WINDOW_END \in Nat
  /\ WORD \in Nat \ {0}
  /\ MEM_BASE <= FALLBACK_TOP /\ FALLBACK_TOP <= MEM_CAP
  /\ MEM_BASE % PAGE_SIZE = 0
BY MemoryAssumption

\* The end of a region of a memory map is an address.
LEMMA RegionType ==
  ASSUME NEW regions \in MemoryMapType, NEW r \in regions
  PROVE  /\ r.base \in Nat /\ RegionEnd(r) \in Nat
         /\ ClippedBase(r) \in Nat /\ MEM_BASE <= ClippedBase(r) /\ r.base <= ClippedBase(r)
         /\ ClippedEnd(r) \in Nat /\ ClippedEnd(r) <= MEM_CAP /\ ClippedEnd(r) <= RegionEnd(r)
<1>1. r.base \in Nat /\ r.length \in Nat
  BY DEF MemoryMapType
<1>2. RegionEnd(r) \in Nat
  BY <1>1, Constants DEF RegionEnd
<1> QED
  BY <1>1, <1>2, Constants DEF ClippedBase, ClippedEnd

\* The usable memory ends at or below MEM_CAP, above every page free at boot.
LEMMA MemTopFacts ==
  ASSUME NEW regions \in MemoryMapType
  PROVE  /\ MemTop(regions) \in Nat /\ MemTop(regions) <= MEM_CAP
         /\ \A p \in FreeAtBoot(regions) : p < MemTop(regions)
<1>1. CASE Clipped(regions) = {}
  <2>1. MemTop(regions) = FALLBACK_TOP
    BY <1>1 DEF MemTop
  <2>2. \A p \in FreeAtBoot(regions) : p < FALLBACK_TOP
    <3> TAKE p \in FreeAtBoot(regions)
    <3>1. p \in Nat /\ p + PAGE_SIZE <= FALLBACK_TOP
      BY <1>1, PageType DEF FreeAtBoot, mark_range_free
    <3> QED
      BY <3>1, Constants
  <2>3. FALLBACK_TOP \in Nat /\ FALLBACK_TOP <= MEM_CAP
    BY Constants
  <2> QED
    BY <2>1, <2>2, <2>3
<1>2. CASE Clipped(regions) # {}
  <2> DEFINE Ends == {ClippedEnd(r) : r \in Clipped(regions)}
             Gaps == {MEM_CAP - e : e \in Ends}
             top == MemTop(regions)
  <2>1. \A e \in Ends : e \in Nat /\ e <= MEM_CAP
    BY RegionType DEF Clipped
  <2>2. Gaps \in SUBSET Nat /\ Gaps # {}
    <3>1. Ends # {}
      BY <1>2
    <3> HIDE DEF Ends
    <3>2. \A e \in Ends : MEM_CAP - e \in Nat
      BY <2>1, Constants
    <3> QED
      BY <3>1, <3>2
  <2>3. Minimum(Gaps) \in Gaps /\ \A g \in Gaps : Minimum(Gaps) <= g
    <3> HIDE DEF Gaps
    <3> QED  BY <2>2, MinimumExists
  <2>4. PICK e \in Ends : Minimum(Gaps) = MEM_CAP - e
    BY <2>3
  <2>5. \A f \in Ends : f <= e
    <3> TAKE f \in Ends
    <3>1. MEM_CAP - e <= MEM_CAP - f
      BY <2>3, <2>4
    <3>2. e \in Nat /\ f \in Nat
      BY <2>1
    <3> HIDE DEF Ends
    <3> QED
      BY <3>1, <3>2, Constants
  <2>6. \A r \in Clipped(regions) : ClippedEnd(r) <= e
    BY <2>5
  <2>7. top \in Ends /\ \A r \in Clipped(regions) : ClippedEnd(r) <= top
    BY <1>2, <2>6 DEF MemTop
  <2>8. \A p \in FreeAtBoot(regions) : p < top
    <3> SUFFICES ASSUME NEW p \in FreeAtBoot(regions)
                 PROVE  p < top
      OBVIOUS
    <3>1. PICK r \in Clipped(regions) : p \in mark_range_free(ClippedBase(r), ClippedEnd(r))
      BY <1>2 DEF FreeAtBoot
    <3>2. p \in Nat /\ p + PAGE_SIZE <= ClippedEnd(r)
      BY <3>1, PageType DEF mark_range_free
    <3>3. ClippedEnd(r) <= top /\ ClippedEnd(r) \in Nat /\ top \in Nat
      BY <2>1, <2>7
    <3> HIDE DEF top
    <3> QED
      BY <3>2, <3>3, Constants
  <2> QED
    BY <2>1, <2>7, <2>8
<1> QED
  BY <1>1, <1>2

\* A multiple of the page size leaves no remainder.
LEMMA MultipleMod ==
  ASSUME NEW S \in Nat \ {0}, NEW n \in Nat
  PROVE  (S * n) % S = 0
<1> DEFINE d == (S * n) \div S
           r == (S * n) % S
<1>1. S * n \in Nat
  OBVIOUS
<1>2. d \in Nat /\ r \in Nat /\ r < S /\ S * n = S * d + r
  BY <1>1
<1> HIDE DEF d, r
<1>3. CASE n <= d
  <2>1. S * n <= S * d
    BY <1>2, <1>3
  <2> QED
    BY <1>1, <1>2, <2>1 DEF r
<1>4. CASE d + 1 <= n
  <2>1. S * (d + 1) <= S * n
    BY <1>2, <1>4
  <2>2. S * (d + 1) = S * d + S
    BY <1>2
  <2> QED
    BY <1>1, <1>2, <2>1, <2>2
<1> QED
  BY <1>2, <1>3, <1>4

\* A run of free pages is made of pages that have no bitmap bit.
LEMMA RunFacts ==
  ASSUME NEW m \in Allocators, m.mem_top <= MEM_CAP,
         NEW start \in Nat, NEW count \in Nat, NEW base,
         start \in FreeRuns(m, base, count)
  PROVE  Run(start, count) \subseteq Page \ m.bitmap
<1> DEFINE S == PAGE_SIZE
<1>1. /\ start \in Page /\ start \in Nat /\ MEM_BASE <= start /\ start % S = 0
      /\ start + count * S <= m.mem_top
      /\ Run(start, count) \cap m.bitmap = {}
  BY PageType, Constants DEF FreeRuns, Page
<1>2. m.mem_top \in Nat
  BY DEF Allocators
<1> SUFFICES ASSUME NEW k \in 0 .. count - 1
             PROVE  start + k * S \in Page
  BY <1>1 DEF Run
<1>3. S \in Nat \ {0} /\ k \in Nat /\ k + 1 <= count
  BY Constants
<1> HIDE DEF S
<1>4. k * S \in Nat /\ (k + 1) * S <= count * S /\ (k + 1) * S = k * S + S /\ count * S \in Nat
  BY <1>3
<1>5. start + k * S \in MEM_BASE .. MEM_CAP - 1
  BY <1>1, <1>2, <1>3, <1>4, Constants
<1>6. (start + k * S) % S = 0
  <2> DEFINE n == start \div S
  <2>1. n \in Nat /\ start = S * n
    BY <1>1, <1>3
  <2> HIDE DEF n
  <2>2. start + k * S = S * (n + k)
    BY <1>3, <2>1
  <2> QED
    BY <1>3, <2>1, <2>2, MultipleMod
<1> QED
  BY <1>5, <1>6 DEF Page, S
=============================================================================
