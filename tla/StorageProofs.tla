---------------------------- MODULE StorageProofs ----------------------------
(***************************************************************************)
(* What the object store promises, for every number of objects, sectors,   *)
(* names and contents, and for every point at which the machine may stop.  *)
(* The names are unique and the boot objects keep their ids whatever the   *)
(* disk does; what is said of contents, of trust and of the directory, and *)
(* that the store implements Namespace, is for a disk that does not fail.  *)
(***************************************************************************)
EXTENDS Storage, WellFoundedInduction, TLAPS

ObjectRecord ==
  [in_use : BOOLEAN, name : StoredName \cup {NoName},
   size : 0 .. SECTORS_PER_OBJECT, trust : Trust]
Table == [Id -> ObjectRecord]
Op ==
  {Idle}
    \cup [kind : {"save"}, id : Id, call : {"create", "rename", "delete", "write", "promote", "reject"}]
    \cup [kind : {"data"}, id : Id, content : Content, done : 0 .. SECTORS_PER_OBJECT]
Types ==
  /\ objects \in Table
  /\ object_count \in 0 .. MAX_OBJECTS
  /\ granted \subseteq Id
  /\ directory \in [magic : BOOLEAN, count : 0 .. MAX_OBJECTS, entry : Table]
  /\ data \in [Id -> [Sectors -> Content \cup {"zero"}]]
  /\ op \in Op
  /\ phase \in {"off", "boot", "up"}
  /\ boot \in Nat \ {0}
  /\ own \in [Id -> SUBSET Content]
  /\ judged = [id \in Id |-> judged[id]]
  /\ cut \subseteq Id

\* The objects of a table, in memory or on the disk.
Used(table, count) == {id \in Id : id < count /\ table[id].in_use}
Distinct(table, count) ==
  \A i, j \in Used(table, count) :
    table[i].name = table[j].name => i = j \/ table[i].name \in Cut

\* As far as a table goes, it begins with the objects of kernel_main().
BootFirst(table, count) ==
  \A k \in 1 .. Len(BOOT_NAMES) :
    k <= count => k - 1 \in Used(table, count) /\ table[k - 1].name = BOOT_NAMES[k]
Sound(table, count) == Distinct(table, count) /\ BootFirst(table, count)

\* The inductive invariant for the names.
NamesInv ==
  /\ Types
  /\ Sound(objects, object_count)
  /\ Sound(directory.entry, directory.count)
  /\ ~directory.magic => directory.count = 0
  /\ phase = "off" => op = Idle
  /\ phase = "boot" => object_count >= boot - 1 /\ boot <= Len(BOOT_NAMES) + 1
  /\ phase = "up" => object_count >= Len(BOOT_NAMES)
  /\ op.kind \in {"data", "save"} => op.id \in Id
  /\ \A id \in granted : id >= Len(BOOT_NAMES)

-----------------------------------------------------------------------------
LEMMA Constants ==
  /\ MAX_OBJECTS \in Nat /\ SECTORS_PER_OBJECT \in Nat \ {0}
  /\ Len(BOOT_NAMES) \in 1 .. MAX_OBJECTS /\ DOMAIN BOOT_NAMES = 1 .. Len(BOOT_NAMES)
  /\ \A k \in 1 .. Len(BOOT_NAMES) :
       BOOT_NAMES[k] \in StoredName /\ BOOT_NAMES[k] \in Name /\ Stored[BOOT_NAMES[k]] = BOOT_NAMES[k]
  /\ \A i, j \in 1 .. Len(BOOT_NAMES) : BOOT_NAMES[i] = BOOT_NAMES[j] => i = j
  /\ \A n \in Name : Stored[n] \in StoredName
  /\ \A c \in Content : Length[c] \in 0 .. SECTORS_PER_OBJECT
<1>1. /\ MAX_OBJECTS \in Nat /\ SECTORS_PER_OBJECT \in Nat \ {0}
      /\ BOOT_NAMES \in Seq(StoredName) /\ Len(BOOT_NAMES) \in 1 .. MAX_OBJECTS
      /\ \A i, j \in DOMAIN BOOT_NAMES : BOOT_NAMES[i] = BOOT_NAMES[j] => i = j
      /\ Length \in [Content -> 0 .. SECTORS_PER_OBJECT]
      /\ \A n \in StoredName : n \in Name /\ Stored[n] = n
  BY StorageAssumption
<1>2. DOMAIN BOOT_NAMES = 1 .. Len(BOOT_NAMES)
  BY <1>1
<1>3. \A k \in 1 .. Len(BOOT_NAMES) : BOOT_NAMES[k] \in StoredName
  BY <1>1
<1>4. \A n \in Name : Stored[n] \in StoredName
  BY DEF StoredName
<1> QED
  BY <1>1, <1>2, <1>3, <1>4, ZenonT(30)

\* A set of naturals that is not empty has a least element.
LEMMA LeastExists ==
  ASSUME NEW S \in SUBSET Nat, S # {}
  PROVE  \E x \in S : \A y \in S : x <= y
<1> DEFINE R == {ss \in Nat \X Nat : ss[1] < ss[2]}
<1>1. IsWellFoundedOn(R, Nat)
  BY NatLessThanWellFounded, Zenon DEF OpToRel
<1>2. \E x \in S : \A y \in S : ~ (<<y, x>> \in R)
  <2> HIDE DEF R
  <2> QED  BY <1>1, WFMin, ZenonT(30)
<1>3. \A x, y \in Nat : y < x => <<y, x>> \in R
  OBVIOUS
<1>4. PICK x \in S : \A y \in S : ~ (<<y, x>> \in R)
  BY <1>2
<1>5. \A y \in S : ~ (y < x)
  BY <1>3, <1>4, Zenon
<1> QED
  BY <1>5, x \in Nat

LEMMA FirstFreeFacts ==
  ASSUME NamesInv, FreeSlots # {}
  PROVE  FirstFree \in Id /\ FirstFree <= object_count /\ FirstFree \notin Live
<1>1. FreeSlots \in SUBSET Nat
  BY Constants DEF FreeSlots, Id
<1>2. FirstFree \in FreeSlots
  BY <1>1, LeastExists, ZenonT(30) DEF FirstFree
<1> QED
  BY <1>2 DEF FreeSlots

\* find_by_name() returns an object of that name.
LEMMA FoundFacts ==
  ASSUME NamesInv, NEW name, Taken(name)
  PROVE  find_by_name(name) \in Live /\ objects[find_by_name(name)].name = name
<1>1. Matches(name) \in SUBSET Nat /\ Matches(name) # {}
  BY Constants DEF Taken, Matches, Live, Id
<1>2. find_by_name(name) \in Matches(name)
  BY <1>1, LeastExists DEF find_by_name
<1> QED
  BY <1>2 DEF Matches, name_eq

\* A table in which nothing has become live, or changed its name.
LEMMA SoundKept ==
  ASSUME NEW t, NEW u, NEW c \in 0 .. MAX_OBJECTS, Sound(t, c),
         Used(u, c) \subseteq Used(t, c),
         \A i \in Used(u, c) : u[i].name = t[i].name,
         \A k \in 1 .. Len(BOOT_NAMES) : k - 1 \in Used(t, c) => k - 1 \in Used(u, c)
  PROVE  Sound(u, c)
BY DEF Sound, Distinct, BootFirst


LEMMA EmptySound ==
  ASSUME NEW table
  PROVE  Sound(table, 0)
<1>1. Used(table, 0) = {}
  BY Constants DEF Used, Id
<1>2. \A k \in 1 .. Len(BOOT_NAMES) : ~(k <= 0)
  BY Constants
<1> QED
  BY <1>1, <1>2 DEF Sound, Distinct, BootFirst

LEMMA InitNames ==
  ASSUME Init
  PROVE  NamesInv
<1> USE Constants DEF Init
<1>1. objects \in Table /\ FreeObject \in ObjectRecord
  BY DEF Table, ObjectRecord, FreeObject, Trust
<1>2. Types
  BY <1>1 DEF Types, BlankDirectory, Table, Op, Sectors
<1>3. Sound(objects, object_count) /\ Sound(directory.entry, directory.count)
  BY EmptySound DEF BlankDirectory
<1> QED
  BY <1>2, <1>3 DEF NamesInv, Idle, BlankDirectory

\* A new object: its name is not taken, and if it falls among the first it is
\* the one that kernel_main() puts there.
LEMMA AllocNames ==
  ASSUME NamesInv, NEW name \in Name, ~Taken(name), alloc_object(name),
         FirstFree < Len(BOOT_NAMES) => name = BOOT_NAMES[FirstFree + 1]
  PROVE  /\ objects' \in Table /\ object_count' \in 0 .. MAX_OBJECTS
         /\ object_count' >= object_count /\ object_count' > FirstFree
         /\ Sound(objects', object_count')
         /\ op' \in Op /\ op'.kind = "save" /\ op'.id \in Id
         /\ own' \in [Id -> SUBSET Content]
<1> DEFINE f == FirstFree
           o == [in_use |-> TRUE, name |-> Stored[name], size |-> 0, trust |-> "UNTRUSTED"]
<1>1. f \in Id /\ f <= object_count /\ f \notin Live
  BY FirstFreeFacts DEF alloc_object
<1>2. /\ objects' = [objects EXCEPT ![f] = o]
      /\ object_count' = IF f = object_count THEN object_count + 1 ELSE object_count
      /\ own' = [own EXCEPT ![f] = {}]
      /\ op' = [kind |-> "save", call |-> "create", id |-> f]
  BY DEF alloc_object, Save
<1>3. o \in ObjectRecord
  BY Constants DEF ObjectRecord, Trust
<1> HIDE DEF f
<1>4. Types /\ objects \in Table /\ object_count \in 0 .. MAX_OBJECTS
  BY DEF NamesInv, Types
<1>5. objects' \in Table
  BY <1>1, <1>2, <1>3, <1>4 DEF Table
<1>6. /\ object_count' \in 0 .. MAX_OBJECTS /\ object_count' >= object_count
      /\ object_count' > f
  BY <1>1, <1>2, <1>4, Constants DEF Id
<1>7. Used(objects', object_count') = Live \cup {f}
  BY <1>1, <1>2, <1>4, <1>6, Constants DEF Used, Live, Id, Table
<1>8. /\ objects'[f].name = Stored[name]
      /\ \A i \in Live : i # f /\ objects'[i] = objects[i]
  BY <1>1, <1>2, <1>4 DEF Table, Live
<1>9. Stored[name] \in Cut \/ (\A i \in Live : objects[i].name # Stored[name])
  <2>1. CASE Stored[name] # name
    BY <2>1 DEF Cut
  <2>2. CASE Stored[name] = name
    BY <2>2 DEF Taken, Matches, name_eq
  <2> QED  BY <2>1, <2>2
<1>10. Live = Used(objects, object_count) /\ Sound(objects, object_count)
  BY DEF Live, Used, NamesInv
<1>11. Distinct(objects', object_count')
  BY <1>7, <1>8, <1>9, <1>10 DEF Distinct, Sound
<1>12. BootFirst(objects', object_count')
  <2> SUFFICES ASSUME NEW k \in 1 .. Len(BOOT_NAMES), k <= object_count'
               PROVE  k - 1 \in Used(objects', object_count') /\ objects'[k - 1].name = BOOT_NAMES[k]
    BY DEF BootFirst
  <2>1. CASE k <= object_count
    <3>1. k - 1 \in Live /\ objects[k - 1].name = BOOT_NAMES[k]
      BY <2>1, <1>10 DEF Sound, BootFirst
    <3> QED  BY <3>1, <1>7, <1>8
  <2>2. CASE ~(k <= object_count)
    <3>1. k - 1 = f
      BY <2>2, <1>2, <1>4, <1>1, Constants
    <3>2. name = BOOT_NAMES[k]
      BY <3>1, Constants, <1>1 DEF f
    <3> QED  BY <3>1, <3>2, <1>7, <1>8, Constants
  <2> QED  BY <2>1, <2>2
<1>13. op' \in Op /\ op'.kind = "save" /\ op'.id \in Id
  BY <1>1, <1>2 DEF Op
<1>14. own' \in [Id -> SUBSET Content]
  BY <1>1, <1>2, <1>4 DEF Types
<1> QED
  BY <1>5, <1>6, <1>11, <1>12, <1>13, <1>14 DEF Sound, f

\* The ids below object_count that belong to kernel_main() are live, so that
\* alloc_object() does not give them out.
LEMMA BootIdsTaken ==
  ASSUME NamesInv, FreeSlots # {}, object_count >= Len(BOOT_NAMES)
  PROVE  FirstFree >= Len(BOOT_NAMES)
<1>1. FirstFree \in Id /\ FirstFree \notin Live
  BY FirstFreeFacts
<1>2. SUFFICES ASSUME FirstFree < Len(BOOT_NAMES) PROVE FALSE
  BY <1>1, Constants DEF Id
<1>3. PICK k \in Nat : k = FirstFree + 1
  BY <1>1, Constants DEF Id
<1>4. k \in 1 .. Len(BOOT_NAMES) /\ k <= object_count /\ k - 1 = FirstFree
  BY <1>1, <1>2, <1>3, Constants DEF Id, NamesInv, Types
<1>5. k - 1 \in Used(objects, object_count)
  BY <1>4 DEF NamesInv, Sound, BootFirst
<1> QED
  BY <1>1, <1>4, <1>5 DEF Used, Live

\* kernel_main() creates an object only where it belongs.
LEMMA BootCreates ==
  ASSUME NamesInv, phase = "boot", boot <= Len(BOOT_NAMES)
  PROVE  /\ Taken(BOOT_NAMES[boot]) => object_count >= boot
         /\ ~Taken(BOOT_NAMES[boot]) => FreeSlots # {} /\ FirstFree = boot - 1
<1>1. /\ boot \in 1 .. Len(BOOT_NAMES) /\ object_count \in 0 .. MAX_OBJECTS
      /\ object_count >= boot - 1
      /\ Live = Used(objects, object_count)
      /\ BootFirst(objects, object_count)
  BY Constants DEF NamesInv, Types, Sound, Live, Used
<1>2. ASSUME object_count = boot - 1
      PROVE  ~Taken(BOOT_NAMES[boot])
  <2> SUFFICES ASSUME NEW id \in Live, objects[id].name = BOOT_NAMES[boot]
               PROVE  FALSE
    BY DEF Taken, Matches, name_eq
  <2>1. PICK k \in Nat : k = id + 1
    BY Constants DEF Live, Id
  <2>2. k \in 1 .. Len(BOOT_NAMES) /\ k <= object_count /\ k - 1 = id /\ k # boot
    BY <2>1, <1>1, <1>2, Constants DEF Live, Id
  <2>3. objects[id].name = BOOT_NAMES[k]
    BY <2>2, <1>1 DEF BootFirst
  <2> QED  BY <2>2, <2>3, <1>1, Constants, ZenonT(30)
<1>3. ASSUME object_count >= boot
      PROVE  Taken(BOOT_NAMES[boot])
  <2>1. boot - 1 \in Live /\ objects[boot - 1].name = BOOT_NAMES[boot]
    BY <1>1, <1>3 DEF BootFirst
  <2> QED  BY <2>1 DEF Taken, Matches, name_eq
<1>4. ASSUME object_count = boot - 1
      PROVE  FreeSlots # {} /\ FirstFree = boot - 1
  <2>1. object_count \in FreeSlots
    BY <1>1, <1>4, Constants DEF FreeSlots, Live, Id
  <2>2. FirstFree \in Id /\ FirstFree <= object_count /\ FirstFree \notin Live
    BY <2>1, FirstFreeFacts
  <2>3. PICK k \in Nat : k = FirstFree + 1
    BY <2>2, Constants DEF Id
  <2>4. CASE FirstFree < object_count
    <3>1. k \in 1 .. Len(BOOT_NAMES) /\ k <= object_count /\ k - 1 = FirstFree
      BY <2>2, <2>3, <2>4, <1>1, <1>4, Constants DEF Id
    <3>2. k - 1 \in Live
      BY <3>1, <1>1 DEF BootFirst
    <3> QED  BY <3>1, <3>2, <2>2
  <2>5. CASE FirstFree = object_count
    BY <2>1, <2>5, <1>4
  <2> QED  BY <2>2, <2>4, <2>5, <1>1, Constants DEF Id
<1> QED
  BY <1>1, <1>2, <1>3, <1>4

\* What a call does to an entry without freeing or renaming it.
LEMMA EntryKept ==
  ASSUME NamesInv, NEW id \in Id, NEW o \in ObjectRecord,
         o.in_use = objects[id].in_use, o.name = objects[id].name,
         objects' = [objects EXCEPT ![id] = o], object_count' = object_count
  PROVE  objects' \in Table /\ Sound(objects', object_count')
<1>1. objects \in Table /\ object_count \in 0 .. MAX_OBJECTS /\ Sound(objects, object_count)
  BY DEF NamesInv, Types
<1>2. objects' \in Table
  BY <1>1 DEF Table
<1>3. \A i \in Id : objects'[i].in_use = objects[i].in_use /\ objects'[i].name = objects[i].name
  BY <1>1 DEF Table
<1>4. Used(objects', object_count) = Used(objects, object_count)
  BY <1>3 DEF Used
<1>5. \A i \in Used(objects', object_count) : objects'[i].name = objects[i].name
  BY <1>3 DEF Used
<1>6. Sound(objects', object_count)
  BY <1>1, <1>4, <1>5, SoundKept, Zenon
<1> QED
  BY <1>2, <1>6

LEMMA NextTrustType ==
  ASSUME NEW t \in Trust, t \notin {"TRUSTED", "REJECTED"}
  PROVE  NextTrust(t) \in Trust
BY DEF NextTrust, Trust

LEMMA NamesStep ==
  ASSUME NamesInv, [Next]_vars
  PROVE  NamesInv'
<1> USE Constants DEF memory, disk, history
<1>0. Types
  BY DEF NamesInv
<1>1. CASE UNCHANGED vars
  BY <1>1 DEF vars, NamesInv, Types
<1>2. CASE storage_init
  <2>1. [id \in Id |-> FreeObject] \in Table
    BY DEF Table, ObjectRecord, FreeObject, Trust
  <2>2. objects' \in Table /\ object_count' \in 0 .. MAX_OBJECTS
    BY <1>0, <1>2, <2>1 DEF storage_init, directory_load, Types
  <2>3. Sound(objects', object_count')
    BY <1>2, EmptySound DEF storage_init, directory_load, NamesInv
  <2> QED
    BY <1>0, <1>2, <2>2, <2>3 DEF storage_init, NamesInv, Types
<1>3. CASE storage_init_fails \/ Crash
  <2>0. FreeObject \in ObjectRecord
    BY DEF ObjectRecord, FreeObject, Trust
  <2>1. objects' \in Table /\ object_count' = 0
    BY <1>3, <2>0 DEF Table, storage_init_fails, Crash
  <2>2. Sound(objects', object_count')
    BY <2>1, EmptySound
  <2>3. CASE storage_init_fails
    BY <1>0, <2>3, <2>1, <2>2 DEF storage_init_fails, NamesInv, Types
  <2>4. CASE Crash
    BY <1>0, <2>4, <2>1, <2>2 DEF Crash, NamesInv, Types, Op, Idle, Written
  <2> QED  BY <1>3, <2>3, <2>4
<1>4. CASE storage_create_object
  <2>1. CASE Taken(BOOT_NAMES[boot])
    BY <1>0, <1>4, <2>1, BootCreates DEF storage_create_object, NamesInv, Types
  <2>2. CASE ~Taken(BOOT_NAMES[boot])
    <3>1. alloc_object(BOOT_NAMES[boot]) /\ FirstFree = boot - 1 /\ boot \in 1 .. Len(BOOT_NAMES)
      BY <1>0, <1>4, <2>2, BootCreates DEF storage_create_object, Types
    <3>2. boot - 1 + 1 = boot
      BY <3>1
    <3>3. /\ objects' \in Table /\ object_count' \in 0 .. MAX_OBJECTS
          /\ object_count' >= object_count /\ object_count' > FirstFree
          /\ Sound(objects', object_count')
          /\ op' \in Op /\ op'.kind = "save" /\ op'.id \in Id
          /\ own' \in [Id -> SUBSET Content]
      BY <2>2, <3>1, <3>2, AllocNames
    <3> QED
      BY <1>0, <1>4, <3>1, <3>3, SMTT(30) DEF storage_create_object, NamesInv, Types
  <2> QED  BY <2>1, <2>2
<1>5. CASE SeedHello
  <2> DEFINE hello == BOOT_NAMES[Len(BOOT_NAMES)]
  <2>1. CASE Taken(hello)
    <3>1. PICK id \in Id : id = find_by_name(hello)
      BY <2>1, FoundFacts DEF Live
    <3>2. /\ op' = [kind |-> "data", id |-> id, content |-> BootContent, done |-> 0]
          /\ own' = [own EXCEPT ![id] = @ \cup {BootContent}]
      BY <1>5, <2>1, <3>1 DEF SeedHello, StartWrite, WriteData
    <3>3. BootContent \in Content
      BY StorageAssumption
    <3>4. op' \in Op /\ op'.kind = "data" /\ op'.id \in Id /\ own' \in [Id -> SUBSET Content]
      BY <1>0, <3>2, <3>3 DEF Op, Types
    <3> QED
      BY <1>0, <1>5, <3>4 DEF SeedHello, NamesInv, Types
  <2>2. CASE ~Taken(hello)
    BY <1>0, <1>5, <2>2 DEF SeedHello, NamesInv, Types
  <2> QED  BY <2>1, <2>2
<1>6. ASSUME NEW name \in Name, storage_create_named(name)
      PROVE  NamesInv'
  <2>1. FreeSlots # {} /\ phase = "up" /\ alloc_object(name) /\ ~Taken(name)
    BY <1>6 DEF storage_create_named, Call, alloc_object
  <2>2. FirstFree >= Len(BOOT_NAMES) /\ FirstFree \in Id
    BY <2>1, BootIdsTaken, FirstFreeFacts DEF NamesInv
  <2>3. ~(FirstFree < Len(BOOT_NAMES))
    BY <2>2 DEF Id
  <2>4. /\ objects' \in Table /\ object_count' \in 0 .. MAX_OBJECTS
        /\ object_count' >= object_count
        /\ Sound(objects', object_count')
        /\ op' \in Op /\ op'.kind = "save" /\ op'.id \in Id
        /\ own' \in [Id -> SUBSET Content]
    BY <2>1, <2>3, AllocNames
  <2>5. granted' \subseteq Id /\ \A id \in granted' : id >= Len(BOOT_NAMES)
    BY <1>0, <1>6, <2>2 DEF storage_create_named, NamesInv, Types
  <2> QED
    BY <1>0, <1>6, <2>1, <2>4, <2>5 DEF storage_create_named, NamesInv, Types
<1>7. ASSUME NEW id \in Id, NEW name \in Name, storage_rename(id, name)
      PROVE  NamesInv'
  <2>1. objects \in Table /\ object_count \in 0 .. MAX_OBJECTS /\ id \in Live
    BY <1>0, <1>7 DEF Types, storage_rename
  <2>2. objects' \in Table
    BY <1>7, <2>1, SMTT(30) DEF storage_rename, Table, ObjectRecord
  <2>3. /\ \A i \in Id : objects'[i].in_use = objects[i].in_use
        /\ \A i \in Id \ {id} : objects'[i].name = objects[i].name
        /\ objects'[id].name = Stored[name]
    BY <1>7, <2>1 DEF storage_rename, Table, ObjectRecord
  <2>4. Used(objects', object_count) = Live /\ Used(objects, object_count) = Live
    BY <2>3 DEF Used, Live
  <2>5. Stored[name] \in Cut \/ (\A i \in Live \ {id} : objects[i].name # Stored[name])
    <3>1. CASE Stored[name] # name
      BY <3>1 DEF Cut
    <3>2. ASSUME Stored[name] = name, NEW i \in Live, i # id, objects[i].name = name
          PROVE  name \in Cut
      <4>1. Taken(name)
        BY <3>2 DEF Taken, Matches, name_eq
      <4>2. find_by_name(name) = id
        BY <4>1, <1>7 DEF storage_rename, RenameAllowed
      <4>3. objects[id].name = name
        BY <4>1, <4>2, FoundFacts
      <4> QED  BY <2>1, <2>4, <3>2, <4>3 DEF NamesInv, Sound, Distinct
    <3> QED  BY <3>1, <3>2
  <2>6. Distinct(objects', object_count)
    BY <2>3, <2>4, <2>5 DEF Distinct, NamesInv, Sound, Live
  <2>7. id >= Len(BOOT_NAMES)
    BY <1>7 DEF storage_rename, NamesInv
  <2>8. \A k \in 1 .. Len(BOOT_NAMES) : k - 1 # id
    BY <2>7 DEF Id
  <2>9. BootFirst(objects', object_count)
    BY <2>3, <2>4, <2>8 DEF BootFirst, NamesInv, Sound, Live
  <2>10. op' \in Op /\ op'.kind = "save" /\ op'.id \in Id
    BY <1>7 DEF storage_rename, Save, Op
  <2> QED
    BY <1>0, <1>7, <2>2, <2>6, <2>9, <2>10 DEF storage_rename, Call, NamesInv, Types, Sound
<1>8. ASSUME NEW id \in Id, storage_delete(id)
      PROVE  NamesInv'
  <2>1. objects \in Table /\ object_count \in 0 .. MAX_OBJECTS /\ FreeObject \in ObjectRecord
    BY <1>0, SMTT(30) DEF Types, FreeObject, ObjectRecord, Trust
  <2>2. objects' \in Table
    BY <1>8, <2>1 DEF storage_delete, Table
  <2>3. /\ \A i \in Id \ {id} : objects'[i] = objects[i]
        /\ ~objects'[id].in_use
    BY <1>8, <2>1 DEF storage_delete, Table, FreeObject
  <2>4. Used(objects', object_count) = Used(objects, object_count) \ {id}
    BY <2>3 DEF Used
  <2>5. \A i \in Used(objects', object_count) : objects'[i].name = objects[i].name
    BY <2>3, <2>4 DEF Used
  <2>6. \A k \in 1 .. Len(BOOT_NAMES) : k - 1 # id
    BY <1>8 DEF storage_delete, NamesInv, Id
  <2>7. /\ Used(objects', object_count) \subseteq Used(objects, object_count)
        /\ \A k \in 1 .. Len(BOOT_NAMES) :
             k - 1 \in Used(objects, object_count) => k - 1 \in Used(objects', object_count)
    BY <2>4, <2>6
  <2>8. Sound(objects, object_count)
    BY DEF NamesInv
  <2>9. Sound(objects', object_count)
    BY <2>1, <2>5, <2>7, <2>8, SoundKept, Zenon
  <2>10. op' \in Op /\ op'.kind = "save" /\ op'.id \in Id
    BY <1>8, SMTT(30) DEF storage_delete, Save, Op
  <2> QED
    BY <1>0, <1>8, <2>2, <2>9, <2>10 DEF storage_delete, Call, NamesInv, Types
<1>9. ASSUME NEW id \in Id, NEW content \in Content, storage_write(id, content)
      PROVE  NamesInv'
  <2>1. op' \in Op /\ op'.kind = "data" /\ op'.id \in Id /\ own' \in [Id -> SUBSET Content]
    BY <1>0, <1>9 DEF storage_write, StartWrite, WriteData, Op, Types
  <2> QED
    BY <1>0, <1>9, <2>1 DEF storage_write, Call, NamesInv, Types
<1>10. ASSUME NEW id \in Id, storage_promote(id)
       PROVE  NamesInv'
  <2> DEFINE o == [objects[id] EXCEPT !.trust = NextTrust(objects[id].trust)]
  <2>1. objects[id] \in ObjectRecord
    BY <1>0 DEF Types, Table
  <2>2. NextTrust(objects[id].trust) \in Trust
    BY <1>10, <2>1, NextTrustType DEF storage_promote, ObjectRecord
  <2>3. o \in ObjectRecord /\ o.in_use = objects[id].in_use /\ o.name = objects[id].name
    BY <2>1, <2>2 DEF ObjectRecord
  <2>4. objects' = [objects EXCEPT ![id] = o] /\ object_count' = object_count
    BY <1>0, <1>10 DEF storage_promote, Types, Table
  <2>5. objects' \in Table /\ Sound(objects', object_count')
    <3> HIDE DEF o
    <3> QED  BY <2>3, <2>4, EntryKept, ZenonT(30)
  <2>6. op' \in Op /\ op'.kind = "save" /\ op'.id \in Id
    BY <1>10 DEF storage_promote, Save, Op
  <2>7. judged' = [i \in Id |-> judged'[i]]
    BY <1>0, <1>10, SMTT(30) DEF storage_promote, Types
  <2> QED
    BY <1>0, <1>10, <2>5, <2>6, <2>7 DEF storage_promote, Call, NamesInv, Types
<1>11. ASSUME NEW id \in Id, storage_reject(id)
       PROVE  NamesInv'
  <2> DEFINE o == [objects[id] EXCEPT !.trust = "REJECTED"]
  <2>1. objects[id] \in ObjectRecord
    BY <1>0 DEF Types, Table
  <2>2. o \in ObjectRecord /\ o.in_use = objects[id].in_use /\ o.name = objects[id].name
    BY <2>1 DEF ObjectRecord, Trust
  <2>3. objects' = [objects EXCEPT ![id] = o] /\ object_count' = object_count
    BY <1>0, <1>11 DEF storage_reject, Types, Table
  <2>4. objects' \in Table /\ Sound(objects', object_count')
    <3> HIDE DEF o
    <3> QED  BY <2>2, <2>3, EntryKept, ZenonT(30)
  <2>5. op' \in Op /\ op'.kind = "save" /\ op'.id \in Id
    BY <1>11 DEF storage_reject, Save, Op
  <2> QED
    BY <1>0, <1>11, <2>4, <2>5 DEF storage_reject, Call, NamesInv, Types
<1>12. CASE WriteSector
  <2>1. op.kind = "data" /\ op \in [kind : {"data"}, id : Id, content : Content, done : 0 .. SECTORS_PER_OBJECT]
    BY <1>0, <1>12 DEF WriteSector, Types, Op, Idle
  <2>2. op' \in Op /\ op'.kind = "data" /\ op'.id \in Id
    BY <1>12, <2>1 DEF WriteSector, Op
  <2>3. data' \in [Id -> [Sectors -> Content \cup {"zero"}]]
    BY <1>0, <1>12, <2>1 DEF WriteSector, Types, Sectors
  <2> QED
    BY <1>0, <1>12, <2>2, <2>3 DEF WriteSector, NamesInv, Types, Idle
<1>13. CASE FinishWrite
  <2> DEFINE o == [objects[op.id] EXCEPT !.size = Length[op.content], !.trust = "UNTRUSTED"]
  <2>1. op.kind = "data" /\ op \in [kind : {"data"}, id : Id, content : Content, done : 0 .. SECTORS_PER_OBJECT]
    BY <1>0, <1>13 DEF FinishWrite, Types, Op, Idle
  <2>2. PICK id \in Id : id = op.id
    BY <2>1
  <2>3. objects[id] \in ObjectRecord
    BY <1>0 DEF Types, Table
  <2>4. o \in ObjectRecord /\ o.in_use = objects[id].in_use /\ o.name = objects[id].name
    BY <2>1, <2>2, <2>3, ZenonT(30) DEF ObjectRecord, Trust
  <2>5. objects' = [objects EXCEPT ![id] = o] /\ object_count' = object_count
    BY <1>0, <1>13, <2>2, ZenonT(30) DEF FinishWrite, Types, Table, ObjectRecord
  <2>6. objects' \in Table /\ Sound(objects', object_count')
    <3> HIDE DEF o
    <3> QED  BY <2>4, <2>5, EntryKept, ZenonT(30)
  <2>7. op' \in Op /\ op'.kind = "save" /\ op'.id \in Id
    BY <1>13, <2>1 DEF FinishWrite, Save, Op
  <2> QED
    BY <1>0, <1>13, <2>6, <2>7 DEF FinishWrite, NamesInv, Types, Idle
<1>14. CASE WriteFails \/ SaveFails
  <2>1. op' = Idle /\ op' \in Op /\ cut' \subseteq Id
    BY <1>0, <1>14 DEF WriteFails, SaveFails, Op, Written, Types, NamesInv
  <2> QED
    BY <1>0, <1>14, <2>1 DEF WriteFails, SaveFails, NamesInv, Types, Idle
<1>15. CASE directory_save
  <2>1. op' = Idle /\ op' \in Op /\ cut' \subseteq Id
    BY <1>0, <1>15 DEF directory_save, Op, Types
  <2> QED
    BY <1>0, <1>15, <2>1 DEF directory_save, NamesInv, Types, Idle
<1> QED
  BY <1>1, <1>2, <1>3, <1>4, <1>5, <1>6, <1>7, <1>8, <1>9, <1>10, <1>11, <1>12, <1>13,
     <1>14, <1>15, SMTT(30) DEF Next


LEMMA NamesInvariant == Spec => []NamesInv
<1>1. Init => NamesInv
  BY InitNames
<1>2. NamesInv /\ [Next]_vars => NamesInv'
  BY NamesStep
<1> QED
  BY <1>1, <1>2, PTL DEF Spec

\* The invariant of the tables gives both facts about names.
LEMMA NamesHold == NamesInv => UniqueNames /\ BootIds
<1> SUFFICES ASSUME NamesInv
             PROVE  UniqueNames /\ BootIds
  OBVIOUS
<1>1. Live = Used(objects, object_count)
  BY DEF Live, Used
<1>2. UniqueNames
  BY <1>1 DEF NamesInv, Sound, Distinct, UniqueNames
<1>3. ASSUME phase = "up", NEW k \in 1 .. Len(BOOT_NAMES)
      PROVE  k <= object_count
  BY <1>3, Constants DEF NamesInv, Types
<1>4. BootIds
  BY <1>1, <1>3, SMTT(30) DEF NamesInv, Sound, BootFirst, BootIds
<1> QED  BY <1>2, <1>4

\* Whatever is created, renamed and deleted, wherever the machine stops and
\* whatever the disk loses, live objects have distinct names, as far as 15
\* characters tell them apart.
THEOREM NamesKept == Spec => []UniqueNames
BY NamesHold, NamesInvariant, PTL

\* The objects of kernel_main() have the ids that main.c fixes, in every boot,
\* from whatever directory object_store_init() finds.
THEOREM BootIdsKept == Spec => []BootIds
BY NamesHold, NamesInvariant, PTL

-----------------------------------------------------------------------------
\* Contents, trust and the directory, on a disk that does not fail.

\* The directory on the disk is the table in memory; both are empty before the
\* first boot has created anything.
InStep ==
  \/ directory = [magic |-> TRUE, count |-> object_count, entry |-> objects]
  \/ ~directory.magic /\ object_count = 0

\* The sectors within an object's size are its own.
OwnIn(table, count) ==
  \A id \in Used(table, count) : \A k \in 1 .. table[id].size : data[id][k] \in own[id] \cup {"zero"}

\* A verdict is about the contents, unless the write of new ones is under way or
\* was cut short.
High == {"QUARANTINED", "ANALYZED", "TRUSTED"}
EarnedIn(table, count) ==
  \A id \in Used(table, count) \ (cut \cup Written) :
    table[id].trust \in High => SubSeq(data[id], 1, table[id].size) = judged[id]

DiskInv ==
  /\ NamesInv
  /\ phase # "off" /\ op.kind # "save" => InStep
  /\ OwnIn(objects, object_count) /\ OwnIn(directory.entry, directory.count)
  /\ EarnedIn(objects, object_count) /\ EarnedIn(directory.entry, directory.count)
  /\ op.kind = "data" =>
       /\ op.id \in Live /\ op.content \in own[op.id]
       /\ \A k \in 1 .. op.done : data[op.id][k] \in own[op.id] \cup {"zero"}
  /\ op.kind = "save" /\ op.call \in {"create", "write"} => objects[op.id].trust = "UNTRUSTED"

LEMMA EmptyUsed ==
  ASSUME NEW table
  PROVE  Used(table, 0) = {}
BY Constants DEF Used, Id

LEMMA InitDisk ==
  ASSUME Init
  PROVE  DiskInv
<1>1. NamesInv
  BY InitNames
<1>2. Used(objects, object_count) = {} /\ Used(directory.entry, directory.count) = {}
  BY EmptyUsed DEF Init, BlankDirectory
<1> QED
  BY <1>1, <1>2, SMTT(30) DEF DiskInv, OwnIn, EarnedIn, Init, Idle

\* Between calls, what is not live in memory is not live on the disk, and an
\* object's entries agree.
LEMMA InStepFacts ==
  ASSUME DiskInv, phase # "off", op.kind # "save"
  PROVE  /\ Used(directory.entry, directory.count) = Live
         /\ \A id \in Live : directory.entry[id] = objects[id]
<1>1. Live = Used(objects, object_count)
  BY DEF Live, Used
<1>2. CASE directory = [magic |-> TRUE, count |-> object_count, entry |-> objects]
  BY <1>1, <1>2
<1>3. CASE ~directory.magic /\ object_count = 0
  <2>1. directory.count = 0
    BY <1>3, SMTT(30) DEF DiskInv, NamesInv
  <2> QED  BY <1>1, <1>3, <2>1, EmptyUsed
<1> QED
  BY <1>2, <1>3 DEF DiskInv, InStep

LEMMA AllocDisk ==
  ASSUME DiskInv, NamesInv', op = Idle, phase # "off", NEW name \in Name, alloc_object(name),
         phase' # "off", UNCHANGED <<disk, judged, cut>>
  PROVE  DiskInv'
<1> DEFINE f == FirstFree
           o == [in_use |-> TRUE, name |-> Stored[name], size |-> 0, trust |-> "UNTRUSTED"]
<1>0. NamesInv /\ op.kind # "save"
  BY DEF DiskInv, Idle
<1>1. f \in Id /\ f <= object_count /\ f \notin Live
  BY <1>0, FirstFreeFacts DEF alloc_object
<1>2. /\ objects' = [objects EXCEPT ![f] = o]
      /\ object_count' = IF f = object_count THEN object_count + 1 ELSE object_count
      /\ own' = [own EXCEPT ![f] = {}]
      /\ op' = [kind |-> "save", call |-> "create", id |-> f]
      /\ UNCHANGED <<directory, data, judged, cut>>
  BY DEF alloc_object, Save, disk
<1> HIDE DEF f
<1>3. /\ objects \in [Id -> ObjectRecord] /\ object_count \in 0 .. MAX_OBJECTS
      /\ own \in [Id -> SUBSET Content]
  BY <1>0 DEF NamesInv, Types, Table
<1>4. objects'[f] = o /\ own'[f] = {} /\ \A i \in Id \ {f} : objects'[i] = objects[i] /\ own'[i] = own[i]
  BY <1>1, <1>2, <1>3
<1>5. Used(objects', object_count') \subseteq Live \cup {f}
  BY <1>1, <1>2, <1>3, <1>4 DEF Used, Live, Id
<1>6. Live = Used(objects, object_count) /\ Live \subseteq Id
  BY DEF Live, Used
<1>7. Used(directory.entry, directory.count) = Live /\ f \notin Live
  BY <1>0, <1>1, InStepFacts
<1>8. Written = {} /\ Written' = {}
  BY <1>2, SMTT(30) DEF Written, Idle
<1>9. OwnIn(objects, object_count)'
  <2> SUFFICES ASSUME NEW i \in Used(objects', object_count'), NEW k \in 1 .. objects'[i].size
               PROVE  data[i][k] \in own'[i] \cup {"zero"}
    BY <1>2, SMTT(30) DEF OwnIn
  <2>1. i # f
    BY <1>4, SMTT(30) 
  <2>2. i \in Live /\ i \in Id /\ objects'[i] = objects[i] /\ own'[i] = own[i]
    BY <2>1, <1>4, <1>5, <1>6, SMTT(30), ZenonT(30)
  <2> QED  BY <2>2, <1>6 DEF DiskInv, OwnIn
<1>10. OwnIn(directory.entry, directory.count)'
  BY <1>2, <1>4, <1>6, <1>7, SMTT(30), ZenonT(30) DEF DiskInv, OwnIn
<1>11. EarnedIn(objects, object_count)'
  <2> SUFFICES ASSUME NEW i \in Used(objects', object_count') \ cut, objects'[i].trust \in High
               PROVE  SubSeq(data[i], 1, objects'[i].size) = judged[i]
    BY <1>2, <1>8 DEF EarnedIn
  <2>1. i # f
    BY <1>4 DEF High
  <2>2. i \in Live /\ i \in Id /\ objects'[i] = objects[i]
    BY <2>1, <1>4, <1>5, <1>6, SMTT(30)
  <2> QED  BY <2>2, <1>6, <1>8 DEF DiskInv, EarnedIn
<1>12. EarnedIn(directory.entry, directory.count)'
  BY <1>2, <1>8, SMTT(30), ZenonT(30) DEF DiskInv, EarnedIn
<1> QED
  BY <1>2, <1>4, <1>9, <1>10, <1>11, <1>12, SMTT(30), ZenonT(30) DEF DiskInv

\* The start of a write changes no sector yet.
LEMMA StartDisk ==
  ASSUME DiskInv, NamesInv', op = Idle, phase # "off",
         NEW id \in Live, NEW content \in Content, StartWrite(id, content),
         UNCHANGED <<memory, disk, judged, cut>>
  PROVE  DiskInv'
<1>1. /\ UNCHANGED <<objects, object_count, directory, data, judged, cut>>
      /\ op' = [kind |-> "data", id |-> id, content |-> content, done |-> 0]
      /\ own' = [own EXCEPT ![id] = @ \cup {content}]
  BY SMTT(30) DEF StartWrite, WriteData, memory, disk
<1>2. own \in [Id -> SUBSET Content] /\ id \in Id
  BY DEF DiskInv, NamesInv, Types, Live
<1>3. content \in own'[id] /\ \A i \in Id : own[i] \subseteq own'[i]
  BY <1>1, <1>2, SMTT(30)
<1>4. op.kind # "save" /\ op'.kind = "data" /\ Written = {}
  BY <1>1, SMTT(30) DEF Idle, Written
<1>5. InStep'
  BY <1>1, <1>4, SMTT(30) DEF DiskInv, InStep
<1>6. OwnIn(objects, object_count)' /\ OwnIn(directory.entry, directory.count)'
  BY <1>1, <1>3, SMTT(30), ZenonT(30) DEF DiskInv, OwnIn, Used
<1>7. EarnedIn(objects, object_count)' /\ EarnedIn(directory.entry, directory.count)'
  BY <1>1, <1>4 DEF DiskInv, EarnedIn
<1>8. Live' = Live
  BY <1>1, SMTT(30) DEF Live
<1> QED
  <2>1. op'.kind = "data" /\ op'.id = id /\ op'.content = content /\ op'.done = 0
    BY <1>1, SMTT(30), ZenonT(30)
  <2>2. /\ op'.kind = "data" =>
             /\ op'.id \in Live' /\ op'.content \in own'[op'.id]
             /\ \A k \in 1 .. op'.done : data'[op'.id][k] \in own'[op'.id] \cup {"zero"}
        /\ op'.kind # "save"
    <3>1. \A k \in 1 .. 0 : FALSE
      OBVIOUS
    <3> QED  BY <1>3, <1>8, <2>1, <3>1, SMTT(30), ZenonT(30)
  <2> QED  BY <1>5, <1>6, <1>7, <2>2, ZenonT(30) DEF DiskInv

\* A call that changes the entry of one object and has to save the directory.
LEMMA EditDisk ==
  ASSUME DiskInv, NamesInv', phase # "off", op.kind # "save",
         NEW id \in Live, NEW o,
         objects' = [objects EXCEPT ![id] = o], UNCHANGED <<object_count, directory, data, own, cut>>,
         op'.kind = "save", op'.id = id, Written' = Written,
         op'.call \in {"create", "write"} => o.trust = "UNTRUSTED",
         o.in_use => \A k \in 1 .. o.size : data[id][k] \in own[id] \cup {"zero"},
         o.in_use /\ id \notin cut \cup Written /\ o.trust \in High =>
           SubSeq(data[id], 1, o.size) = judged'[id],
         \A i \in Id \ {id} : judged'[i] = judged[i],
         judged'[id] = judged[id] \/ objects[id].trust \notin High
  PROVE  DiskInv'
<1>1. objects \in [Id -> ObjectRecord] /\ id \in Id /\ Live = Used(objects, object_count)
  BY DEF DiskInv, NamesInv, Types, Table, Live, Used
<1>2. objects'[id] = o /\ \A i \in Id \ {id} : objects'[i] = objects[i]
  BY <1>1
<1>3. Used(objects', object_count) \subseteq Live
  BY <1>1, <1>2 DEF Used, Live
<1>4. id \in Used(objects', object_count) => o.in_use
  BY <1>2, SMTT(30) DEF Used
<1>5. /\ Used(directory.entry, directory.count) = Live
      /\ \A i \in Live : directory.entry[i] = objects[i]
  BY InStepFacts, SMTT(30)
<1>6. OwnIn(objects, object_count)'
  <2> SUFFICES ASSUME NEW i \in Used(objects', object_count), NEW k \in 1 .. objects'[i].size
               PROVE  data[i][k] \in own[i] \cup {"zero"}
    BY SMTT(30) DEF OwnIn
  <2>1. CASE i = id
    BY <2>1, <1>2, <1>4, SMTT(30)
  <2>2. CASE i # id
    BY <2>2, <1>1, <1>2, <1>3, ZenonT(30) DEF DiskInv, OwnIn, Live
  <2> QED  BY <2>1, <2>2, SMTT(30)
<1>7. OwnIn(directory.entry, directory.count)'
  BY DEF DiskInv, OwnIn
<1>8. EarnedIn(objects, object_count)'
  <2> SUFFICES ASSUME NEW i \in Used(objects', object_count) \ (cut \cup Written),
                      objects'[i].trust \in High
               PROVE  SubSeq(data[i], 1, objects'[i].size) = judged'[i]
    BY SMTT(30) DEF EarnedIn
  <2>1. CASE i = id
    BY <2>1, <1>2, <1>4, SMTT(30)
  <2>2. CASE i # id
    <3>1. i \in Used(objects, object_count) /\ i \in Id
      BY <1>1, <1>3, ZenonT(30) DEF Live
    <3>2. objects'[i] = objects[i] /\ judged'[i] = judged[i]
      BY <2>2, <3>1, <1>2
    <3>3. objects[i].trust \in High => SubSeq(data[i], 1, objects[i].size) = judged[i]
      BY <3>1 DEF DiskInv, EarnedIn
    <3> QED  BY <3>2, <3>3, SMTT(30)
  <2> QED  BY <2>1, <2>2
<1>9. EarnedIn(directory.entry, directory.count)'
  <2> SUFFICES ASSUME NEW i \in Used(directory.entry, directory.count) \ (cut \cup Written),
                      directory.entry[i].trust \in High
               PROVE  SubSeq(data[i], 1, directory.entry[i].size) = judged'[i]
    BY SMTT(30) DEF EarnedIn
  <2>1. judged'[i] = judged[i]
    BY <1>5, <1>1 DEF Live
  <2> QED  BY <2>1 DEF DiskInv, EarnedIn
<1> QED
  BY <1>2, <1>6, <1>7, <1>8, <1>9, SMTT(30) DEF DiskInv

LEMMA DiskStep ==
  ASSUME ~DiskFaults, DiskInv, [Next]_vars
  PROVE  DiskInv'
<1> USE DEF memory, disk, history
<1>0. NamesInv /\ Types /\ NamesInv'
  BY NamesStep DEF DiskInv, NamesInv
<1>a. Live = Used(objects, object_count) /\ Live \subseteq Id
  BY SMTT(30) DEF Live, Used
<1>1. CASE UNCHANGED vars
  <2>1. UNCHANGED <<Live, Written, InStep, OwnIn(objects, object_count), OwnIn(directory.entry, directory.count),
                    EarnedIn(objects, object_count), EarnedIn(directory.entry, directory.count)>>
    BY <1>1 DEF vars, Live, Written, InStep, OwnIn, EarnedIn, Used
  <2> QED
    BY <1>0, <1>1, <2>1, ZenonT(30) DEF vars, DiskInv
<1>2. CASE storage_init
  <2>1. op = Idle /\ Written = {} /\ Written' = {} /\ op'.kind = "idle"
    BY <1>0, <1>2 DEF storage_init, NamesInv, Written, Idle
  <2>2. UNCHANGED <<directory, data, own, judged, cut>>
    BY <1>2, SMTT(30) DEF storage_init
  <2>3. OwnIn(directory.entry, directory.count)' /\ EarnedIn(directory.entry, directory.count)'
    BY <2>1, <2>2, SMTT(30) DEF DiskInv, OwnIn, EarnedIn
  <2>4. CASE directory.magic
    <3>1. objects' = directory.entry /\ object_count' = directory.count
      BY <1>2, <2>4, SMTT(30) DEF storage_init, directory_load
    <3>2. OwnIn(objects, object_count)' /\ EarnedIn(objects, object_count)'
      BY <2>2, <2>3, <3>1, SMTT(30), ZenonT(30) DEF OwnIn, EarnedIn
    <3>3. InStep'
      BY <1>0, <2>2, <2>4, <3>1, SMTT(30) DEF InStep, Types
    <3> QED  BY <1>0, <2>1, <2>3, <3>2, <3>3 DEF DiskInv
  <2>5. CASE ~directory.magic
    <3>1. object_count' = 0 /\ Used(objects', object_count') = {}
      BY <1>2, <2>5, EmptyUsed DEF storage_init, directory_load
    <3>2. OwnIn(objects, object_count)' /\ EarnedIn(objects, object_count)'
      BY <3>1 DEF OwnIn, EarnedIn
    <3>3. InStep'
      BY <2>2, <2>5, <3>1, SMTT(30) DEF InStep
    <3> QED  BY <1>0, <2>1, <2>3, <3>2, <3>3 DEF DiskInv
  <2> QED  BY <2>4, <2>5, SMTT(30)
<1>3. CASE Crash
  <2>1. /\ object_count' = 0 /\ Used(objects', object_count') = {}
        /\ UNCHANGED <<directory, data, own, judged>> /\ phase' = "off"
        /\ op'.kind = "idle" /\ Written' = {} /\ cut' = cut \cup Written
    BY <1>3, EmptyUsed, SMTT(30) DEF Crash, Written, Idle
  <2>2. OwnIn(objects, object_count)' /\ EarnedIn(objects, object_count)'
    BY <2>1, SMTT(30) DEF OwnIn, EarnedIn
  <2>3. OwnIn(directory.entry, directory.count)' /\ EarnedIn(directory.entry, directory.count)'
    BY <2>1 DEF DiskInv, OwnIn, EarnedIn
  <2> QED  BY <1>0, <2>1, <2>2, <2>3, SMTT(30), ZenonT(30) DEF DiskInv
<1>4. CASE storage_create_object
  <2>1. op = Idle /\ phase # "off" /\ phase' # "off"
    BY <1>4, SMTT(30) DEF storage_create_object
  <2>2. CASE Taken(BOOT_NAMES[boot]) \/ FreeSlots = {}
    <3>1. UNCHANGED <<objects, object_count, op, own, directory, data, judged, cut, phase>>
      BY <1>4, <2>2, SMTT(30) DEF storage_create_object
    <3>2. UNCHANGED <<Live, InStep, OwnIn(objects, object_count), OwnIn(directory.entry, directory.count),
                      EarnedIn(objects, object_count), EarnedIn(directory.entry, directory.count)>>
      BY <3>1 DEF Live, Written, InStep, OwnIn, EarnedIn, Used
    <3> QED  BY <1>0, <3>1, <3>2 DEF DiskInv
  <2>3. CASE ~(Taken(BOOT_NAMES[boot]) \/ FreeSlots = {})
    <3>1. BOOT_NAMES[boot] \in Name
      BY <1>0, <1>4, Constants DEF storage_create_object, Types
    <3>2. alloc_object(BOOT_NAMES[boot]) /\ UNCHANGED <<disk, judged, cut>>
      BY <1>4, <2>3 DEF storage_create_object
    <3> QED  BY <1>0, <2>1, <3>1, <3>2, AllocDisk, Zenon
  <2> QED  BY <2>2, <2>3
<1>5. CASE SeedHello
  <2> DEFINE hello == BOOT_NAMES[Len(BOOT_NAMES)]
  <2>1. op = Idle /\ phase # "off" /\ UNCHANGED <<memory, disk, judged, cut>>
    BY <1>5 DEF SeedHello
  <2>2. CASE Taken(hello)
    <3>1. find_by_name(hello) \in Live /\ BootContent \in Content
      BY <1>0, <2>2, FoundFacts, StorageAssumption
    <3>2. StartWrite(find_by_name(hello), BootContent)
      BY <1>5, <2>2, SMTT(30) DEF SeedHello
    <3> QED  BY <1>0, <2>1, <3>1, <3>2, StartDisk, Zenon
  <2>3. CASE ~Taken(hello)
    <3>1. UNCHANGED <<objects, object_count, op, own, directory, data, judged, cut>>
      BY <1>5, <2>3, SMTT(30) DEF SeedHello
    <3>2. UNCHANGED <<Live, InStep, OwnIn(objects, object_count), OwnIn(directory.entry, directory.count),
                      EarnedIn(objects, object_count), EarnedIn(directory.entry, directory.count)>>
      BY <3>1 DEF Live, Written, InStep, OwnIn, EarnedIn, Used
    <3> QED  BY <1>0, <2>1, <3>1, <3>2 DEF DiskInv
  <2> QED  BY <2>2, <2>3
<1>6. ASSUME NEW name \in Name, storage_create_named(name)
      PROVE  DiskInv'
  <2>1. op = Idle /\ phase # "off" /\ phase' # "off" /\ alloc_object(name) /\ UNCHANGED <<disk, judged, cut>>
    BY <1>6, SMTT(30) DEF storage_create_named, Call
  <2> QED  BY <1>0, <2>1, AllocDisk, Zenon
<1>b. ASSUME NEW id \in Live
      PROVE  /\ id \in Id /\ objects[id] \in ObjectRecord /\ objects \in Table
             /\ \A k \in 1 .. objects[id].size : data[id][k] \in own[id] \cup {"zero"}
             /\ id \notin cut \cup Written /\ objects[id].trust \in High =>
                  SubSeq(data[id], 1, objects[id].size) = judged[id]
  BY <1>0, <1>a, ZenonT(30) DEF Types, Table, DiskInv, OwnIn, EarnedIn
<1>7. ASSUME NEW id \in Id, NEW name \in Name, storage_rename(id, name)
      PROVE  DiskInv'
  <2> DEFINE o == [objects[id] EXCEPT !.name = Stored[name]]
  <2>1. /\ op = Idle /\ phase # "off" /\ id \in Live
        /\ UNCHANGED <<object_count, directory, data, own, cut, judged>>
        /\ op' = [kind |-> "save", call |-> "rename", id |-> id]
        /\ objects' = [objects EXCEPT ![id].name = Stored[name]]
    BY <1>7 DEF storage_rename, Call, Save
  <2>2. objects' = [objects EXCEPT ![id] = o] /\ o.size = objects[id].size /\ o.trust = objects[id].trust
    BY <2>1, <1>b DEF Table, ObjectRecord
  <2>3. Written = {} /\ Written' = {} /\ op.kind # "save"
    BY <2>1 DEF Written, Idle
  <2>4. op'.kind = "save" /\ op'.id = id /\ op'.call \notin {"create", "write"}
    BY <2>1
  <2> HIDE DEF o
  <2>5. /\ \A k \in 1 .. o.size : data[id][k] \in own[id] \cup {"zero"}
        /\ id \notin cut \cup Written /\ o.trust \in High =>
             SubSeq(data[id], 1, o.size) = judged'[id]
    BY <2>1, <2>2, <1>b, SMTT(30)
  <2> QED
    BY <1>0, <2>1, <2>2, <2>3, <2>4, <2>5, EditDisk, ZenonT(30)
<1>8. ASSUME NEW id \in Id, storage_delete(id)
      PROVE  DiskInv'
  <2>1. /\ op = Idle /\ phase # "off" /\ id \in Live
        /\ UNCHANGED <<object_count, directory, data, own, cut, judged>>
        /\ op' = [kind |-> "save", call |-> "delete", id |-> id]
        /\ objects' = [objects EXCEPT ![id] = FreeObject]
    BY <1>8 DEF storage_delete, Call, Save
  <2>2. ~FreeObject.in_use
    BY DEF FreeObject
  <2>3. Written = {} /\ Written' = {} /\ op.kind # "save"
    BY <2>1 DEF Written, Idle
  <2> QED
    BY <1>0, <2>1, <2>2, <2>3, EditDisk, ZenonT(30)
<1>9. ASSUME NEW id \in Id, NEW content \in Content, storage_write(id, content)
      PROVE  DiskInv'
  <2>1. /\ op = Idle /\ phase # "off" /\ id \in Live /\ StartWrite(id, content)
        /\ UNCHANGED <<memory, disk, judged, cut>>
    BY <1>9 DEF storage_write, Call
  <2> QED
    BY <1>0, <2>1, StartDisk, Zenon
<1>10. ASSUME NEW id \in Id, storage_promote(id)
       PROVE  DiskInv'
  <2> DEFINE o == [objects[id] EXCEPT !.trust = NextTrust(objects[id].trust)]
  <2>1. /\ op = Idle /\ phase # "off" /\ id \in Live
        /\ objects[id].trust \notin {"TRUSTED", "REJECTED"}
        /\ UNCHANGED <<object_count, directory, data, own, cut>>
        /\ op' = [kind |-> "save", call |-> "promote", id |-> id]
        /\ objects' = [objects EXCEPT ![id].trust = NextTrust(@)]
        /\ judged' = IF objects[id].trust = "UNTRUSTED"
                     THEN [judged EXCEPT ![id] = Readable(id)] ELSE judged
    BY <1>10 DEF storage_promote, Call, Save
  <2>2. objects' = [objects EXCEPT ![id] = o] /\ o.size = objects[id].size
    BY <2>1, <1>b DEF Table, ObjectRecord
  <2>3. Written = {} /\ Written' = {} /\ op.kind # "save"
    BY <2>1 DEF Written, Idle
  <2> HIDE DEF o
  <2>a. op'.kind = "save" /\ op'.id = id /\ op'.call \notin {"create", "write"}
    BY <2>1
  <2>b. \A k \in 1 .. o.size : data[id][k] \in own[id] \cup {"zero"}
    BY <2>1, <2>2, <1>b
  <2>4. CASE objects[id].trust = "UNTRUSTED"
    <3>1. Readable(id) = SubSeq(data[id], 1, objects[id].size)
      BY <2>4 DEF Readable
    <3>2. judged'[id] = Readable(id) /\ \A i \in Id \ {id} : judged'[i] = judged[i]
      BY <1>0, <2>1, <2>4 DEF Types
    <3>3. objects[id].trust \notin High
      BY <2>4 DEF High
    <3>4. SubSeq(data[id], 1, o.size) = judged'[id]
      BY <2>2, <3>1, <3>2
    <3> QED  BY <1>0, <2>1, <2>2, <2>3, <2>a, <2>b, <3>2, <3>3, <3>4, EditDisk, ZenonT(30)
  <2>5. CASE objects[id].trust # "UNTRUSTED"
    <3>1. objects[id].trust \in High
      BY <2>1, <2>5, <1>b DEF High, ObjectRecord, Trust
    <3>2. judged' = judged
      BY <2>1, <2>5
    <3>3. id \notin cut \cup Written => SubSeq(data[id], 1, o.size) = judged'[id]
      BY <2>1, <2>2, <3>1, <3>2, <1>b
    <3> QED  BY <1>0, <2>1, <2>2, <2>3, <2>a, <2>b, <3>2, <3>3, EditDisk, ZenonT(30)
  <2> QED  BY <2>4, <2>5
<1>11. ASSUME NEW id \in Id, storage_reject(id)
       PROVE  DiskInv'
  <2> DEFINE o == [objects[id] EXCEPT !.trust = "REJECTED"]
  <2>1. /\ op = Idle /\ phase # "off" /\ id \in Live
        /\ UNCHANGED <<object_count, directory, data, own, cut, judged>>
        /\ op' = [kind |-> "save", call |-> "reject", id |-> id]
        /\ objects' = [objects EXCEPT ![id].trust = "REJECTED"]
    BY <1>11 DEF storage_reject, Call, Save
  <2>2. objects' = [objects EXCEPT ![id] = o] /\ o.size = objects[id].size /\ o.trust \notin High
    BY <2>1, <1>b DEF Table, ObjectRecord, High
  <2>3. Written = {} /\ Written' = {} /\ op.kind # "save"
    BY <2>1 DEF Written, Idle
  <2> HIDE DEF o
  <2> QED
    BY <1>0, <2>1, <2>2, <2>3, <1>b, EditDisk, ZenonT(30)
<1>12. CASE WriteSector
  <2>1. op.kind = "data" /\ op \in [kind : {"data"}, id : Id, content : Content, done : 0 .. SECTORS_PER_OBJECT]
    BY <1>0, <1>12 DEF WriteSector, Types, Op, Idle
  <2>2. PICK id \in Id, k \in Sectors, c \in Content \cup {"zero"} :
          /\ id = op.id /\ k = op.done + 1
          /\ c = IF k <= Length[op.content] THEN op.content ELSE "zero"
    BY <1>12, <2>1, Constants DEF WriteSector, Sectors
  <2>3. /\ data' = [data EXCEPT ![id][k] = c] /\ op' = [op EXCEPT !.done = k]
        /\ UNCHANGED <<objects, object_count, directory, own, judged, cut, phase>>
    BY <1>12, <2>2 DEF WriteSector
  <2>4. /\ id \in Live /\ c \in own[id] \cup {"zero"}
        /\ \A j \in 1 .. op.done : data[id][j] \in own[id] \cup {"zero"}
    BY <2>1, <2>2 DEF DiskInv
  <2>5. /\ \A i \in Id \ {id} : data'[i] = data[i]
        /\ \A j \in Sectors : data'[id][j] = IF j = k THEN c ELSE data[id][j]
    BY <1>0, <2>2, <2>3 DEF Types
  <2>6. /\ op'.kind = "data" /\ op'.id = id /\ op'.content = op.content /\ op'.done = k
        /\ op.content \in own[id]
    BY <2>1, <2>2, <2>3 DEF DiskInv
  <2>7. Written = {id} /\ Written' = {id}
    BY <2>1, <2>2, <2>6, SMTT(30) DEF Written
  <2>8. ASSUME NEW table \in Table, NEW count, OwnIn(table, count)
        PROVE  \A i \in Used(table, count) : \A j \in 1 .. table[i].size : data'[i][j] \in own[i] \cup {"zero"}
    <3> SUFFICES ASSUME NEW i \in Used(table, count), NEW j \in 1 .. table[i].size
                 PROVE  data'[i][j] \in own[i] \cup {"zero"}
      BY SMTT(30), ZenonT(30)
    <3>1. i \in Id /\ j \in Sectors /\ data[i][j] \in own[i] \cup {"zero"}
      BY <2>8, Constants DEF Used, Table, ObjectRecord, Sectors, OwnIn
    <3> QED  BY <2>4, <2>5, <3>1, SMTT(30), ZenonT(30)
  <2>9. OwnIn(objects, object_count)' /\ OwnIn(directory.entry, directory.count)'
    <3>1. objects \in Table /\ directory.entry \in Table
      BY <1>0 DEF Types
    <3> QED  BY <2>3, <2>8, <3>1 DEF DiskInv, OwnIn
  <2>10. EarnedIn(objects, object_count)' /\ EarnedIn(directory.entry, directory.count)'
    BY <2>3, <2>5, <2>7 DEF DiskInv, EarnedIn, Used
  <2>11. InStep' /\ Live' = Live
    BY <2>1, <2>3, <1>0, SMTT(30) DEF DiskInv, NamesInv, InStep, Live, Idle
  <2>12. \A j \in 1 .. k : data'[id][j] \in own[id] \cup {"zero"}
    <3>1. \A j \in 1 .. k : j \in Sectors /\ (j = k \/ j \in 1 .. op.done)
      BY <2>1, <2>2, Constants DEF Sectors
    <3> QED  BY <2>4, <2>5, <3>1
  <2> QED
    BY <1>0, <2>3, <2>4, <2>6, <2>9, <2>10, <2>11, <2>12 DEF DiskInv
<1>13. CASE FinishWrite
  <2> DEFINE o == [objects[op.id] EXCEPT !.size = Length[op.content], !.trust = "UNTRUSTED"]
  <2>1. op.kind = "data" /\ op \in [kind : {"data"}, id : Id, content : Content, done : 0 .. SECTORS_PER_OBJECT]
    BY <1>0, <1>13 DEF FinishWrite, Types, Op, Idle
  <2>2. PICK id \in Id : id = op.id
    BY <2>1
  <2>3. /\ phase # "off" /\ op.kind # "save" /\ id \in Live
        /\ UNCHANGED <<object_count, directory, data, own, cut, judged>>
        /\ op' = [kind |-> "save", call |-> "write", id |-> id]
        /\ objects' = [objects EXCEPT ![id].size = Length[op.content], ![id].trust = "UNTRUSTED"]
    BY <1>0, <1>13, <2>1, <2>2 DEF FinishWrite, Save, DiskInv, NamesInv, Idle
  <2>4. objects' = [objects EXCEPT ![id] = o] /\ o.size = Length[op.content] /\ o.trust = "UNTRUSTED"
    BY <2>2, <2>3, <1>b, ZenonT(30) DEF Table, ObjectRecord
  <2>5. \A k \in 1 .. o.size : data[id][k] \in own[id] \cup {"zero"}
    BY <1>13, <2>1, <2>2, <2>4, Constants DEF FinishWrite, DiskInv
  <2>6. Written = {id} /\ Written' = {id}
    BY <2>1, <2>2, <2>3 DEF Written
  <2>7. op'.kind = "save" /\ op'.id = id /\ o.trust \notin High
    BY <2>3, <2>4 DEF High
  <2> HIDE DEF o
  <2> QED
    BY <1>0, <2>3, <2>4, <2>5, <2>6, <2>7, EditDisk, ZenonT(30)
<1>14. CASE directory_save
  <2>1. /\ op.kind = "save" /\ op'.kind = "idle" /\ Written' = {}
        /\ directory' = [magic |-> TRUE, count |-> object_count, entry |-> objects]
        /\ cut' = cut \ (Written \cup Created)
        /\ UNCHANGED <<objects, object_count, data, own, judged, phase>>
    BY <1>14 DEF directory_save, Written, Idle
  <2>2. InStep'
    BY <2>1, SMTT(30) DEF InStep
  <2>3. OwnIn(objects, object_count)'
    BY <2>1, SMTT(30), ZenonT(30) DEF DiskInv, OwnIn
  <2>4. EarnedIn(objects, object_count)'
    <3> SUFFICES ASSUME NEW i \in Used(objects, object_count) \ cut', objects[i].trust \in High
                 PROVE  SubSeq(data[i], 1, objects[i].size) = judged[i]
      BY <2>1, SMTT(30), ZenonT(30) DEF EarnedIn
    <3>1. i \notin Written \cup Created
      BY <2>1, SMTT(30), ZenonT(30) DEF Written, Created, DiskInv, High
    <3> QED  BY <2>1, <3>1, SMTT(30), ZenonT(30) DEF DiskInv, EarnedIn
  <2>5. OwnIn(directory.entry, directory.count)' /\ EarnedIn(directory.entry, directory.count)'
    BY <2>1, <2>3, <2>4, ZenonT(30) DEF OwnIn, EarnedIn
  <2> QED
    BY <1>0, <2>1, <2>2, <2>3, <2>4, <2>5, ZenonT(30) DEF DiskInv
<1> QED
  BY <1>1, <1>2, <1>3, <1>4, <1>5, <1>6, <1>7, <1>8, <1>9, <1>10, <1>11, <1>12, <1>13, <1>14, SMTT(30)
     DEF Next, storage_init_fails, WriteFails, SaveFails


LEMMA DiskInvariant ==
  ASSUME ~DiskFaults
  PROVE  Spec => []DiskInv
<1>1. Init => DiskInv
  BY InitDisk
<1>2. DiskInv /\ [Next]_vars => DiskInv'
  BY DiskStep
<1> QED
  BY <1>1, <1>2, PTL DEF Spec

\* The invariant of the disk gives what is claimed of an object's contents.
LEMMA ContentsHold == DiskInv => DirectoryConsistent /\ OwnData /\ TrustEarned
<1> SUFFICES ASSUME DiskInv
             PROVE  DirectoryConsistent /\ OwnData /\ TrustEarned
  BY SMTT(30)
<1>1. Live = Used(objects, object_count) /\ NamesInv /\ Types
  BY ZenonT(30) DEF Live, Used, DiskInv, NamesInv
<1>2. DirectoryConsistent
  <2> SUFFICES ASSUME phase = "up", op = Idle
               PROVE  directory = [magic |-> TRUE, count |-> object_count, entry |-> objects]
    BY SMTT(30) DEF DirectoryConsistent
  <2>1. InStep /\ object_count # 0
    <3>1. Len(BOOT_NAMES) \in Nat \ {0} /\ object_count \in Nat
      BY <1>1, Constants, SMTT(30), ZenonT(30) DEF Types
    <3>2. object_count >= Len(BOOT_NAMES)
      BY <1>1, ZenonT(30) DEF NamesInv
    <3>3. op.kind # "save" /\ phase # "off"
      BY ZenonT(30) DEF Idle
    <3>4. object_count # 0
      BY <3>1, <3>2, SMTT(30)
    <3> QED  BY <3>3, <3>4, ZenonT(30) DEF DiskInv
  <2> QED  BY <2>1 DEF InStep
<1>3. OwnData
  <2> SUFFICES ASSUME NEW id \in Live, NEW k \in 1 .. Len(Readable(id))
               PROVE  Readable(id)[k] \in own[id] \cup {"zero"}
    BY DEF OwnData
  <2>1. objects[id].size \in 0 .. SECTORS_PER_OBJECT /\ data[id] \in [1 .. SECTORS_PER_OBJECT -> Content \cup {"zero"}]
    BY <1>1, SMTT(30) DEF Types, Table, ObjectRecord, Live, Sectors
  <2>2. \A j \in 1 .. objects[id].size : data[id][j] \in own[id] \cup {"zero"}
    BY <1>1, SMTT(30), ZenonT(30) DEF DiskInv, OwnIn
  <2>3. CASE objects[id].trust = "REJECTED"
    <3>1. Readable(id) = << >>
      BY <2>3 DEF Readable
    <3>2. Len(Readable(id)) = 0
      BY <3>1
    <3> HIDE DEF Readable
    <3> QED  BY <3>2, SMTT(30)
  <2>4. CASE objects[id].trust # "REJECTED"
    <3>1. Readable(id) = SubSeq(data[id], 1, objects[id].size)
      BY <2>4, ZenonT(30) DEF Readable
    <3>2. data[id] \in Seq(Content \cup {"zero"}) /\ Len(data[id]) = SECTORS_PER_OBJECT
      BY <2>1, Constants
    <3>3. /\ Len(Readable(id)) = objects[id].size
          /\ \A j \in 1 .. objects[id].size : Readable(id)[j] = data[id][j]
      BY <2>1, <3>1, <3>2, Constants
    <3> QED  BY <2>2, <3>3
  <2> QED  BY <2>3, <2>4
<1>4. TrustEarned
  <2> SUFFICES ASSUME op = Idle, NEW id \in Live \ cut, objects[id].trust \in High
               PROVE  Readable(id) = judged[id]
    BY DEF TrustEarned, Deserved, High
  <2>1. Written = {} /\ objects[id].trust # "REJECTED"
    BY DEF Written, Idle, High
  <2> QED  BY <1>1, <2>1 DEF DiskInv, EarnedIn, Readable
<1> QED  BY <1>2, <1>3, <1>4

\* On a disk that does not fail, wherever the machine stops, a call that has
\* returned is on the disk: the next boot reads the table it left.
THEOREM DirectoryKept ==
  ASSUME ~DiskFaults
  PROVE  Spec => []DirectoryConsistent
BY ContentsHold, DiskInvariant, PTL

\* On such a disk an object shows only what was written to it since its creation,
\* never what a deleted object left in the sectors it took over.
THEOREM ContentsOwn ==
  ASSUME ~DiskFaults
  PROVE  Spec => []OwnData
BY ContentsHold, DiskInvariant, PTL

\* On such a disk a trust level above UNTRUSTED is about the present contents,
\* unless the write of them was cut short.
THEOREM TrustIsOfContents ==
  ASSUME ~DiskFaults
  PROVE  Spec => []TrustEarned
BY ContentsHold, DiskInvariant, PTL

-----------------------------------------------------------------------------
\* The refinement.  A call changes memory first; what it has yet to save is a step
\* that Namespace allows from what a restart would recover.
View(table, count) ==
  [id \in Id |-> IF id < count /\ table[id].in_use THEN table[id] ELSE [in_use |-> FALSE]]
TakenIn(v, name) == \E i \in Id : v[i].in_use /\ v[i].name = name
StepFrom(v, w, i) ==
  \/ \E name \in StoredName :
       /\ ~v[i].in_use /\ ~TakenIn(v, name)
       /\ w = [v EXCEPT ![i] =
            [in_use |-> TRUE, name |-> name, size |-> 0, trust |-> "UNTRUSTED"]]
  \/ \E name \in StoredName :
       /\ v[i].in_use /\ ~TakenIn(v, name)
       /\ w = [v EXCEPT ![i].name = name]
  \/ v[i].in_use /\ w = [v EXCEPT ![i] = [in_use |-> FALSE]]
  \/ v[i].in_use /\ \E size \in 0 .. SECTORS_PER_OBJECT :
       w = [v EXCEPT ![i].size = size, ![i].trust = "UNTRUSTED"]
  \/ /\ v[i].in_use /\ v[i].trust \in {"UNTRUSTED", "QUARANTINED", "ANALYZED"}
     /\ w = [v EXCEPT ![i].trust = NextTrust(v[i].trust)]
  \/ v[i].in_use /\ w = [v EXCEPT ![i].trust = "REJECTED"]
StepTo(v, w) == w = v \/ \E i \in Id : StepFrom(v, w, i)

RefInv ==
  /\ DiskInv
  /\ op.kind = "save" => StepTo(Recovered, View(objects, object_count))

LEMMA StepIsAllowed ==
  ASSUME StepTo(Recovered, Recovered')
  PROVE  [Durable!Next]_Recovered
<1>1. CASE Recovered' = Recovered
  BY <1>1, SMTT(30)
<1>2. ASSUME NEW i \in Id, StepFrom(Recovered, Recovered', i)
      PROVE  Durable!Next
  <2>1. i \in Durable!Live <=> Recovered[i].in_use
    BY DEF Durable!Live
  <2>2. \A name : Durable!Taken(name) <=> TakenIn(Recovered, name)
    BY SMTT(30) DEF Durable!Taken, Durable!Live, TakenIn
  <2>3. i \in DOMAIN Recovered
    BY SMTT(30) DEF Recovered
  <2> QED
    BY <1>2, <2>1, <2>2, <2>3, ZenonT(30) DEF StepFrom, Durable!Next, Durable!Create, Durable!Rename, Durable!Delete,
       Durable!Replace, Durable!Promote, Durable!Reject, Durable!NextTrust, NextTrust, Durable!Free
<1> QED
  BY <1>1, <1>2 DEF StepTo

\* Between calls a restart recovers what is in memory.
LEMMA RecoveredIsView ==
  ASSUME DiskInv, phase # "off", op.kind # "save"
  PROVE  /\ Recovered = View(objects, object_count)
         /\ \A id \in Live : Recovered[id] = objects[id] /\ Recovered[id].in_use
         /\ \A id \in Id \ Live : ~Recovered[id].in_use
<1>1. \A id \in Id : id < directory.count /\ directory.entry[id].in_use <=> id \in Live
  BY InStepFacts, SMTT(30) DEF Used
<1>2. \A id \in Id : Recovered[id] = IF id \in Live THEN objects[id] ELSE [in_use |-> FALSE]
  BY <1>1, InStepFacts DEF Recovered
<1>3. \A id \in Id : View(objects, object_count)[id] = IF id \in Live THEN objects[id] ELSE [in_use |-> FALSE]
  BY SMTT(30) DEF View, Live
<1>4. Recovered = View(objects, object_count)
  BY <1>2, <1>3 DEF Recovered, View
<1>5. \A id \in Live : id \in Id /\ objects[id].in_use
  BY DEF Live
<1> QED
  BY <1>2, <1>4, <1>5, SMTT(30)

\* One entry of the table is one entry of what it shows.
LEMMA ViewEdit ==
  ASSUME DiskInv, phase # "off", op.kind # "save", NEW id \in Live, NEW o,
         objects' = [objects EXCEPT ![id] = o], object_count' = object_count
  PROVE  View(objects', object_count') =
           [Recovered EXCEPT ![id] = IF o.in_use THEN o ELSE [in_use |-> FALSE]]
<1>1. objects \in [Id -> ObjectRecord] /\ id \in Id /\ id < object_count
  BY DEF DiskInv, NamesInv, Types, Table, Live
<1>2. Recovered = View(objects, object_count)
  BY RecoveredIsView
<1> QED
  BY <1>1, <1>2, ZenonT(30) DEF View

LEMMA AllocAllowed ==
  ASSUME DiskInv, phase # "off", op = Idle, NEW name \in Name, Stored[name] = name,
         ~Taken(name), alloc_object(name)
  PROVE  StepTo(Recovered, View(objects', object_count'))
<1> DEFINE f == FirstFree
           o == [in_use |-> TRUE, name |-> name, size |-> 0, trust |-> "UNTRUSTED"]
<1>0. NamesInv /\ op.kind # "save" /\ name \in StoredName
  BY DEF DiskInv, Idle, StoredName
<1>1. f \in Id /\ f <= object_count /\ f \notin Live
  BY <1>0, FirstFreeFacts, SMTT(30) DEF alloc_object
<1>2. /\ objects' = [objects EXCEPT ![f] = o]
      /\ object_count' = IF f = object_count THEN object_count + 1 ELSE object_count
  BY DEF alloc_object
<1> HIDE DEF f
<1>3. objects \in [Id -> ObjectRecord] /\ object_count \in 0 .. MAX_OBJECTS
  BY <1>0, SMTT(30) DEF NamesInv, Types, Table
<1>4. \A id \in Id : View(objects', object_count')[id] = IF id = f THEN o ELSE View(objects, object_count)[id]
  <2> DEFINE u == objects'
             n == object_count'
  <2> SUFFICES ASSUME NEW id \in Id
               PROVE  View(u, n)[id] = IF id = f THEN o ELSE View(objects, object_count)[id]
    BY ZenonT(30)
  <2>0. id \in Nat /\ f \in Nat /\ object_count \in Nat
    BY <1>1, <1>3, Constants, SMTT(30) DEF Id
  <2>1. u[f] = o /\ (id # f => u[id] = objects[id])
    BY <1>1, <1>2, <1>3, ZenonT(30)
  <2>2. f < n /\ (id # f => (id < n <=> id < object_count))
    <3> HIDE DEF n
    <3>1. n = IF f = object_count THEN object_count + 1 ELSE object_count
      BY <1>2 DEF n
    <3>2. f <= object_count
      BY <1>1
    <3>3. CASE f = object_count
      <4>1. id # f => id # object_count
        BY <3>3
      <4> QED  BY <2>0, <3>1, <3>3, <4>1, SMTT(30)
    <3>4. CASE f # object_count
      BY <2>0, <3>1, <3>2, <3>4, SMTT(30)
    <3> QED  BY <3>3, <3>4
  <2> HIDE DEF u, n
  <2>3. View(u, n)[id] = IF id < n /\ u[id].in_use THEN u[id] ELSE [in_use |-> FALSE]
    BY ZenonT(30) DEF View
  <2>4. View(objects, object_count)[id] =
          IF id < object_count /\ objects[id].in_use THEN objects[id] ELSE [in_use |-> FALSE]
    BY ZenonT(30) DEF View
  <2>5. o.in_use
    BY SMTT(30), ZenonT(30)
  <2> QED  BY <2>1, <2>2, <2>3, <2>4, <2>5, ZenonT(30)
<1>5. View(objects', object_count') = [View(objects, object_count) EXCEPT ![f] = o]
  BY <1>1, <1>4, ZenonT(30) DEF View
<1>6. /\ Recovered = View(objects, object_count) /\ ~Recovered[f].in_use
      /\ ~TakenIn(Recovered, name)
  BY <1>0, <1>1, RecoveredIsView DEF TakenIn, Taken, Matches, name_eq
<1>7. StepFrom(Recovered, View(objects', object_count'), f)
  BY <1>0, <1>5, <1>6, ZenonT(30) DEF StepFrom
<1> QED
  BY <1>1, <1>7 DEF StepTo

LEMMA RefStep ==
  ASSUME ~DiskFaults, \A n \in Name : Stored[n] = n, RefInv, [Next]_vars
  PROVE  RefInv' /\ [Durable!Next]_Recovered
<1> USE DEF memory, disk, history
<1>0. DiskInv /\ NamesInv /\ Types /\ DiskInv'
  BY DiskStep, ZenonT(30) DEF RefInv, DiskInv, NamesInv
<1>1. CASE directory_save
  <2>1. /\ directory' = [magic |-> TRUE, count |-> object_count, entry |-> objects]
        /\ op.kind = "save" /\ op'.kind = "idle"
    BY <1>1, SMTT(30) DEF directory_save, Idle
  <2>2. Recovered' = View(objects, object_count)
    BY <2>1, SMTT(30) DEF Recovered, View
  <2> QED
    BY <1>0, <2>1, <2>2, StepIsAllowed, ZenonT(30) DEF RefInv
<1>2. ASSUME ~directory_save PROVE directory' = directory
  BY <1>2, SMTT(30) DEF Next, vars, storage_init, storage_init_fails, storage_create_object, SeedHello, Crash,
     storage_create_named, storage_rename, storage_delete, storage_write, storage_promote,
     storage_reject, WriteSector, FinishWrite, WriteFails, SaveFails
<1>3. ASSUME directory' = directory
      PROVE  Recovered' = Recovered /\ [Durable!Next]_Recovered
  BY <1>3, SMTT(30) DEF Recovered
<1>4. SUFFICES ASSUME directory' = directory, op'.kind = "save"
               PROVE  StepTo(Recovered, View(objects', object_count'))
  BY <1>0, <1>1, <1>2, <1>3, SMTT(30) DEF RefInv
<1>a. ASSUME NEW id \in Live
      PROVE  id \in Id /\ objects[id] \in ObjectRecord /\ objects \in Table /\ objects[id].in_use
  BY <1>0, SMTT(30) DEF Types, Table, Live
<1>b. ASSUME phase # "off", op.kind # "save", NEW id \in Live, NEW o,
             objects' = [objects EXCEPT ![id] = o], object_count' = object_count
      PROVE  /\ Recovered[id] = objects[id] /\ Recovered[id].in_use /\ id \in Id
             /\ View(objects', object_count') =
                  [Recovered EXCEPT ![id] = IF o.in_use THEN o ELSE [in_use |-> FALSE]]
  BY <1>0, <1>a, <1>b, ViewEdit, RecoveredIsView, ZenonT(30)
<1>5. CASE UNCHANGED vars
  BY <1>4, <1>5 DEF vars, RefInv
<1>6. CASE storage_create_object
  <2>1. op = Idle /\ phase # "off"
    BY <1>6 DEF storage_create_object
  <2>2. alloc_object(BOOT_NAMES[boot]) /\ ~Taken(BOOT_NAMES[boot])
    BY <1>4, <1>6, <2>1 DEF storage_create_object, Idle
  <2>3. BOOT_NAMES[boot] \in Name /\ Stored[BOOT_NAMES[boot]] = BOOT_NAMES[boot]
    BY <1>0, <1>6, Constants DEF storage_create_object, Types
  <2> QED  BY <1>0, <2>1, <2>2, <2>3, AllocAllowed, Zenon
<1>7. ASSUME NEW name \in Name, storage_create_named(name)
      PROVE  StepTo(Recovered, View(objects', object_count'))
  <2>1. op = Idle /\ phase # "off" /\ alloc_object(name) /\ ~Taken(name) /\ Stored[name] = name
    BY <1>7, SMTT(30) DEF storage_create_named, Call
  <2> QED  BY <1>0, <2>1, AllocAllowed, Zenon
<1>8. ASSUME NEW id \in Id, NEW name \in Name, storage_rename(id, name)
      PROVE  StepTo(Recovered, View(objects', object_count'))
  <2> DEFINE o == [objects[id] EXCEPT !.name = name]
  <2>1. /\ op.kind # "save" /\ phase # "off" /\ id \in Live /\ object_count' = object_count
        /\ RenameAllowed(id, name) /\ name \in StoredName
        /\ objects' = [objects EXCEPT ![id].name = name]
    BY <1>8, ZenonT(30) DEF storage_rename, Call, Idle, StoredName
  <2>2. objects' = [objects EXCEPT ![id] = o] /\ o.in_use
    BY <2>1, <1>a DEF Table, ObjectRecord
  <2>3. /\ View(objects', object_count') = [Recovered EXCEPT ![id] = o]
        /\ Recovered[id] = objects[id] /\ Recovered[id].in_use
    <3> HIDE DEF o
    <3> QED  BY <2>1, <2>2, <1>b, ZenonT(30)
  <2>4. View(objects', object_count') = [Recovered EXCEPT ![id].name = name]
    BY <2>3, ZenonT(30) DEF Recovered
  <2>5. CASE Taken(name)
    <3>1. objects[id].name = name
      BY <1>0, <2>1, <2>5, FoundFacts DEF RenameAllowed
    <3>2. o = objects[id]
      BY <2>1, <3>1, <1>a DEF ObjectRecord
    <3>3. View(objects', object_count') = Recovered
      BY <2>3, <3>2 DEF Recovered
    <3> QED  BY <3>3 DEF StepTo
  <2>6. CASE ~Taken(name)
    <3>1. ~TakenIn(Recovered, name)
      BY <1>0, <2>1, <2>6, RecoveredIsView DEF TakenIn, Taken, Matches, name_eq
    <3> QED  BY <2>1, <2>3, <2>4, <3>1, ZenonT(30) DEF StepTo, StepFrom
  <2> QED  BY <2>5, <2>6
<1>9. ASSUME NEW id \in Id, storage_delete(id)
      PROVE  StepTo(Recovered, View(objects', object_count'))
  <2>1. /\ op.kind # "save" /\ phase # "off" /\ id \in Live /\ object_count' = object_count
        /\ objects' = [objects EXCEPT ![id] = FreeObject] /\ ~FreeObject.in_use
    BY <1>9 DEF storage_delete, Call, Idle, FreeObject
  <2>2. /\ View(objects', object_count') = [Recovered EXCEPT ![id] = [in_use |-> FALSE]]
        /\ Recovered[id].in_use
    BY <2>1, <1>b, ZenonT(30)
  <2> QED  BY <2>2, ZenonT(30) DEF StepTo, StepFrom
<1>10. ASSUME NEW id \in Id, storage_promote(id)
       PROVE  StepTo(Recovered, View(objects', object_count'))
  <2> DEFINE o == [objects[id] EXCEPT !.trust = NextTrust(objects[id].trust)]
  <2>1. /\ op.kind # "save" /\ phase # "off" /\ id \in Live /\ object_count' = object_count
        /\ objects[id].trust \notin {"TRUSTED", "REJECTED"}
        /\ objects' = [objects EXCEPT ![id].trust = NextTrust(@)]
    BY <1>10 DEF storage_promote, Call, Idle
  <2>2. /\ objects' = [objects EXCEPT ![id] = o] /\ o.in_use
        /\ objects[id].trust \in {"UNTRUSTED", "QUARANTINED", "ANALYZED"}
    BY <2>1, <1>a DEF Table, ObjectRecord, Trust
  <2>3. /\ View(objects', object_count') = [Recovered EXCEPT ![id] = o]
        /\ Recovered[id] = objects[id] /\ Recovered[id].in_use
    <3> HIDE DEF o
    <3> QED  BY <2>1, <2>2, <1>b, ZenonT(30)
  <2>4. View(objects', object_count') = [Recovered EXCEPT ![id].trust = NextTrust(Recovered[id].trust)]
    BY <2>3, ZenonT(30) DEF Recovered
  <2> QED  BY <2>2, <2>3, <2>4, ZenonT(30) DEF StepTo, StepFrom
<1>11. ASSUME NEW id \in Id, storage_reject(id)
       PROVE  StepTo(Recovered, View(objects', object_count'))
  <2> DEFINE o == [objects[id] EXCEPT !.trust = "REJECTED"]
  <2>1. /\ op.kind # "save" /\ phase # "off" /\ id \in Live /\ object_count' = object_count
        /\ objects' = [objects EXCEPT ![id].trust = "REJECTED"]
    BY <1>11 DEF storage_reject, Call, Idle
  <2>2. objects' = [objects EXCEPT ![id] = o] /\ o.in_use
    BY <2>1, <1>a DEF Table, ObjectRecord
  <2>3. /\ View(objects', object_count') = [Recovered EXCEPT ![id] = o]
        /\ Recovered[id] = objects[id] /\ Recovered[id].in_use
    <3> HIDE DEF o
    <3> QED  BY <2>1, <2>2, <1>b, ZenonT(30)
  <2>4. View(objects', object_count') = [Recovered EXCEPT ![id].trust = "REJECTED"]
    BY <2>3, ZenonT(30) DEF Recovered
  <2> QED  BY <2>3, <2>4, ZenonT(30) DEF StepTo, StepFrom
<1>12. CASE FinishWrite
  <2>1. op.kind = "data" /\ op \in [kind : {"data"}, id : Id, content : Content, done : 0 .. SECTORS_PER_OBJECT]
    BY <1>0, <1>12 DEF FinishWrite, Types, Op, Idle
  <2>2. PICK id \in Id, n \in 0 .. SECTORS_PER_OBJECT : id = op.id /\ n = Length[op.content]
    BY <2>1, Constants
  <2> DEFINE o == [objects[id] EXCEPT !.size = n, !.trust = "UNTRUSTED"]
  <2>3. /\ op.kind # "save" /\ phase # "off" /\ id \in Live /\ object_count' = object_count
        /\ objects' = [objects EXCEPT ![id].size = n, ![id].trust = "UNTRUSTED"]
    BY <1>0, <1>12, <2>1, <2>2 DEF FinishWrite, DiskInv, NamesInv, Idle
  <2>4. objects' = [objects EXCEPT ![id] = o] /\ o.in_use
    BY <2>3, <1>a, ZenonT(30) DEF Table, ObjectRecord
  <2>5. /\ View(objects', object_count') = [Recovered EXCEPT ![id] = o]
        /\ Recovered[id] = objects[id] /\ Recovered[id].in_use
    <3> HIDE DEF o
    <3> QED  BY <2>3, <2>4, <1>b, ZenonT(30)
  <2>6. View(objects', object_count') = [Recovered EXCEPT ![id].size = n, ![id].trust = "UNTRUSTED"]
    BY <2>5, ZenonT(30) DEF Recovered
  <2> QED  BY <2>5, <2>6, ZenonT(30) DEF StepTo, StepFrom
<1>13. CASE storage_init \/ SeedHello \/ Crash \/ WriteSector
  <2>1. op'.kind # "save"
    BY <1>0, <1>13 DEF storage_init, SeedHello, StartWrite, WriteData, Crash, WriteSector, NamesInv, Idle, Types, Op
  <2> QED  BY <1>4, <2>1
<1>14. ASSUME NEW id \in Id, NEW content \in Content, storage_write(id, content)
       PROVE  op'.kind # "save"
  BY <1>14 DEF storage_write, StartWrite, WriteData
<1>15. ~directory_save \/ op'.kind # "save"
  BY DEF directory_save, Idle
<1> QED
  BY <1>4, <1>5, <1>6, <1>7, <1>8, <1>9, <1>10, <1>11, <1>12, <1>13, <1>14, <1>15, ZenonT(30)
     DEF Next, storage_init_fails, WriteFails, SaveFails

\* On a disk that does not fail, and with names that fit into an entry, every call
\* takes effect on what a restart would recover at once or not at all, and as a
\* step of Namespace: the restart may come between any two sectors.
THEOREM StoreImplements ==
  ASSUME ~DiskFaults, \A n \in Name : Stored[n] = n
  PROVE  Spec => Implements
<1>1. Init => RefInv /\ Durable!Init
  <2> SUFFICES ASSUME Init PROVE RefInv /\ Durable!Init
    BY SMTT(30)
  <2>1. DiskInv /\ op.kind # "save"
    BY InitDisk, SMTT(30) DEF Init, Idle
  <2>2. directory.count = 0
    BY SMTT(30) DEF Init, BlankDirectory
  <2>3. \A id \in Id : ~(id < directory.count)
    BY <2>2, Constants DEF Id
  <2>4. Durable!Init
    BY <2>3 DEF Durable!Init, Recovered, Durable!Free
  <2> QED  BY <2>1, <2>4 DEF RefInv
<1>2. RefInv /\ [Next]_vars => RefInv' /\ [Durable!Next]_Recovered
  BY RefStep
<1> QED
  BY <1>1, <1>2, PTL DEF Spec, Implements, Durable!Spec
=============================================================================
