------------------------------ MODULE Storage ------------------------------
(***************************************************************************)
(* The object store, src/src/core/storage.c, on the disk of ata.c, with    *)
(* the capability checks that syscall.c puts in front of it.               *)
(*                                                                         *)
(* A call runs with interrupts off, so no other call comes between its     *)
(* steps; but the machine may stop between any two writes to the disk, and *)
(* a write to the disk may fail after some of its sectors.  A call is      *)
(* therefore a step in memory followed by steps on the disk, `op' being    *)
(* what it still has to write.  A sector is written whole or not at all.   *)
(*                                                                         *)
(* A definition introduced by `Mistake:' is a plausible bug, used only to  *)
(* see that the properties would notice it.                                *)
(***************************************************************************)
EXTENDS Integers, Sequences, FiniteSets

CONSTANTS
  MAX_OBJECTS,          \* 8
  SECTORS_PER_OBJECT,   \* 4
  Name,                 \* the names callers use
  Stored,               \* Stored[name] is its first 15 characters
  Content,              \* the contents callers write
  Length,               \* how many sectors of an object a content fills
  BOOT_NAMES,           \* the objects of kernel_main(), in order
  BootContent,          \* what kernel_main() writes to the last of them
  BootWritable,         \* the objects some actor may write from the start
  Calls,                \* bound: the calls the actors of this instance make
  Crashes, DiskFaults   \* whether the machine may stop, a disk operation fail

Id == 0 .. MAX_OBJECTS - 1
Sectors == 1 .. SECTORS_PER_OBJECT
NoName == ""
StoredName == {Stored[n] : n \in Name}
Trust == {"UNTRUSTED", "QUARANTINED", "ANALYZED", "TRUSTED", "REJECTED"}

ASSUME StorageAssumption ==
  /\ MAX_OBJECTS \in Nat /\ SECTORS_PER_OBJECT \in Nat \ {0}
  /\ NoName \notin Name
  /\ \A n \in StoredName : n \in Name /\ Stored[n] = n
  /\ BOOT_NAMES \in Seq(StoredName) /\ Len(BOOT_NAMES) \in 1 .. MAX_OBJECTS
  /\ \A i, j \in DOMAIN BOOT_NAMES : BOOT_NAMES[i] = BOOT_NAMES[j] => i = j
  /\ BootContent \in Content
  /\ Length \in [Content -> 0 .. SECTORS_PER_OBJECT]
  /\ BootWritable \subseteq Id
  /\ Crashes \in BOOLEAN /\ DiskFaults \in BOOLEAN

VARIABLES
  objects,        \* objects[id]: in_use, name, size_bytes (in sectors), trust
  object_count,
  granted,        \* the objects whose creator holds the four capabilities for them
  directory,      \* the sector at DIRECTORY_LBA
  data,           \* the sectors of each object
  op,             \* what the call in progress has yet to write
  phase,          \* "off", "boot" (in kernel_main()) or "up"
  boot,           \* the next of BOOT_NAMES
  own,            \* history: the contents written to the object since its creation
  judged,         \* history: the object's contents when its promotion began
  cut             \* history: the objects whose last write was cut short
memory == <<objects, object_count, granted>>
disk == <<directory, data>>
history == <<own, judged, cut>>
vars == <<memory, disk, op, phase, boot, history>>

FreeObject == [in_use |-> FALSE, name |-> NoName, size |-> 0, trust |-> "UNTRUSTED"]
BlankDirectory == [magic |-> FALSE, count |-> 0, entry |-> [id \in Id |-> FreeObject]]
Idle == [kind |-> "idle"]

-----------------------------------------------------------------------------
Live == {id \in Id : id < object_count /\ objects[id].in_use}

\* A stored name has lost everything after 15 characters, and is compared with
\* all of the name the caller gives.
name_eq(stored, given) == stored = given
Matches(name) == {id \in Live : name_eq(objects[id].name, name)}
Taken(name) == Matches(name) # {}
find_by_name(name) == CHOOSE id \in Matches(name) : \A j \in Matches(name) : id <= j

\* Mistake: renaming does not look for the new name.
RenameUnchecked(id, new_name) == TRUE

RenameAllowed(id, new_name) == Taken(new_name) => find_by_name(new_name) = id

\* The first dead slot, or a new one.
FreeSlots == {id \in Id : id <= object_count /\ id \notin Live}
FirstFree == CHOOSE id \in FreeSlots : \A j \in FreeSlots : id <= j

\* What the calls still have to do on the disk.
Save(call, id) == [kind |-> "save", call |-> call, id |-> id]
WriteData(id, content) == [kind |-> "data", id |-> id, content |-> content, done |-> 0]

\* Mistake: a new object starts with the size of its sectors.
alloc_object_full_size(name) ==
  /\ FreeSlots # {}
  /\ objects' = [objects EXCEPT ![FirstFree] =
       [in_use |-> TRUE, name |-> Stored[name], size |-> SECTORS_PER_OBJECT,
        trust |-> "UNTRUSTED"]]
  /\ object_count' = IF FirstFree = object_count THEN object_count + 1 ELSE object_count
  /\ own' = [own EXCEPT ![FirstFree] = {}]
  /\ op' = Save("create", FirstFree)

\* The object that the call in progress writes to, or creates.
Written ==
  IF op.kind = "data" \/ (op.kind = "save" /\ op.call = "write") THEN {op.id} ELSE {}
Created == IF op.kind = "save" /\ op.call = "create" THEN {op.id} ELSE {}

\* alloc_object(), as far as memory goes; directory_save() is left.
alloc_object(name) ==
  /\ FreeSlots # {}
  /\ objects' = [objects EXCEPT ![FirstFree] =
       [in_use |-> TRUE, name |-> Stored[name], size |-> 0, trust |-> "UNTRUSTED"]]
  /\ object_count' = IF FirstFree = object_count THEN object_count + 1 ELSE object_count
  /\ own' = [own EXCEPT ![FirstFree] = {}]
  /\ op' = Save("create", FirstFree)

\* storage_write() puts the sectors on the disk before it touches the table.
StartWrite(id, content) ==
  /\ op' = WriteData(id, content)
  /\ own' = [own EXCEPT ![id] = @ \cup {content}]

NextTrust(trust) ==
  CASE trust = "UNTRUSTED" -> "QUARANTINED"
    [] trust = "QUARANTINED" -> "ANALYZED"
    [] trust = "ANALYZED" -> "TRUSTED"

\* What storage_read() gives a caller with room for all of it; a rejected
\* object gives nothing.
Readable(id) ==
  IF objects[id].trust = "REJECTED" THEN << >> ELSE SubSeq(data[id], 1, objects[id].size)

\* directory_load() into the table that storage_init() has cleared.
directory_load ==
  /\ objects' = IF directory.magic THEN directory.entry ELSE [id \in Id |-> FreeObject]
  /\ object_count' = IF directory.magic THEN directory.count ELSE 0

-----------------------------------------------------------------------------
Init ==
  /\ objects = [id \in Id |-> FreeObject]
  /\ object_count = 0
  /\ granted = {}
  /\ directory = BlankDirectory
  /\ data = [id \in Id |-> [k \in Sectors |-> "zero"]]
  /\ op = Idle
  /\ phase = "off"
  /\ boot = 1
  /\ own = [id \in Id |-> {}]
  /\ judged = [id \in Id |-> << >>]
  /\ cut = {}

\* Power on: storage_init().
storage_init ==
  /\ phase = "off"
  /\ phase' = "boot"
  /\ boot' = 1
  /\ directory_load
  /\ UNCHANGED <<granted, disk, op, history>>

\* The read of the directory fails: the namespace starts empty.
storage_init_fails ==
  /\ DiskFaults
  /\ phase = "off"
  /\ phase' = "boot"
  /\ boot' = 1
  /\ objects' = [id \in Id |-> FreeObject]
  /\ object_count' = 0
  /\ UNCHANGED <<granted, disk, op, history>>

\* Mistake: kernel_main() creates its objects on every boot.
storage_create_object_always ==
  /\ phase = "boot" /\ op = Idle
  /\ boot <= Len(BOOT_NAMES)
  /\ boot' = boot + 1
  /\ IF FreeSlots = {}
     THEN UNCHANGED <<objects, object_count, op, own>>
     ELSE alloc_object(BOOT_NAMES[boot])
  /\ UNCHANGED <<granted, disk, phase, judged, cut>>

\* kernel_main() makes sure of its objects, by name, on every boot.
storage_create_object ==
  /\ phase = "boot" /\ op = Idle
  /\ boot <= Len(BOOT_NAMES)
  /\ boot' = boot + 1
  /\ IF Taken(BOOT_NAMES[boot]) \/ FreeSlots = {}
     THEN UNCHANGED <<objects, object_count, op, own>>
     ELSE alloc_object(BOOT_NAMES[boot])
  /\ UNCHANGED <<granted, disk, phase, judged, cut>>

\* It then stores the program hello.bin, whatever the disk already holds.
SeedHello ==
  /\ phase = "boot" /\ op = Idle
  /\ boot > Len(BOOT_NAMES)
  /\ phase' = "up"
  /\ LET hello == BOOT_NAMES[Len(BOOT_NAMES)] IN
     IF Taken(hello) THEN StartWrite(find_by_name(hello), BootContent)
                     ELSE UNCHANGED <<op, own>>
  /\ UNCHANGED <<memory, disk, boot, judged, cut>>

\* The machine stops: what is in memory is lost, and the call with it.
Crash ==
  /\ Crashes
  /\ phase # "off"
  /\ phase' = "off"
  /\ boot' = 1
  /\ op' = Idle
  /\ objects' = [id \in Id |-> FreeObject]
  /\ object_count' = 0
  /\ granted' = {}
  /\ cut' = cut \cup Written
  /\ UNCHANGED <<disk, own, judged>>

-----------------------------------------------------------------------------
\* The system calls.  One that is refused changes nothing.
Call(name) == name \in Calls /\ phase = "up" /\ op = Idle

storage_create_named(name) ==
  /\ Call("create")
  /\ ~Taken(name)
  /\ alloc_object(name)
  /\ granted' = granted \cup {FirstFree}
  /\ UNCHANGED <<disk, phase, boot, judged, cut>>

storage_rename(id, new_name) ==
  /\ Call("rename")
  /\ id \in granted \cap Live
  /\ RenameAllowed(id, new_name)
  /\ objects' = [objects EXCEPT ![id].name = Stored[new_name]]
  /\ op' = Save("rename", id)
  /\ UNCHANGED <<object_count, granted, disk, phase, boot, history>>

\* Mistake: deleting does not ask for the capability.
storage_delete_unchecked(id) ==
  /\ Call("delete")
  /\ id \in Live
  /\ objects' = [objects EXCEPT ![id] = FreeObject]
  /\ op' = Save("delete", id)
  /\ UNCHANGED <<object_count, granted, disk, phase, boot, history>>

\* The sectors keep their contents, and the creator its capabilities.
storage_delete(id) ==
  /\ Call("delete")
  /\ id \in granted \cap Live
  /\ objects' = [objects EXCEPT ![id] = FreeObject]
  /\ op' = Save("delete", id)
  /\ UNCHANGED <<object_count, granted, disk, phase, boot, history>>

storage_write(id, content) ==
  /\ Call("write")
  /\ id \in (granted \cup BootWritable) \cap Live
  /\ StartWrite(id, content)
  /\ UNCHANGED <<memory, disk, phase, boot, judged, cut>>

\* Mistake: the promotion is not saved.
storage_promote_unsaved(id) ==
  /\ Call("promote")
  /\ id \in Live
  /\ objects[id].trust \notin {"TRUSTED", "REJECTED"}
  /\ objects' = [objects EXCEPT ![id].trust = NextTrust(@)]
  /\ UNCHANGED <<object_count, granted, disk, op, phase, boot, history>>

storage_promote(id) ==
  /\ Call("promote")
  /\ id \in Live
  /\ objects[id].trust \notin {"TRUSTED", "REJECTED"}
  /\ objects' = [objects EXCEPT ![id].trust = NextTrust(@)]
  /\ judged' = IF objects[id].trust = "UNTRUSTED"
               THEN [judged EXCEPT ![id] = Readable(id)] ELSE judged
  /\ op' = Save("promote", id)
  /\ UNCHANGED <<object_count, granted, disk, phase, boot, own, cut>>

storage_reject(id) ==
  /\ Call("reject")
  /\ id \in Live
  /\ objects' = [objects EXCEPT ![id].trust = "REJECTED"]
  /\ op' = Save("reject", id)
  /\ UNCHANGED <<object_count, granted, disk, phase, boot, history>>

-----------------------------------------------------------------------------
\* One more sector of the object, with zeros after the end of the content.
WriteSector ==
  /\ op.kind = "data" /\ op.done < SECTORS_PER_OBJECT
  /\ LET k == op.done + 1
     IN  /\ data' = [data EXCEPT ![op.id][k] =
                       IF k <= Length[op.content] THEN op.content ELSE "zero"]
         /\ op' = [op EXCEPT !.done = k]
  /\ UNCHANGED <<memory, directory, phase, boot, history>>

\* Mistake: new contents keep the verdict on the old ones.
FinishWriteKeepsTrust ==
  /\ op.kind = "data" /\ op.done = SECTORS_PER_OBJECT
  /\ objects' = [objects EXCEPT ![op.id].size = Length[op.content]]
  /\ op' = Save("write", op.id)
  /\ UNCHANGED <<object_count, granted, disk, phase, boot, history>>

\* All of them are on the disk: the rest of storage_write().
FinishWrite ==
  /\ op.kind = "data" /\ op.done = SECTORS_PER_OBJECT
  /\ objects' = [objects EXCEPT ![op.id].size = Length[op.content],
                                ![op.id].trust = "UNTRUSTED"]
  /\ op' = Save("write", op.id)
  /\ UNCHANGED <<object_count, granted, disk, phase, boot, history>>

\* hal_disk_write() fails before some sector or at the flush: storage_write()
\* returns -1.
WriteFails ==
  /\ DiskFaults
  /\ op.kind = "data"
  /\ op' = Idle
  /\ cut' = cut \cup Written
  /\ UNCHANGED <<memory, disk, phase, boot, own, judged>>

directory_save ==
  /\ op.kind = "save"
  /\ directory' = [magic |-> TRUE, count |-> object_count, entry |-> objects]
  /\ op' = Idle
  /\ cut' = cut \ (Written \cup Created)
  /\ UNCHANGED <<memory, data, phase, boot, own, judged>>

\* directory_save() does not look at the result of hal_disk_write().
SaveFails ==
  /\ DiskFaults
  /\ op.kind = "save"
  /\ op' = Idle
  /\ cut' = cut \cup Written
  /\ UNCHANGED <<memory, disk, phase, boot, own, judged>>

Next ==
  \/ storage_init \/ storage_init_fails
  \/ storage_create_object \/ SeedHello
  \/ Crash
  \/ \E name \in Name : storage_create_named(name)
  \/ \E id \in Id :
       \/ \E name \in Name : storage_rename(id, name)
       \/ storage_delete(id)
       \/ \E content \in Content : storage_write(id, content)
       \/ storage_promote(id)
       \/ storage_reject(id)
  \/ WriteSector \/ FinishWrite \/ WriteFails
  \/ directory_save \/ SaveFails

Spec == Init /\ [][Next]_vars

-----------------------------------------------------------------------------
\* Two live objects never share a name that fits into its 15 characters, which
\* is what find_by_name() is asked for before every create and rename.  (A longer
\* name is stored cut and compared whole, so its first 15 characters may be
\* taken twice.)
Cut == {Stored[n] : n \in {m \in Name : Stored[m] # m}}
UniqueNames ==
  \A i, j \in Live :
    objects[i].name = objects[j].name => i = j \/ objects[i].name \in Cut

\* The ids that main.c fixes for the objects of kernel_main() are theirs on every
\* boot: nothing created, renamed or deleted before a restart, saved or not,
\* shifts them.
BootIds ==
  phase = "up" => \A k \in 1 .. Len(BOOT_NAMES) :
    /\ k - 1 \in Live
    /\ objects[k - 1].name = BOOT_NAMES[k]

\* Between calls the directory on the disk is the table in memory, so that a
\* restart loses no call that has returned.  directory_save() relies on every
\* mutation ending in it.
DirectoryConsistent ==
  phase = "up" /\ op = Idle =>
    directory = [magic |-> TRUE, count |-> object_count, entry |-> objects]

\* What an object lets its readers see was written to it since it was created:
\* neither a reused slot, nor a call cut short by a restart, shows the sectors
\* that storage_delete() left behind.
OwnData ==
  op = Idle => \A id \in Live :
    \A k \in 1 .. Len(Readable(id)) : Readable(id)[k] \in own[id] \cup {"zero"}

\* An object above UNTRUSTED holds what it held when its promotion began.
Deserved(id) ==
  objects[id].trust \in {"QUARANTINED", "ANALYZED", "TRUSTED"} => Readable(id) = judged[id]

\* A write takes the verdict on the old contents with it ("new content invalidates
\* whatever trust decision applied to the old content" is storage_write()'s
\* contract): only an object whose write was cut short, by a restart or a failing
\* disk, can have a trust level its contents did not earn.
TrustEarned == op = Idle => \A id \in Live \ cut : Deserved(id)

\* The directory that a restart would find.
Recovered ==
  [id \in Id |-> IF id < directory.count /\ directory.entry[id].in_use
                 THEN directory.entry[id] ELSE [in_use |-> FALSE]]

Durable ==
  INSTANCE Namespace WITH Name <- StoredName, Size <- 0 .. SECTORS_PER_OBJECT,
                          dir <- Recovered

\* Every call takes effect on what a restart would recover at once or not at
\* all, and as a step that the namespace allows: trust rises one level at a time,
\* a rejection stands until the contents are replaced, names stay distinct.
Implements == Durable!Spec
=============================================================================
