----------------------------- MODULE MCStorage -----------------------------
(***************************************************************************)
(* Instances of the object store.  "payload" and "hello" are the objects   *)
(* of kernel_main(); "notesA" is longer than 15 characters, the first 15   *)
(* of which are "notes".                                                   *)
(***************************************************************************)
EXTENDS Storage

ShortNames == {"payload", "hello", "notes", "draft"}
LongNames == ShortNames \cup {"notesA"}
StoredLong == [n \in LongNames |-> IF n \in ShortNames THEN n ELSE "notes"]

UserNames == {"hello", "notes", "draft"}
StoredUser == [n \in UserNames |-> n]

OneBootName == <<"hello">>
MCBootNames == <<"payload", "hello">>
MCBootWritable == {0}

\* A content of one sector and one of two.
MCLength == [c \in Content |-> IF c = "long" THEN 2 ELSE 1]
=============================================================================
