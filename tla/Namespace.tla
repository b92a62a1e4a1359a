----------------------------- MODULE Namespace -----------------------------
(***************************************************************************)
(* What the object store promises to survive a restart: a directory of     *)
(* objects with distinct names, each with a trust level that rises one     *)
(* step at a time until it is final or the contents are replaced.  Every   *)
(* operation happens at once or not at all.                                *)
(***************************************************************************)
EXTENDS Naturals

CONSTANTS Id, Name, Size

Trust == {"UNTRUSTED", "QUARANTINED", "ANALYZED", "TRUSTED", "REJECTED"}

\* The object store keeps what is durable in a directory of entries.
VARIABLE dir

Free == [in_use |-> FALSE]
Live == {i \in Id : dir[i].in_use}
Taken(name) == \E i \in Live : dir[i].name = name

Init == dir = [i \in Id |-> Free]

Create(i, name) ==
  /\ i \notin Live /\ ~Taken(name)
  /\ dir' = [dir EXCEPT ![i] =
       [in_use |-> TRUE, name |-> name, size |-> 0, trust |-> "UNTRUSTED"]]

Rename(i, name) ==
  /\ i \in Live /\ ~Taken(name)
  /\ dir' = [dir EXCEPT ![i].name = name]

Delete(i) ==
  /\ i \in Live
  /\ dir' = [dir EXCEPT ![i] = Free]

Replace(i, size) ==
  /\ i \in Live
  /\ dir' = [dir EXCEPT ![i].size = size, ![i].trust = "UNTRUSTED"]

NextTrust(trust) ==
  CASE trust = "UNTRUSTED" -> "QUARANTINED"
    [] trust = "QUARANTINED" -> "ANALYZED"
    [] trust = "ANALYZED" -> "TRUSTED"

Promote(i) ==
  /\ i \in Live
  /\ dir[i].trust \in {"UNTRUSTED", "QUARANTINED", "ANALYZED"}
  /\ dir' = [dir EXCEPT ![i].trust = NextTrust(@)]

Reject(i) ==
  /\ i \in Live
  /\ dir' = [dir EXCEPT ![i].trust = "REJECTED"]

Next ==
  \E i \in Id :
    \/ \E name \in Name : Create(i, name) \/ Rename(i, name)
    \/ Delete(i)
    \/ \E size \in Size : Replace(i, size)
    \/ Promote(i)
    \/ Reject(i)

Spec == Init /\ [][Next]_dir
=============================================================================
