--------------------------- MODULE NameDictionary ---------------------------
(***************************************************************************)
(* What hash_set.c of src/proj3-file system promises: a dictionary from    *)
(* names to inode numbers in which the first inode given for a name stays, *)
(* and which gives up when two names have the same hash.                   *)
(***************************************************************************)
CONSTANTS Names, Inodes, Hash(_), NOTFOUND

VARIABLES dict, found, status

vars == <<dict, found, status>>

Init == dict = <<>> /\ found = <<NOTFOUND, NOTFOUND>> /\ status = "running"

Collides(name) == \E other \in DOMAIN dict : other # name /\ Hash(other) = Hash(name)

Insert(name, inode) ==
  /\ status = "running"
  /\ ~Collides(name)
  /\ dict' = IF name \in DOMAIN dict THEN dict
             ELSE [n \in DOMAIN dict \union {name} |-> IF n = name THEN inode ELSE dict[n]]
  /\ UNCHANGED <<found, status>>

Find(name) ==
  /\ status = "running"
  /\ ~Collides(name)
  /\ found' = <<name, IF name \in DOMAIN dict THEN dict[name] ELSE NOTFOUND>>
  /\ UNCHANGED <<dict, status>>

GiveUp ==
  /\ status = "running"
  /\ \E name \in Names : Collides(name)
  /\ status' = "exited"
  /\ UNCHANGED <<dict, found>>

Next ==
  \/ \E name \in Names : Find(name) \/ \E inode \in Inodes : Insert(name, inode)
  \/ GiveUp

Spec == Init /\ [][Next]_vars
=============================================================================
