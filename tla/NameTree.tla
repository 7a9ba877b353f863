------------------------------ MODULE NameTree ------------------------------
(***************************************************************************)
(* hash_set.c of src/proj3-file system: names and their inode numbers in a *)
(* binary tree ordered by the hash of the name.  The nodes are numbered as *)
(* they are linked; 0 is NULL.                                             *)
(***************************************************************************)
EXTENDS Integers, SequencesExt

CONSTANTS
  Names,        \* sequences of characters, each its code less that of 'a' plus one
  Inodes,
  TABLE_SIZE,   \* 2147483647
  WORD,         \* 2 ^ the bits of an unsigned long, more than 31 * TABLE_SIZE
  NOTFOUND      \* -1

VARIABLES
  pair,          \* node -> [name, inode, hash]
  left, right,   \* node -> node
  found,         \* the last find_inode: its argument and its result
  status

vars == <<pair, left, right, found, status>>

Nodes == DOMAIN pair

\* hash * 31 + c in an unsigned long: a negative character wraps around.
hash_func(str) ==
  FoldRight(LAMBDA c, hash : ((31 * hash + c) % WORD) % TABLE_SIZE, str, 0)

\* A bug to be caught: hashes are compared the other way round.
Child_reversed(n, hash) == IF hash > pair[n].hash THEN left[n] ELSE right[n]

\* Where the search goes from node n.
Child(n, hash) == IF hash < pair[n].hash THEN left[n] ELSE right[n]

\* The node at which the search for a hash stops: it has the hash, or no child there.
Reached(hash) ==
  LET Walk[n \in Nodes] ==
        IF hash = pair[n].hash \/ Child(n, hash) = 0 THEN n
        ELSE Walk[Child(n, hash)]
  IN  Walk[1]

Init ==
  /\ pair = <<>>
  /\ left = <<>> /\ right = <<>>
  /\ found = <<NOTFOUND, NOTFOUND>>
  /\ status = "running"

\* A bug to be caught: nodes with equal hashes are taken for the same name.
SameName_hash(n, name) == TRUE

\* strcmp finds no difference.
SameName(n, name) == pair[n].name = name

\* A new node is linked where the search for it stops.
Link(name, inode) ==
  /\ pair' = Append(pair, [name |-> name, inode |-> inode, hash |-> hash_func(name)])
  /\ LET n == Len(pair) + 1
         hash == hash_func(name)
         parent == Reached(hash)
         goesLeft == pair # <<>> /\ hash < pair[parent].hash
         goesRight == pair # <<>> /\ ~goesLeft
     IN  /\ left' = Append(IF goesLeft THEN [left EXCEPT ![parent] = n] ELSE left, 0)
         /\ right' = Append(IF goesRight THEN [right EXCEPT ![parent] = n] ELSE right, 0)
  /\ UNCHANGED <<found, status>>

Holds(hash) == pair # <<>> /\ pair[Reached(hash)].hash = hash

\* A name that is there stays with the inode it has.
insert_node(name, inode) ==
  /\ status = "running"
  /\ IF ~Holds(hash_func(name)) THEN Link(name, inode)
     ELSE /\ SameName(Reached(hash_func(name)), name)
          /\ UNCHANGED vars

find_inode(name) ==
  /\ status = "running"
  /\ LET hash == hash_func(name)
     IN  IF ~Holds(hash) THEN found' = <<name, NOTFOUND>>
         ELSE /\ SameName(Reached(hash), name)
              /\ found' = <<name, pair[Reached(hash)].inode>>
  /\ UNCHANGED <<pair, left, right, status>>

\* "HASH COLLISION", in either of the two.
Collision(name) ==
  /\ status = "running"
  /\ Holds(hash_func(name))
  /\ ~SameName(Reached(hash_func(name)), name)
  /\ status' = "exited"
  /\ UNCHANGED <<pair, left, right, found>>

Next ==
  \E name \in Names :
    \/ \E inode \in Inodes : insert_node(name, inode)
    \/ find_inode(name)
    \/ Collision(name)

Spec == Init /\ [][Next]_vars

-----------------------------------------------------------------------------
(* Properties *)

Named == {pair[n].name : n \in Nodes}

Dictionary ==
  INSTANCE NameDictionary
  WITH dict <- [name \in Named |-> pair[CHOOSE n \in Nodes : pair[n].name = name].inode],
       Hash <- hash_func

\* In whatever order names are inserted, and whatever shape the tree takes, each is
\* found with the inode it was first given, no other is found, and a collision is
\* reported only if there is one.
ImplementsDictionary == Dictionary!Spec
=============================================================================
