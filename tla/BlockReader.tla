---------------------------- MODULE BlockReader ----------------------------
(***************************************************************************)
(* file_system.c of src/proj3-file system: mount, and read_block, which    *)
(* reads a directory into the list of its names and the set of NameTree,   *)
(* or a file into blocks.  The shell that calls them, and that says where  *)
(* the data blocks of the image start and finish, is a submodule that is   *)
(* not in the repository.                                                  *)
(*                                                                         *)
(* The data blocks are a sequence of rows of 16 bytes: the header of a     *)
(* directory entry, [name, inode, len], a row of a NAME, an EMPTY one, or  *)
(* the DATA of a file.  Positions are counted in rows from the first.      *)
(***************************************************************************)
EXTENDS Integers, SequencesExt, FiniteSetsExt

CONSTANTS
  Images,          \* the data blocks there may be
  inode_table,     \* the inodes: [dir, size, blocks]
  BLOCK, ROW,      \* rows in a block, bytes in a row
  FINISH,          \* block_finishing_point
  LIST_MAX,        \* names in file_list: 1000
  Colliding,       \* sets of names with the same hash
  EMPTY, NAME, DATA, STRANGE

ASSUME BlockReaderAssumption ==
  BLOCK \in Nat \ {0} /\ ROW \in Nat \ {0} /\ FINISH \in Nat /\ LIST_MAX \in Nat \ {0}

VARIABLES
  pc,           \* "mount", "ready", "block", "entry", or how the program ended
  image,
  inode,        \* the inode being read
  i,            \* the block of the directory
  pos,          \* position in the image
  file_list,    \* dir_files
  set,          \* the names inserted so far and their inodes
  blocks        \* what was read of a file

vars == <<pc, image, inode, i, pos, file_list, set, blocks>>

Ended == {"exited", "crashed", "corrupt"}

Init ==
  /\ pc = "mount"
  /\ image \in Images
  /\ inode \in inode_table
  /\ i = 0 /\ pos = 0
  /\ file_list = <<>>
  /\ set = <<>>
  /\ blocks = <<>>

\* mount goes on with the file it could not open.
Mount ==
  /\ pc = "mount"
  /\ pc' \in {"ready", "crashed"}
  /\ UNCHANGED <<image, inode, i, pos, file_list, set, blocks>>

-----------------------------------------------------------------------------
(* read_block of a directory: whatever blocks its inode lists, it is read from the *)
(* first data block on.                                                            *)

\* A bug to be caught: < for <= in the loop over the blocks.
LastBlock_short == inode.size \div (BLOCK * ROW) - 1

\* The inode's size says how many blocks; one too many if it fills them.
LastBlock == inode.size \div (BLOCK * ROW)

ReadPoint == i * BLOCK

\* "Read outside partition area"
Outside(point) == point > FINISH

ReadDirectory ==
  /\ pc = "ready"
  /\ inode' \in {n \in inode_table : n.dir}
  /\ file_list' = <<>>
  /\ i' = 0
  /\ pc' = "block"
  /\ UNCHANGED <<image, pos, set, blocks>>

NextBlock ==
  /\ pc = "block"
  /\ i <= LastBlock
  /\ IF Outside(ReadPoint)
     THEN pc' = "exited" /\ UNCHANGED pos
     ELSE pc' = "entry" /\ pos' = ReadPoint
  /\ UNCHANGED <<image, inode, i, file_list, set, blocks>>

DirectoryDone ==
  /\ pc = "block"
  /\ i > LastBlock
  /\ pc' = "ready"
  /\ UNCHANGED <<image, inode, i, pos, file_list, set, blocks>>

AtEntry == pc = "entry" /\ pos < ReadPoint + BLOCK

BlockDone ==
  /\ pc = "entry"
  /\ pos >= ReadPoint + BLOCK
  /\ i' = i + 1
  /\ pc' = "block"
  /\ UNCHANGED <<image, inode, pos, file_list, set, blocks>>

\* A bug to be caught: the row is looked at and not passed.
SkipRow_stay ==
  /\ AtEntry
  /\ pos < Len(image)
  /\ image[pos + 1] = EMPTY
  /\ UNCHANGED vars

\* A row without an entry.
SkipRow ==
  /\ AtEntry
  /\ pos < Len(image)
  /\ image[pos + 1] = EMPTY
  /\ pos' = pos + 1
  /\ UNCHANGED <<pc, image, inode, i, file_list, set, blocks>>

\* At the end of the image nothing is read, the position stays, and the variables
\* have no value: they may be zero, ...
SkipNothing ==
  /\ AtEntry
  /\ pos >= Len(image)
  /\ UNCHANGED vars

\* Bytes that are no header are read as one.
HeaderAt(p) ==
  IF image[p + 1] \in {NAME, DATA} THEN [name |-> STRANGE, inode |-> 1, len |-> 1] ELSE image[p + 1]

\* A bug to be caught: no row for the NUL that ends the name.
NameRows_exact(len) == (len + ROW - 1) \div ROW

\* dentry_name_length, in rows.
NameRows(len) == len \div ROW + 1

\* The list is full: the loop over this block is left, before the insertion.
Break(list) == Len(list) >= LIST_MAX

Collides(name) == \E other \in DOMAIN set : other # name /\ {name, other} \in Colliding

\* A bug to be caught: a name that comes again gets the new inode.
Inserted_last(s, h) ==
  [n \in DOMAIN s \union {h.name} |-> IF n = h.name THEN h.inode ELSE s[n]]

\* insert_node, see NameTree.
Inserted(s, h) ==
  [n \in DOMAIN s \union {h.name} |-> IF n \in DOMAIN s THEN s[n] ELSE h.inode]

\* The entry whose header is h: its name is listed and inserted.
TakeEntry(h) ==
  IF Len(file_list) >= LIST_MAX
  THEN pc' = "corrupt" /\ UNCHANGED <<i, file_list, set>>   \* written past the list
  ELSE /\ file_list' = Append(file_list, h.name)
       /\ IF Break(file_list')
          THEN pc' = "block" /\ i' = i + 1 /\ UNCHANGED set
          ELSE IF Collides(h.name)
               THEN pc' = "exited" /\ UNCHANGED <<i, set>>
               ELSE set' = Inserted(set, h) /\ UNCHANGED <<pc, i>>

ReadEntry ==
  /\ AtEntry
  /\ pos < Len(image)
  /\ image[pos + 1] # EMPTY
  /\ LET h == HeaderAt(pos)
     IN  /\ TakeEntry(h)
         /\ pos' = Min({pos + 1 + NameRows(h.len), Len(image)})
  /\ UNCHANGED <<image, inode, blocks>>

\* ... or what the last entry left there.
ReadNothing ==
  /\ AtEntry
  /\ pos >= Len(image)
  /\ TakeEntry([name |-> STRANGE, inode |-> 1, len |-> 1])
  /\ UNCHANGED <<image, inode, pos, blocks>>

-----------------------------------------------------------------------------
(* read_block of a file *)

\* A bug to be caught: the first block is taken for the first of all.
FirstBlock_zero(n) == 0

FirstBlock(n) == n.blocks[1]

\* As many blocks as the size says, one after the other from the first on.
ReadFile ==
  /\ pc = "ready"
  /\ \E n \in {n \in inode_table : ~n.dir} :
       /\ inode' = n
       /\ LET from == FirstBlock(n) * BLOCK
              rows == (n.size \div (BLOCK * ROW) + 1) * BLOCK
          IN  IF Outside(from)
              THEN pc' = "exited" /\ UNCHANGED <<pos, blocks>>
              ELSE /\ blocks' = SubSeq(image, from + 1, Min({from + rows, Len(image)}))
                   /\ pos' = Min({from + rows, Len(image)})
                   /\ UNCHANGED pc
  /\ UNCHANGED <<image, i, file_list, set>>

Next ==
  \/ Mount
  \/ ReadDirectory \/ NextBlock \/ DirectoryDone \/ BlockDone
  \/ SkipRow \/ SkipNothing \/ ReadEntry \/ ReadNothing
  \/ ReadFile

Spec == Init /\ [][Next]_vars

\* A call, once begun, runs.  At the end of the image it may run without end: nothing
\* in the code forces SkipNothing to give way to ReadNothing, and no fairness does.
Reading == NextBlock \/ DirectoryDone \/ BlockDone \/ SkipRow \/ ReadEntry

FairSpec == Spec /\ WF_vars(Reading)

-----------------------------------------------------------------------------
(* Properties *)

\* The headers in blocks 0..last of the image, in order: where the entries are is
\* not told from the lengths of the names before them.
NamesIn(last) ==
  LET rows == SubSeq(image, 1, Min({(last + 1) * BLOCK, Len(image)}))
      headers == SelectSeq(rows, LAMBDA row : row \notin {EMPTY, NAME, DATA})
  IN  [k \in DOMAIN headers |-> headers[k].name]

JustRead == pc = "block" /\ i > LastBlock

\* The last block the directory's size fills or begins.
LastOfSize == (inode.size + BLOCK * ROW - 1) \div (BLOCK * ROW) - 1

Expected == SubSeq(NamesIn(LastOfSize), 1, Min({Len(NamesIn(LastOfSize)), LIST_MAX}))

\* A directory that was read has every name of its blocks listed once for each
\* entry, in order, as far as the list goes, and no other.  False of one that fills its
\* blocks: another block is read.
AllNamesListed == JustRead => file_list = Expected

\* Whatever is taken for entries behind the directory's blocks or behind the image,
\* the names come first.
NamesListedFirst == JustRead => IsPrefix(Expected, file_list)

\* And each listed name but one that fills the list has been inserted, with the
\* inode of the first entry of that name in the image.
ListedAreInserted ==
  JustRead =>
    \A k \in DOMAIN file_list :
      k < LIST_MAX =>
        /\ file_list[k] \in DOMAIN set
        /\ LET first == CHOOSE p \in DOMAIN image :
                          /\ image[p] \notin {EMPTY, NAME, DATA}
                          /\ image[p].name = file_list[k]
                          /\ \A q \in 1..(p - 1) :
                               image[q] \in {EMPTY, NAME, DATA} \/ image[q].name # file_list[k]
           IN  set[file_list[k]] = image[first].inode

\* Error message: "Read outside partition area": what is read is inside.
ReadsInside == AtEntry => pos < FINISH

Over == pc \in Ended \union {"ready"}

InImage == (LastBlock + 1) * BLOCK <= Len(image)

AtImageEnd == AtEntry /\ pos >= Len(image)

\* A call that stays within the image ends, whatever the rows hold; any other ends or
\* comes to the end of the image, where it may stay for ever (read_block).
ReadEnds ==
  /\ (pc = "block" /\ InImage) ~> Over
  /\ (pc = "block") ~> (Over \/ AtImageEnd)

\* Every call ends.  False: at the end of the image zeros that an earlier row left in
\* the variables of the loop are skipped again and again.
EveryReadEnds == (pc = "block") ~> Over

\* A file that lies in one piece is read as the blocks its inode lists.
FileRead ==
  pc = "ready" /\ ~inode.dir /\ blocks # <<>> =>
    \A k \in DOMAIN inode.blocks :
      SubSeq(blocks, (k - 1) * BLOCK + 1, k * BLOCK) =
      SubSeq(image, inode.blocks[k] * BLOCK + 1, (inode.blocks[k] + 1) * BLOCK)

\* Comment: "need realloc": names go to the list while it has room.
ListHasRoom == pc # "corrupt"
=============================================================================
