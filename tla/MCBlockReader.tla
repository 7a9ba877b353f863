--------------------------- MODULE MCBlockReader ---------------------------
(***************************************************************************)
(* Instances of BlockReader for TLC: blocks of four rows of two bytes; a   *)
(* directory with names of every length from 1 to 3, a name given twice    *)
(* and two names with the same hash; a file of two blocks that lies in one *)
(* piece, or two blocks of zeros.  Two kinds of behaviour, which large     *)
(* tells at the beginning:                                                 *)
(*   small   directories of one or two blocks, the partition ends with the *)
(*           last block's start;                                           *)
(*   large   directories as large as the image, which the partition ends   *)
(*           with: behind it the last block of a directory is read.  With  *)
(*           zeros at the end the list still has room there.               *)
(***************************************************************************)
EXTENDS BlockReader

CONSTANTS a, b, c, d, ListMax   \* room in the list of the large ones

Entry(name, num, len) ==
  <<[name |-> name, inode |-> num, len |-> len]>> \o [k \in 1..(len \div ROW + 1) |-> NAME]

Block(rows) == rows \o [k \in 1..(BLOCK - Len(rows)) |-> EMPTY]

DataBlock == [k \in 1..BLOCK |-> DATA]

MCImages ==
  {Block(first) \o Block(second) \o rest :
     rest \in {DataBlock \o DataBlock, Block(<<>>) \o Block(<<>>)},
     first \in {<<>>, Entry(a, 1, 1), Entry(a, 1, 1) \o Entry(b, 2, 1), Entry(c, 3, 2), Entry(c, 3, 3)},
     second \in {Entry(a, 4, 1), <<EMPTY>> \o Entry(d, 4, 3), Entry(b, 2, 1) \o Entry(d, 5, 1)}}

MCInodes ==
  {[dir |-> TRUE, size |-> 5, blocks |-> <<0>>],
   [dir |-> TRUE, size |-> 12, blocks |-> <<0, 1>>],
   [dir |-> FALSE, size |-> 12, blocks |-> <<1, 2>>],
   [dir |-> FALSE, size |-> 3, blocks |-> <<2>>]}

\* A directory as large as the image, whose size is a multiple of that of a block.
MCLargeInodes ==
  {[dir |-> TRUE, size |-> 16, blocks |-> <<0, 1>>],
   [dir |-> TRUE, size |-> 32, blocks |-> <<0, 1, 2, 3>>]}

MCColliding == {{a, d}}

VARIABLE large

Large == INSTANCE BlockReader WITH inode_table <- MCLargeInodes, FINISH <- 16,
                                   LIST_MAX <- ListMax

MCInit == (large = FALSE /\ Init) \/ (large = TRUE /\ Large!Init)

MCSmallStep(Step) == ~large /\ Step /\ UNCHANGED large
MCLargeStep(Step) == large /\ Step /\ UNCHANGED large

MCNext == MCSmallStep(Next) \/ MCLargeStep(Large!Next)

\* The fairness of BlockReader: none forces a call on at the end of the image.
MCSpec ==
  /\ MCInit /\ [][MCNext]_<<vars, large>>
  /\ WF_<<vars, large>>(MCSmallStep(Reading))
  /\ WF_<<vars, large>>(MCLargeStep(Large!Reading))

-----------------------------------------------------------------------------
(* Properties *)

\* read_block lists all names of a directory, once for each entry and in order, and
\* inserts what it lists; what it takes for entries past the end of a large one comes
\* after the names.  A file is read as the blocks its inode lists.
ReadAsWritten ==
  /\ ~large => AllNamesListed /\ ListedAreInserted /\ FileRead
  /\ large => Large!NamesListedFirst
=============================================================================
