---------------------------- MODULE MCStructures ----------------------------
(***************************************************************************)
(* The data structures of the four programs, model-checked in one run.     *)
(* They share nothing; a behaviour exercises one of them, which part tells *)
(* at its beginning, while the others keep their initial state:            *)
(*   frames   the queue of frames, with searchQueue;                       *)
(*   pcbs     the same queue as ready and wait queue, without it;          *)
(*   heap     the ready heap, five processes and bursts 1..3: three levels *)
(*            of the tree, a node with one child, equal keys;              *)
(*   strings  the list of strings, removals at the head only;              *)
(*   names    the tree of names: names of one and two characters, the      *)
(*            capital one with a negative code, in a table so small that   *)
(*            two of them have the same hash.                              *)
(* The calls of a structure come in any order.                             *)
(***************************************************************************)
EXTENDS LinkedQueue

CONSTANTS ls, cd, NOTFOUND

VARIABLES
  part,
  array, returned,                                         \* ReadyHeap
  node, used, first, last, size, got, listStatus,          \* StringList
  pair, left, right, found, treeStatus                     \* NameTree

heapVars == <<array, returned>>
listVars == <<node, used, first, last, size, got, listStatus>>
treeVars == <<pair, left, right, found, treeStatus>>

MCNames == {<<1>>, <<3>>, <<26>>, <<-31>>, <<2, 1>>}

Pcbs == INSTANCE LinkedQueue WITH WithSearch <- FALSE

Ready == INSTANCE ReadyHeap WITH MAX_PROCESS <- 5, MaxLimit <- 3, NULL <- NIL, heap <- array

Strings ==
  INSTANCE StringList
  WITH Data <- {ls, cd}, Nodes <- 3, Indices <- {0}, NULL <- NIL,
       head <- first, tail <- last, status <- listStatus

Tree ==
  INSTANCE NameTree
  WITH Names <- MCNames, Inodes <- {1, 2}, TABLE_SIZE <- 23, WORD <- 1024, status <- treeStatus

MCInit ==
  /\ part \in {"frames", "pcbs", "heap", "strings", "names"}
  /\ Init
  /\ Ready!HeapInit
  /\ Strings!Init
  /\ Tree!Init

MCFrames == part = "frames" /\ Next /\ UNCHANGED <<part, heapVars, listVars, treeVars>>
MCPcbs == part = "pcbs" /\ Pcbs!Next /\ UNCHANGED <<part, heapVars, listVars, treeVars>>
MCHeap == part = "heap" /\ Ready!HeapNext /\ UNCHANGED <<part, vars, listVars, treeVars>>
MCStrings == part = "strings" /\ Strings!Next /\ UNCHANGED <<part, vars, heapVars, treeVars>>
MCTree == part = "names" /\ Tree!Next /\ UNCHANGED <<part, vars, heapVars, listVars>>

MCNext == MCFrames \/ MCPcbs \/ MCHeap \/ MCStrings \/ MCTree

MCSpec == MCInit /\ [][MCNext]_<<part, vars, heapVars, listVars, treeVars>>

-----------------------------------------------------------------------------
(* Properties *)

\* Without searchQueue the ready and the wait queue of queue.c keep every PCB, and
\* their counters are right.
PcbsKept == part = "pcbs" => NothingLeaked /\ CountIsLength

\* The queues of PCBs keep every PCB; the list of strings reaches no node it has freed,
\* wherever l_remove left the tail; and the array of the heap is a heap again after
\* every insertHeap and deleteHeap (queue.c, list.c, heap.c).
WellFormed ==
  /\ PcbsKept
  /\ Strings!NothingFreedInList
  /\ Ready!HeapTypeOK
  /\ Ready!HeapOrder

\* The array of heap.c is a priority queue.
ImplementsPriorityQueue == Ready!ImplementsPriorityQueue

\* The list of list.c is a sequence.
ImplementsSequence == Strings!ImplementsSequence

\* The tree of hash_set.c is a dictionary.
ImplementsDictionary == Tree!ImplementsDictionary
=============================================================================
