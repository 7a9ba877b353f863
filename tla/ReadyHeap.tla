------------------------------ MODULE ReadyHeap ------------------------------
(***************************************************************************)
(* The ready heap as a component: insertHeap and deleteHeap called in any  *)
(* order by the SJF scheduler, which never holds more than MAX_PROCESS     *)
(* PCBs, one per process.                                                  *)
(***************************************************************************)
EXTENDS HeapOps

CONSTANTS MAX_PROCESS, \* capacity of the array, and the number of processes
          MaxLimit,    \* bursts are 1..MaxLimit
          NULL

Nodes == [idx : 0..(MAX_PROCESS - 1), cpu_burst : 1..MaxLimit]

VARIABLES heap,     \* h->heap[0 .. h->count - 1]
          returned  \* result of the last call

heapVars == <<heap, returned>>

HeapInit == heap = <<>> /\ returned = NULL

\* A bug to be caught: a process is put into the heap twice.
Insert_twice(node) == heap' = insertHeap(heap, node) /\ returned' = NULL

Insert(node) ==
  /\ \A i \in DOMAIN heap : heap[i].idx # node.idx
  /\ heap' = insertHeap(heap, node)
  /\ returned' = NULL

Delete ==
  /\ heap # <<>>
  /\ heap' = RestOfHeap(heap)
  /\ returned' = get_min(heap)

\* deleteHeap on an empty heap returns the null pointer.
DeleteEmpty ==
  /\ heap = <<>>
  /\ returned' = NULL
  /\ UNCHANGED heap

HeapNext == Delete \/ DeleteEmpty \/ \E node \in Nodes : Insert(node)

HeapSpec == HeapInit /\ [][HeapNext]_heapVars

-----------------------------------------------------------------------------
\* Type invariant; the capacity createHeap allocated is never exceeded.
HeapTypeOK ==
  /\ heap \in Seq(Nodes) /\ Len(heap) <= MAX_PROCESS
  /\ returned \in Nodes \cup {NULL}

\* After every insertHeap and deleteHeap the array is again a heap: the
\* sift-up and the sift-down of heap.c restore the order they disturb.
HeapOrder == HeapOrdered(heap)

\* The array heap implements the priority queue: no insert or delete loses,
\* duplicates or alters a PCB, and a delete returns one with the smallest burst.
Queue == INSTANCE PriorityQueue WITH items <- {heap[i] : i \in DOMAIN heap}
ImplementsPriorityQueue == Queue!PQSpec
=============================================================================
