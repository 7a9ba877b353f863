--------------------------- MODULE ReadyHeapProofs ---------------------------
(***************************************************************************)
(* Proofs about ReadyHeap, for any number of processes and any bursts: the *)
(* array is a heap after every call, never outgrows its capacity, and      *)
(* implements the priority queue.                                          *)
(***************************************************************************)
EXTENDS ReadyHeap, HeapProofs, FiniteSetTheorems

\* One PCB per process, in heap order.
HeapInv ==
  /\ heap \in Seq(Nodes)
  /\ returned \in Nodes \cup {NULL}
  /\ DistinctIdx(heap)
  /\ HeapOrder

LEMMA NodesAreKeyed == Keyed(Nodes)
BY DEF Keyed, Nodes

LEMMA EmptyHeap ==
  ASSUME HeapInit PROVE HeapInv
BY DEF HeapInit, HeapInv, DistinctIdx, HeapOrder, HeapOrdered

LEMMA ElementsOfHeap ==
  ASSUME heap \in Seq(Nodes)
  PROVE  /\ {heap[i] : i \in DOMAIN heap} = Elements(heap)
         /\ \A node : (\A i \in DOMAIN heap : heap[i].idx # node.idx)
                        <=> \A e \in Elements(heap) : e.idx # node.idx
BY DEF Elements

\* Every call keeps the invariant.
LEMMA HeapStep ==
  ASSUME HeapInv, [HeapNext]_heapVars
  PROVE  HeapInv'
<1>1. ASSUME NEW node \in Nodes, Insert(node)
      PROVE  HeapInv'
  <2>1. heap' = insertHeap(heap, node) /\ returned' = NULL
    BY <1>1 DEF Insert
  <2>2. /\ insertHeap(heap, node) \in Seq(Nodes)
        /\ HeapOrdered(insertHeap(heap, node))
    BY NodesAreKeyed, InsertKeepsHeap DEF HeapInv, HeapOrder
  <2>3. \A e \in Elements(heap) : e.idx # node.idx
    BY <1>1, ElementsOfHeap DEF Insert, HeapInv
  <2>4. DistinctIdx(insertHeap(heap, node))
    BY <2>3, NodesAreKeyed, InsertAddsNode DEF HeapInv
  <2> QED
    BY <2>1, <2>2, <2>4 DEF HeapInv, HeapOrder
<1>2. CASE Delete
  <2>1. heap # <<>> /\ heap' = RestOfHeap(heap) /\ returned' = get_min(heap)
    BY <1>2 DEF Delete
  <2>2. RestOfHeap(heap) \in Seq(Nodes) /\ HeapOrdered(RestOfHeap(heap))
    BY <2>1, NodesAreKeyed, DeleteKeepsHeap DEF HeapInv, HeapOrder
  <2>3. DistinctIdx(RestOfHeap(heap)) /\ get_min(heap) \in Elements(heap)
    BY <2>1, NodesAreKeyed, DeleteTakesRoot DEF HeapInv
  <2>4. get_min(heap) \in Nodes
    BY <2>3, ElementsOfSeq DEF HeapInv
  <2> QED
    BY <2>1, <2>2, <2>3, <2>4 DEF HeapInv, HeapOrder
<1>3. CASE DeleteEmpty
  BY <1>3 DEF DeleteEmpty, HeapInv, HeapOrder
<1>4. CASE UNCHANGED heapVars
  BY <1>4 DEF heapVars, HeapInv, HeapOrder
<1> QED
  BY <1>1, <1>2, <1>3, <1>4 DEF HeapNext

LEMMA HeapInvariance == HeapSpec => []HeapInv
BY EmptyHeap, HeapStep, PTL DEF HeapSpec

\* However insertHeap and deleteHeap follow one another, the array is a heap after
\* each (insertHeap, deleteHeap and heapify of heap.c).
THEOREM HeapOrderKept == HeapSpec => []HeapOrder
<1>1. HeapInv => HeapOrder
  BY DEF HeapInv
<1> QED
  BY <1>1, HeapInvariance, PTL

\* Distinct processes are no more than there are.
LEMMA WithinCapacity ==
  ASSUME MAX_PROCESS \in Nat, HeapInv
  PROVE  Len(heap) <= MAX_PROCESS
<1> DEFINE I == 1..Len(heap)
           P == 0..(MAX_PROCESS - 1)
           f == [i \in I |-> heap[i].idx]
<1>1. Len(heap) \in Nat /\ \A i \in I : heap[i] \in Nodes
  BY LenProperties, ElementOfSeq DEF HeapInv
<1>2. f \in [I -> P]
  BY <1>1 DEF Nodes
<1>3. /\ IsFiniteSet(I) /\ Cardinality(I) = Len(heap)
      /\ IsFiniteSet(P) /\ Cardinality(P) = MAX_PROCESS
  <2>1. /\ IsFiniteSet(I)
        /\ Cardinality(I) = IF 1 > Len(heap) THEN 0 ELSE Len(heap) - 1 + 1
    BY <1>1, FS_Interval
  <2>2. /\ IsFiniteSet(P)
        /\ Cardinality(P) = IF 0 > MAX_PROCESS - 1 THEN 0 ELSE (MAX_PROCESS - 1) - 0 + 1
    BY FS_Interval
  <2> HIDE DEF I, P
  <2> QED
    BY <1>1, <2>1, <2>2
<1>4. ASSUME Len(heap) > MAX_PROCESS
      PROVE  \E x, y \in I : x # y /\ f[x] = f[y]
  <2>1. Cardinality(P) < Cardinality(I)
    BY <1>1, <1>3, <1>4
  <2> HIDE DEF I, P, f
  <2> QED
    BY <1>2, <1>3, <2>1, FS_PigeonHole
<1>5. \A x, y \in I : f[x] = f[y] => x = y
  BY DEF HeapInv, DistinctIdx
<1> QED
  BY <1>1, <1>4, <1>5

\* The array createHeap allocates is large enough for the PCBs of all processes.
THEOREM HeapTypeCorrect ==
  ASSUME MAX_PROCESS \in Nat
  PROVE  HeapSpec => []HeapTypeOK
<1>1. HeapInv => HeapTypeOK
  BY WithinCapacity DEF HeapInv, HeapTypeOK
<1> QED
  BY <1>1, HeapInvariance, PTL

-----------------------------------------------------------------------------
(* Refinement *)

\* insertHeap inserts.
LEMMA InsertStep ==
  ASSUME HeapInv, NEW node \in Nodes, Insert(node)
  PROVE  Queue!Insert(node)
<1>1. heap' = insertHeap(heap, node) /\ returned' = NULL
  BY DEF Insert
<1>2. Elements(heap') = Elements(heap) \cup {node}
  BY <1>1, NodesAreKeyed, InsertAddsNode DEF HeapInv
<1>3. node \notin Elements(heap)
  BY ElementsOfHeap DEF HeapInv, Insert
<1> QED
  BY <1>1, <1>2, <1>3 DEF Queue!Insert, Elements

\* deleteHeap takes a node with the smallest burst.
LEMMA DeleteStep ==
  ASSUME HeapInv, Delete
  PROVE  Queue!DeleteMin
<1>1. heap # <<>> /\ heap' = RestOfHeap(heap) /\ returned' = get_min(heap)
  BY DEF Delete
<1>2. Elements(heap') = Elements(heap) \ {get_min(heap)} /\ get_min(heap) \in Elements(heap)
  BY <1>1, NodesAreKeyed, DeleteTakesRoot DEF HeapInv
<1>3. ASSUME NEW other \in Elements(heap)
      PROVE  get_min(heap).cpu_burst <= other.cpu_burst
  <2>1. PICK k \in 1..Len(heap) : other = heap[k]
    BY ElementsOfSeq DEF HeapInv
  <2>2. Key(heap, 1) <= Key(heap, k)
    BY NodesAreKeyed, RootIsSmallest DEF HeapInv, HeapOrder
  <2> QED
    BY <2>1, <2>2 DEF Key, get_min
<1> QED
  BY <1>1, <1>2, <1>3 DEF Queue!DeleteMin, Elements

LEMMA QueueStep ==
  ASSUME HeapInv, [HeapNext]_heapVars
  PROVE  [Queue!PQNext]_(Queue!pqVars)
<1>1. ASSUME NEW node \in Nodes, Insert(node)
      PROVE  Queue!PQNext
  BY <1>1, InsertStep DEF Queue!PQNext
<1>2. CASE Delete
  BY <1>2, DeleteStep DEF Queue!PQNext
<1>3. CASE DeleteEmpty
  BY <1>3 DEF DeleteEmpty, Queue!DeleteEmpty, Queue!PQNext
<1>4. CASE UNCHANGED heapVars
  BY <1>4 DEF heapVars, Queue!pqVars
<1> QED
  BY <1>1, <1>2, <1>3, <1>4 DEF HeapNext

\* The array heap of heap.c implements the priority queue: nothing is lost,
\* duplicated or altered, and deleteHeap returns a PCB with the smallest burst.
THEOREM HeapIsPriorityQueue == HeapSpec => ImplementsPriorityQueue
<1>1. HeapInit => Queue!PQInit
  BY DEF HeapInit, Queue!PQInit
<1> QED
  BY <1>1, QueueStep, HeapInvariance, PTL DEF HeapSpec, ImplementsPriorityQueue, Queue!PQSpec
=============================================================================
