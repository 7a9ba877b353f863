------------------------------- MODULE HeapOps -------------------------------
(***************************************************************************)
(* The array heap of src/proj1-scheduling/scheduler/heap.c (the copy under *)
(* src/proj2-virtual memory is the same file).  A heap is a sequence of    *)
(* PCB records; position i of the sequence is element i-1 of the C array,  *)
(* so the children of i are 2*i and 2*i+1 and its parent is i \div 2.      *)
(*                                                                         *)
(* The while loop of insertHeap and the tail recursion of heapify are      *)
(* recursive functions of the array and the position they have reached.    *)
(***************************************************************************)
EXTENDS Naturals, Sequences

Elements(heap) == {heap[i] : i \in DOMAIN heap}

parent(i) == i \div 2
left_child(i) == 2 * i
right_child(i) == 2 * i + 1

Swap(heap, i, j) == [heap EXCEPT ![i] = heap[j], ![j] = heap[i]]

\* The condition of the while loop of insertHeap.
SmallerThanParent(heap, cur) ==
  cur > 1 /\ heap[parent(cur)].cpu_burst > heap[cur].cpu_burst

\* A bug to be caught: an if in place of the while, one exchange at most.
Insert_once(heap, node) ==
  LET h == Append(heap, node)
      n == Len(h)
  IN  IF SmallerThanParent(h, n) THEN Swap(h, parent(n), n) ELSE h

\* The while loop of insertHeap: the element at cur rises.
Risen(S) ==
  LET rise[at \in {x \in Seq(S) \X Nat : x[2] \in DOMAIN x[1]}] ==
        LET h == at[1]
            cur == at[2]
        IN  IF SmallerThanParent(h, cur)
            THEN rise[<<Swap(h, parent(cur), cur), parent(cur)>>]
            ELSE h
  IN  rise

insertHeap(heap, node) ==
  LET start == Append(heap, node)
  IN  Risen(Elements(start))[<<start, Len(start)>>]

\* A bug to be caught: the right child is compared with the parent, not with
\* the smaller of the parent and the left child.
SmallestOf_index(heap, index) ==
  LET Less(i, j) == heap[i].cpu_burst < heap[j].cpu_burst
      left == left_child(index)
      right == right_child(index)
  IN  IF right <= Len(heap) /\ Less(right, index) THEN right
      ELSE IF left <= Len(heap) /\ Less(left, index) THEN left
      ELSE index

\* The choice heapify makes: index itself when no child is smaller.
SmallestOf(heap, index) ==
  LET Less(i, j) == heap[i].cpu_burst < heap[j].cpu_burst
      left == left_child(index)
      right == right_child(index)
      smaller == IF left <= Len(heap) /\ Less(left, index) THEN left ELSE index
  IN  IF right <= Len(heap) /\ Less(right, smaller) THEN right ELSE smaller

\* The recursion of heapify: the element at i sinks.
Sunk(S) ==
  LET sink[at \in Seq(S) \X (Nat \ {0})] ==
        LET h == at[1]
            i == at[2]
            smallest == SmallestOf(h, i)
        IN  IF smallest = i THEN h ELSE sink[<<Swap(h, i, smallest), smallest>>]
  IN  sink

heapify(heap, index) == Sunk(Elements(heap))[<<heap, index>>]

get_min(heap) == heap[1]

\* What deleteHeap leaves of a heap that is not empty: the last element moves
\* to the root and sinks.
RestOfHeap(heap) ==
  LET n == Len(heap)
  IN  heapify(SubSeq([heap EXCEPT ![1] = heap[n]], 1, n - 1), 1)

\* No element is smaller than its parent.
HeapOrdered(heap) ==
  \A i \in 2..Len(heap) : heap[parent(i)].cpu_burst <= heap[i].cpu_burst
=============================================================================
