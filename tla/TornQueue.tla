------------------------------ MODULE TornQueue ------------------------------
(***************************************************************************)
(* What a queue of queue.c promises its callers: calls of enqueue, dequeue *)
(* and, for the queue of frames only, searchQueue, in any order, and       *)
(* removeQueue at the end.  LinkedQueue implements it with pointers.       *)
(***************************************************************************)
EXTENDS QueueOps

CONSTANTS Items,       \* what is queued: PCBs, or frames by number
          WithSearch,  \* TRUE for fifo, FALSE for readyq and waitq
          MaxCount     \* bound: enqueues are stopped at this count

VARIABLES q,       \* the queue
          ret,     \* result of the last call
          status   \* live, removed or crashed

vars == <<q, ret, status>>

Init == q = createQueue /\ ret = NONE /\ status = "live"

Enqueue(x) ==
  /\ status = "live"
  /\ q.count < MaxCount
  /\ q' = enqueue(q, x)
  /\ ret' = NONE
  /\ UNCHANGED status

Dequeue ==
  /\ status = "live"
  /\ ~DequeueFaults(q)
  /\ ret' = Dequeued(q)
  /\ q' = dequeue(q)
  /\ UNCHANGED status

DequeueCrash ==
  /\ status = "live"
  /\ DequeueFaults(q)
  /\ status' = "crashed"
  /\ UNCHANGED <<q, ret>>

Search(x) ==
  /\ WithSearch
  /\ status = "live"
  /\ q' = searchQueue(q, {x})
  /\ ret' = NONE
  /\ UNCHANGED status

\* removeQueue counts the nodes it meets and frees as many.
Remove ==
  /\ status = "live"
  /\ q' = createQueue
  /\ ret' = NONE
  /\ status' = "removed"

Next ==
  \/ \E x \in Items : Enqueue(x) \/ Search(x)
  \/ Dequeue \/ DequeueCrash \/ Remove

Spec == Init /\ [][Next]_vars

-----------------------------------------------------------------------------
\* Without searchQueue the counter is the length of the list and the tail is the
\* end of it, so that a dequeue tested by isEmpty always finds a node.
Sound ==
  /\ q \in [list : Seq(Items), attached : BOOLEAN, count : Nat]
  /\ q.count = Len(q.list)
  /\ q.attached
  /\ status # "crashed"
=============================================================================
