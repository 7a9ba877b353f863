------------------------------- MODULE QueueOps -------------------------------
(***************************************************************************)
(* The linked queue of src/proj2-virtual memory/virtual_memory/queue.c as  *)
(* its callers see it.  A queue is a record of                             *)
(*   list      what a walk from head meets,                                *)
(*   attached  whether tail is the last node of that walk,                 *)
(*   count     the counter, which isEmpty goes by.                         *)
(* With enqueue and dequeue alone the three agree.  searchQueue, which     *)
(* never moves head or tail, tears them apart; these operators say how.    *)
(***************************************************************************)
EXTENDS Integers, Sequences, FiniteSets

CONSTANT NONE   \* what a dequeue that finds count = 0 makes up (fn = -1)

createQueue == [list |-> <<>>, attached |-> TRUE, count |-> 0]

isEmpty(q) == q.count = 0

\* A node appended behind a tail that has been unlinked is lost.
enqueue(q, x) ==
  [q EXCEPT !.list = IF @ = <<>> \/ q.attached THEN Append(@, x) ELSE @,
            !.attached = @ \/ q.list = <<>>,
            !.count = @ + 1]

\* dequeue follows head without looking at it when count is not 0.
DequeueFaults(q) == ~isEmpty(q) /\ q.list = <<>>

Dequeued(q) == IF isEmpty(q) THEN NONE ELSE Head(q.list)

dequeue(q) ==
  IF isEmpty(q) THEN q
  ELSE [list |-> Tail(q.list),
        attached |-> q.attached \/ Len(q.list) = 1,
        count |-> q.count - 1]

\* The first node whose key is the one sought, that is one of the nodes in same; 0 if
\* there is none.
PositionOf(q, same) ==
  LET found == {i \in DOMAIN q.list : q.list[i] \in same}
  IN  IF found = {} THEN 0 ELSE CHOOSE i \in found : \A j \in found : i <= j

Without(list, i) == SubSeq(list, 1, i - 1) \o SubSeq(list, i + 1, Len(list))

\* searchQueue unlinks the node by its predecessor.  The first node is its own
\* predecessor and stays; the last node goes, and tail goes on pointing at it.
Unlinked(q, i) ==
  [list |-> IF i = 1 THEN q.list ELSE Without(q.list, i),
   attached |-> q.attached /\ (i = 1 \/ i < Len(q.list)),
   count |-> q.count - 1]

searchQueue(q, same) ==
  LET i == PositionOf(q, same)
  IN  IF i = 0 THEN q ELSE Unlinked(q, i)
=============================================================================
