----------------------------- MODULE StringList -----------------------------
(***************************************************************************)
(* src/hw1-shell/src/list.c: the singly linked list in which the shell     *)
(* keeps its history and the parser the words of a line.  Nodes are the    *)
(* numbers 1..Nodes; one that was freed is out of use until malloc returns *)
(* it again, which it may do at once.                                      *)
(***************************************************************************)
EXTENDS Integers, SequencesExt

CONSTANTS
  Data,        \* what a node holds
  Nodes,       \* bound: the nodes malloc may return
  Indices,     \* the arguments of l_remove: the shell's are all 0
  NULL

VARIABLES
  node,              \* the nodes: [data, next]; those not allocated keep their bytes
  used,              \* the allocated ones
  head, tail, size,
  got,               \* the result of the last l_get
  status             \* "running", "exited", "corrupt": a freed node was written to

vars == <<node, used, head, tail, size, got, status>>

Init ==
  /\ node = [n \in 1..Nodes |-> [data |-> NULL, next |-> NULL]]
  /\ used = {}
  /\ head = NULL /\ tail = NULL
  /\ size = 0
  /\ got = NULL
  /\ status = "running"

\* The i-th node from head on, or NULL.
At[i \in 0..Nodes] ==
  IF i = 0 THEN head ELSE LET n == At[i - 1] IN IF n = NULL THEN NULL ELSE node[n].next

\* The nodes reached from head; no more than there are.
Chain == SelectSeq([i \in 1..Nodes |-> At[i - 1]], LAMBDA n : n # NULL)

\* A bug to be caught: the list is empty when there is no tail.
IsFirst_tail == tail = NULL

IsFirst == head = NULL

l_insert(data) ==
  /\ status = "running"
  /\ \E n \in (1..Nodes) \ used :
       /\ used' = used \union {n}
       /\ LET fresh == [node EXCEPT ![n] = [data |-> data, next |-> NULL]]
          IN  IF IsFirst
              THEN /\ head' = n
                   /\ size' = 1
                   /\ node' = fresh
              ELSE /\ node' = [fresh EXCEPT ![tail].next = n]
                   /\ size' = size + 1
                   /\ UNCHANGED head
       /\ tail' = n
       /\ status' = IF ~IsFirst /\ tail \notin used THEN "corrupt" ELSE "running"
  /\ UNCHANGED got

\* A bug to be caught: an element is missed.
AfterRemoved_next(n) == IF node[n].next = NULL THEN NULL ELSE node[node[n].next].next

\* What takes the place of the node removed.
AfterRemoved(n) == node[n].next

\* tail is not looked at.
l_remove(index) ==
  /\ status = "running"
  /\ index < size
  /\ LET n == Chain[index + 1]
     IN  /\ IF index = 0
            THEN head' = AfterRemoved(n) /\ UNCHANGED node
            ELSE node' = [node EXCEPT ![Chain[index]].next = AfterRemoved(n)] /\ UNCHANGED head
         /\ used' = used \ {n}
  /\ size' = size - 1
  /\ UNCHANGED <<tail, got, status>>

l_get(index) ==
  /\ status = "running"
  /\ index < size
  /\ got' = node[Chain[index + 1]].data
  /\ UNCHANGED <<node, used, head, tail, size, status>>

\* l_remove and l_get of what the list does not have.
BadIndex(index) ==
  /\ status = "running"
  /\ index >= size
  /\ status' = "exited"
  /\ UNCHANGED <<node, used, head, tail, size, got>>

Next ==
  \/ \E data \in Data : l_insert(data)
  \/ \E index \in Indices : l_remove(index)
  \/ \E index \in 0..(Nodes - 1) : l_get(index) \/ BadIndex(index)

Spec == Init /\ [][Next]_vars

-----------------------------------------------------------------------------
(* Properties *)

Contents == [i \in DOMAIN Chain |-> node[Chain[i]].data]

\* Though l_remove leaves tail on a node it has freed, what is removed at the head
\* and inserted after that, in memory that malloc may have given out again, is a
\* sequence of strings: nothing is lost, and size is its length.
ImplementsSequence ==
  [][ LET old == Contents
          new == Contents'
      IN  /\ size' = Len(new)
          /\ \/ new = old
             \/ \E data \in Data : new = Append(old, data)
             \/ \E i \in DOMAIN old : new = RemoveAt(old, i) ]_vars

\* No freed node is reached from head or written to.
NothingFreedInList ==
  /\ status # "corrupt"
  /\ \A i \in DOMAIN Chain : Chain[i] \in used
=============================================================================
