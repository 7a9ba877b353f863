----------------------------- MODULE LinkedQueue -----------------------------
(***************************************************************************)
(* queue.c of src/proj2-virtual memory/virtual_memory, pointer by pointer. *)
(* proj1 has the same file without searchQueue (WithSearch = FALSE).       *)
(*                                                                         *)
(* The queues are used inside signal handlers, which interrupt each other. *)
(* calls is the stack of calls in progress; a step is a statement of the   *)
(* topmost one.  With MaxDepth = 1 a call is never interrupted by another, *)
(* with MaxDepth = 2 it may be, at any statement.                          *)
(***************************************************************************)
EXTENDS Integers, Sequences, FiniteSets

CONSTANTS Addresses,   \* addresses malloc can return
          NIL,         \* the null pointer
          Items, NONE, WithSearch,
          MaxDeficit,  \* bound: searches are stopped at this count below zero
          MaxCount,    \* bound: enqueues are stopped at this count
          MaxDepth     \* bound on the calls in progress

ASSUME LinkedQueueAssumption ==
  /\ IsFiniteSet(Addresses)
  /\ NIL \notin Addresses
  /\ MaxDepth \in Nat \ {0}
  /\ MaxDeficit \in Nat

VARIABLES
  head, tail, count,  \* the Queue structure
  next, item,         \* the fields of each node
  allocated,          \* nodes between their malloc and their free
  calls,              \* stack of [pc, node]: calls in progress
  ret,                \* result of the last call that returned
  status,             \* live, removed or crashed
  before              \* history: what a caller saw before the call in progress

queue == <<head, tail, count>>
heap == <<next, item, allocated>>
vars == <<queue, heap, calls, ret, status, before>>

Pointers == Addresses \cup {NIL}

-----------------------------------------------------------------------------
\* The nodes a walk from h along the pointers nx meets, in order; of a walk in
\* circles, as many as there are addresses.
WalkFrom(h, nx) ==
  LET walk[i \in 1..Cardinality(Addresses)] ==
        IF i = 1 THEN h
        ELSE IF walk[i - 1] = NIL THEN NIL ELSE nx[walk[i - 1]]
      met == {i \in 1..Cardinality(Addresses) : walk[i] # NIL}
  IN  SubSeq(walk, 1, Cardinality(met))

Chain == WalkFrom(head, next)

\* What TornQueue says of the queue whose nodes are those of chain.
SeenIn(chain) ==
  [list |-> [i \in DOMAIN chain |-> item[chain[i]]],
   attached |-> chain = <<>> \/ tail = chain[Len(chain)],
   count |-> count]

Seen == SeenIn(Chain)

Init ==
  /\ head = NIL
  /\ tail = NIL
  /\ count = 0
  /\ next = [n \in Addresses |-> NIL]
  /\ item = [n \in Addresses |-> NONE]
  /\ allocated = {}
  /\ calls = <<>>
  /\ ret = NONE
  /\ status = "live"
  /\ before = Seen

Depth == Len(calls)
Top == calls[Depth]
At(pc) == status = "live" /\ Depth > 0 /\ Top.pc = pc
Goto(pc) == calls' = [calls EXCEPT ![Depth].pc = pc]

\* A call may begin when none is in progress, or interrupt one.
Begin(pc, node) ==
  /\ status = "live"
  /\ Depth < MaxDepth
  /\ calls' = Append(calls, [pc |-> pc, node |-> node])
  /\ before' = IF Depth = 0 THEN Seen ELSE before

Return(result) ==
  /\ calls' = SubSeq(calls, 1, Depth - 1)
  /\ ret' = result
  /\ UNCHANGED <<status, before>>

Crash ==
  /\ status' = "crashed"
  /\ UNCHANGED <<queue, heap, calls, ret, before>>

-----------------------------------------------------------------------------
(* enqueue *)

CallEnqueue(x) ==
  /\ count < MaxCount
  /\ \E n \in Addresses \ allocated :
        /\ allocated' = allocated \cup {n}
        /\ item' = [item EXCEPT ![n] = x]
        /\ next' = [next EXCEPT ![n] = NIL]
        /\ Begin("test", n)
  /\ UNCHANGED <<queue, ret, status>>

EnqueueTest ==
  /\ At("test")
  /\ Goto(IF head = NIL THEN "sethead" ELSE "link")
  /\ UNCHANGED <<queue, heap, ret, status, before>>

EnqueueHead ==
  /\ At("sethead")
  /\ head' = Top.node
  /\ Goto("settail")
  /\ UNCHANGED <<tail, count, heap, ret, status, before>>

\* A bug to be caught: the old last node is not linked to the new one.
EnqueueLink_unlinked ==
  /\ At("link")
  /\ Goto("settail")
  /\ UNCHANGED <<queue, heap, ret, status, before>>

EnqueueLink ==
  /\ At("link")
  /\ tail # NIL
  /\ next' = [next EXCEPT ![tail] = Top.node]
  /\ Goto("settail")
  /\ UNCHANGED <<queue, item, allocated, ret, status, before>>

EnqueueTail ==
  /\ At("settail")
  /\ tail' = Top.node
  /\ Goto("increment")
  /\ UNCHANGED <<head, count, heap, ret, status, before>>

EnqueueCount ==
  /\ At("increment")
  /\ count' = count + 1
  /\ Return(NONE)
  /\ UNCHANGED <<head, tail, heap>>

-----------------------------------------------------------------------------
(* dequeue *)

CallDequeue ==
  /\ Begin("isempty", head)
  /\ UNCHANGED <<queue, heap, ret, status>>

DequeueEmpty ==
  /\ At("isempty")
  /\ count = 0
  /\ Return(NONE)
  /\ UNCHANGED <<queue, heap>>

DequeueTest ==
  /\ At("isempty")
  /\ count # 0
  /\ head # NIL
  /\ Goto(IF next[head] = NIL THEN "clearhead" ELSE "advance")
  /\ UNCHANGED <<queue, heap, ret, status, before>>

DequeueClearHead ==
  /\ At("clearhead")
  /\ head' = NIL
  /\ Goto("cleartail")
  /\ UNCHANGED <<tail, count, heap, ret, status, before>>

DequeueClearTail ==
  /\ At("cleartail")
  /\ tail' = NIL
  /\ Goto("decrement")
  /\ UNCHANGED <<head, count, heap, ret, status, before>>

\* A bug to be caught: head stays at the node that is about to be freed.
DequeueAdvance_stay ==
  /\ At("advance")
  /\ head # NIL
  /\ Goto("decrement")
  /\ UNCHANGED <<queue, heap, ret, status, before>>

DequeueAdvance ==
  /\ At("advance")
  /\ head # NIL
  /\ head' = next[head]
  /\ Goto("decrement")
  /\ UNCHANGED <<tail, count, heap, ret, status, before>>

DequeueCount ==
  /\ At("decrement")
  /\ count' = count - 1
  /\ Goto("free")
  /\ UNCHANGED <<head, tail, heap, ret, status, before>>

\* A bug to be caught: the node is copied and not freed.
DequeueFree_leak ==
  /\ At("free")
  /\ Top.node \in allocated
  /\ Return(item[Top.node])
  /\ UNCHANGED <<queue, heap>>

\* *ret = *node; free(node)
DequeueFree ==
  /\ At("free")
  /\ Top.node \in allocated
  /\ allocated' = allocated \ {Top.node}
  /\ Return(item[Top.node])
  /\ UNCHANGED <<queue, next, item>>

\* A null pointer followed, or a node freed twice.
Fault ==
  /\ \/ At("link") /\ tail = NIL
     \/ At("isempty") /\ count # 0 /\ head = NIL
     \/ At("advance") /\ head = NIL
     \/ At("free") /\ Top.node \notin allocated
  /\ Crash

-----------------------------------------------------------------------------
(* searchQueue and removeQueue, as whole calls *)

MatchAt(i, x) == item[Chain[i]] = x /\ \A j \in 1..(i - 1) : item[Chain[j]] # x

\* A bug to be caught: the predecessor is not remembered, and the list is cut.
Predecessor_first(i) == Chain[1]

\* pre, which starts out as the first node itself.
Predecessor(i) == IF i = 1 THEN Chain[1] ELSE Chain[i - 1]

Search(x) ==
  /\ WithSearch
  /\ status = "live"
  /\ Depth = 0
  /\ count > -MaxDeficit
  /\ IF \E i \in DOMAIN Chain : MatchAt(i, x)
     THEN LET i == CHOOSE j \in DOMAIN Chain : MatchAt(j, x)
          IN  /\ next' = [next EXCEPT ![Predecessor(i)] = next[Chain[i]]]
              /\ count' = count - 1
     ELSE UNCHANGED <<next, count>>
  /\ ret' = NONE
  /\ UNCHANGED <<head, tail, item, allocated, calls, status, before>>

Remove ==
  /\ status = "live"
  /\ Depth = 0
  /\ allocated' = allocated \ {Chain[i] : i \in DOMAIN Chain}
  /\ head' = NIL
  /\ count' = 0
  /\ ret' = NONE
  /\ status' = "removed"
  /\ UNCHANGED <<tail, next, item, calls, before>>

Next ==
  \/ \E x \in Items : CallEnqueue(x) \/ Search(x)
  \/ EnqueueTest \/ EnqueueHead \/ EnqueueLink \/ EnqueueTail \/ EnqueueCount
  \/ CallDequeue \/ DequeueEmpty \/ DequeueTest \/ DequeueClearHead
  \/ DequeueClearTail \/ DequeueAdvance \/ DequeueCount \/ DequeueFree
  \/ Fault \/ Remove

Spec == Init /\ [][Next]_vars

-----------------------------------------------------------------------------
(* Properties *)

Idle == status # "crashed" /\ calls = <<>>

\* The pointers make the queue TornQueue says they make, searchQueue and all: a
\* call takes effect when it returns.
Promised ==
  INSTANCE TornQueue WITH q <- IF calls = <<>> THEN Seen ELSE before

ImplementsTornQueue == Promised!Spec

\* Between calls a walk from head meets allocated nodes only, each once: nothing
\* in the list has been freed, however searchQueue has cut it.
NothingFreedInList ==
  Idle => LET chain == Chain
          IN  \A i, j \in DOMAIN chain :
                chain[i] \in allocated /\ (i # j => chain[i] # chain[j])

\* Every node that malloc gave and free did not take is still in the list: no
\* PCB disappears from ready and wait queue.
NothingLeaked == Idle => allocated = {Chain[i] : i \in DOMAIN Chain}

\* queue.h: "Count variable stores the length (or size) of the queue."
CountIsLength == Idle => count = Len(Chain)
=============================================================================
