--------------------------- MODULE TornQueueProofs ---------------------------
(***************************************************************************)
(* Proofs about TornQueue: the ready and the wait queue, on which          *)
(* searchQueue is never called, keep count, list and tail together.        *)
(***************************************************************************)
EXTENDS TornQueue, TLAPS

\* The queue main creates is sound.
LEMMA InitSound == Init => Sound
BY DEF Init, Sound, createQueue

\* enqueue keeps it so: the tail it appends behind is the end of the list.
LEMMA EnqueueSound ==
  ASSUME Sound, NEW x \in Items, Enqueue(x)
  PROVE  Sound'
<1>1. /\ q \in [list : Seq(Items), attached : BOOLEAN, count : Nat]
      /\ q.list \in Seq(Items) /\ q.count = Len(q.list) /\ q.attached
      /\ status = "live" /\ status' = status
  BY DEF Sound, Enqueue
<1>2. q' = enqueue(q, x)
  BY DEF Enqueue
<1>3. /\ q'.list = Append(q.list, x)
      /\ q'.count = q.count + 1
      /\ q'.attached
      /\ q' \in [list : Seq(Items), attached : BOOLEAN, count : Nat]
  <2>1. q' = [list |-> Append(q.list, x), attached |-> TRUE, count |-> q.count + 1]
    BY <1>1, <1>2 DEF enqueue
  <2>2. Append(q.list, x) \in Seq(Items)
    BY <1>1
  <2> QED
    BY <1>1, <2>1, <2>2
<1>4. Len(Append(q.list, x)) = Len(q.list) + 1
  BY <1>1
<1> QED
  BY <1>1, <1>3, <1>4 DEF Sound

\* dequeue keeps it so: isEmpty, which goes by count, is true of the list.
LEMMA DequeueSound ==
  ASSUME Sound, Dequeue
  PROVE  Sound'
<1>1. /\ q \in [list : Seq(Items), attached : BOOLEAN, count : Nat]
      /\ q.list \in Seq(Items) /\ q.count = Len(q.list) /\ q.attached
      /\ status # "crashed" /\ status' = status /\ q' = dequeue(q)
  BY DEF Sound, Dequeue
<1>2. CASE q.count = 0
  BY <1>1, <1>2 DEF dequeue, isEmpty, Sound
<1>3. CASE q.count # 0
  <2>1. q.list # <<>>
    BY <1>1, <1>3
  <2>2. q'.list = Tail(q.list) /\ q'.count = q.count - 1 /\ q'.attached
    BY <1>1, <1>3 DEF dequeue, isEmpty
  <2>3. Tail(q.list) \in Seq(Items) /\ Len(Tail(q.list)) = Len(q.list) - 1
    BY <1>1, <2>1
  <2>4. q' \in [list : Seq(Items), attached : BOOLEAN, count : Nat]
    BY <1>1, <1>3, <2>3 DEF dequeue, isEmpty
  <2> QED
    BY <1>1, <2>2, <2>3, <2>4 DEF Sound
<1> QED
  BY <1>2, <1>3

\* A dequeue never faults on a sound queue.
LEMMA NoFault == Sound => ~DequeueFaults(q)
BY DEF Sound, DequeueFaults, isEmpty

\* A sound queue stays sound, if it is not searched.
LEMMA StepSound ==
  ASSUME WithSearch = FALSE, Sound, [Next]_vars
  PROVE  Sound'
<1>1. ASSUME NEW x \in Items, Enqueue(x)
      PROVE  Sound'
  BY <1>1, EnqueueSound
<1>2. ASSUME NEW x \in Items, Search(x)
      PROVE  Sound'
  BY <1>2 DEF Search
<1>3. CASE Dequeue
  BY <1>3, DequeueSound
<1>4. CASE DequeueCrash
  BY <1>4, NoFault DEF DequeueCrash
<1>5. CASE Remove
  BY <1>5 DEF Remove, Sound, createQueue
<1>6. CASE UNCHANGED vars
  BY <1>6 DEF vars, Sound
<1> QED
  BY <1>1, <1>2, <1>3, <1>4, <1>5, <1>6 DEF Next

\* The queues of PCBs (readyq and waitq of main.c), however they are used and
\* however long they get, count their nodes right and no dequeue tested by isEmpty
\* follows a null head.
THEOREM SoundWithoutSearch ==
  ASSUME WithSearch = FALSE
  PROVE  Spec => []Sound
<1>1. Init => Sound
  BY InitSound
<1>2. Sound /\ [Next]_vars => Sound'
  BY StepSound
<1> QED
  BY <1>1, <1>2, PTL DEF Spec
=============================================================================
