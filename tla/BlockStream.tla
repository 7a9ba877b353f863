----------------------------- MODULE BlockStream -----------------------------
(***************************************************************************)
(* What the word count of src/hw2-multithreading/src promises its threads: *)
(* the blocks of the file pass through a bounded FIFO queue, every block   *)
(* goes to exactly one consumer, in the order of the file, and a thread    *)
(* finishes only when nothing is left for it to do: a producer at the end  *)
(* of the file, a consumer at the end of the file with the queue empty.    *)
(***************************************************************************)
EXTENDS Naturals, Sequences

CONSTANTS Producers, Consumers, Blocks, FileBlocks

VARIABLES unread,    \* blocks of the file not yet put into the queue
          queue,     \* blocks put and not yet taken
          taken,     \* blocks taken, in the order in which they were taken
          finished   \* threads that have found the end of their work

streamVars == <<unread, queue, taken, finished>>

StreamInit ==
  /\ unread = [i \in 1..FileBlocks |-> i]
  /\ queue = <<>>
  /\ taken = <<>>
  /\ finished = {}

Put ==
  /\ unread # <<>>
  /\ Len(queue) < Blocks
  /\ queue' = Append(queue, Head(unread))
  /\ unread' = Tail(unread)
  /\ UNCHANGED <<taken, finished>>

Get ==
  /\ queue # <<>>
  /\ taken' = Append(taken, Head(queue))
  /\ queue' = Tail(queue)
  /\ UNCHANGED <<unread, finished>>

Finish(t) ==
  /\ t \notin finished
  /\ unread = <<>>
  /\ t \in Consumers => queue = <<>> /\ finished \cap Producers # {}
  /\ finished' = finished \cup {t}
  /\ UNCHANGED <<unread, queue, taken>>

StreamNext == Put \/ Get \/ \E t \in Producers \cup Consumers : Finish(t)

StreamSpec == StreamInit /\ [][StreamNext]_streamVars
=============================================================================
