------------------------------ MODULE ProdCons ------------------------------
(***************************************************************************)
(* The multi-threaded word count of src/hw2-multithreading/src: producers  *)
(* read blocks of one file into a ring of slots, consumers take them out.  *)
(* main.c runs no_work_prod and no_work_cons; producer and consumer of     *)
(* prod_cons.c follow the same protocol and add only work on private data. *)
(*                                                                         *)
(* The protocol: a semaphore empty, a semaphore full, and one mutex around *)
(* the file, the ring and its two indices.  A slot holds NULL (0), a block *)
(* of the file (its number), or, before anything was stored in it, what    *)
(* malloc left there.  The end of the file is passed on by a NULL at p_idx *)
(* and a token of full that the consumers hand to each other.              *)
(***************************************************************************)
EXTENDS Integers, Sequences, FiniteSets

CONSTANTS Producers,  \* the producer threads
          Consumers,  \* the consumer threads
          Blocks,     \* slots of the ring (share->blocks, 512)
          FileBlocks, \* blocks in the file
          NoThread    \* owner of a free mutex

Threads == Producers \cup Consumers

ASSUME ProdConsAssumption ==
  /\ IsFiniteSet(Producers)
  /\ IsFiniteSet(Consumers)
  /\ Producers \cap Consumers = {}
  /\ NoThread \notin Threads
  /\ Blocks \in Nat \ {0}
  /\ FileBlocks \in Nat

\* What the protocol needs and main.c does not check: empty starts at the
\* number of producers, so as many blocks may be in the ring.
EnoughBlocks == Cardinality(Producers) <= Blocks

NULL == 0
Garbage == FileBlocks + 1
Slots == 0..(Blocks - 1)

VARIABLES
  pc,            \* next statement of each thread
  block,         \* what each thread last read from the file or from the ring
  empty, full,   \* the semaphores
  mutex,         \* owner of the mutex
  line,          \* the ring
  p_idx, c_idx,  \* slot of the next put and of the next take
  fpos,          \* blocks read from the file so far
  taken          \* history: what the consumers took from the ring, in order

vars == <<pc, block, empty, full, mutex, line, p_idx, c_idx, fpos, taken>>

Init ==
  /\ pc = [t \in Threads |-> "wait"]
  /\ block = [t \in Threads |-> NULL]
  /\ empty = Cardinality(Producers)
  /\ full = 0
  /\ mutex = NoThread
  /\ line \in [Slots -> {NULL, Garbage}]
  /\ p_idx = 0
  /\ c_idx = 0
  /\ fpos = 0
  /\ taken = <<>>

Goto(t, l) == pc' = [pc EXCEPT ![t] = l]

\* A bug to be caught: the critical sections are not exclusive.
Lock_shared(t) ==
  /\ pc[t] = "lock"
  /\ mutex' = t
  /\ Goto(t, IF t \in Producers THEN "read" ELSE "take")
  /\ UNCHANGED <<block, empty, full, line, p_idx, c_idx, fpos, taken>>

Lock(t) ==
  /\ pc[t] = "lock"
  /\ mutex = NoThread
  /\ mutex' = t
  /\ Goto(t, IF t \in Producers THEN "read" ELSE "take")
  /\ UNCHANGED <<block, empty, full, line, p_idx, c_idx, fpos, taken>>

-----------------------------------------------------------------------------
(* A producer *)

WaitEmpty(p) ==
  /\ pc[p] = "wait"
  /\ empty > 0
  /\ empty' = empty - 1
  /\ Goto(p, "lock")
  /\ UNCHANGED <<block, full, mutex, line, p_idx, c_idx, fpos, taken>>

\* fread: the next block of the file, or nothing at its end.
Read(p) ==
  /\ pc[p] = "read"
  /\ IF fpos < FileBlocks
     THEN block' = [block EXCEPT ![p] = fpos + 1] /\ fpos' = fpos + 1
     ELSE block' = [block EXCEPT ![p] = NULL] /\ UNCHANGED fpos
  /\ Goto(p, "store")
  /\ UNCHANGED <<empty, full, mutex, line, p_idx, c_idx, taken>>

\* p_idx moves on after a block, not after the NULL of the end of the file.
PutIndex(p) == IF block[p] = NULL THEN p_idx ELSE (p_idx + 1) % Blocks

Store(p) ==
  /\ pc[p] = "store"
  /\ line' = [line EXCEPT ![p_idx] = block[p]]
  /\ p_idx' = PutIndex(p)
  /\ Goto(p, "unlock")
  /\ UNCHANGED <<block, empty, full, mutex, c_idx, fpos, taken>>

UnlockProducer(p) ==
  /\ pc[p] = "unlock"
  /\ mutex' = NoThread
  /\ Goto(p, "post")
  /\ UNCHANGED <<block, empty, full, line, p_idx, c_idx, fpos, taken>>

\* sem_post(full), and the producer ends if it has seen the end of the file.
PostFull(p) ==
  /\ pc[p] = "post"
  /\ full' = full + 1
  /\ Goto(p, IF block[p] = NULL THEN "done" ELSE "wait")
  /\ UNCHANGED <<block, empty, mutex, line, p_idx, c_idx, fpos, taken>>

-----------------------------------------------------------------------------
(* A consumer *)

WaitFull(c) ==
  /\ pc[c] = "wait"
  /\ full > 0
  /\ full' = full - 1
  /\ Goto(c, "lock")
  /\ UNCHANGED <<block, empty, mutex, line, p_idx, c_idx, fpos, taken>>

\* A bug to be caught: the consumer leaves the slot where it is.
TakeIndex_stay(c) == c_idx

TakeIndex(c) == IF line[c_idx] = NULL THEN c_idx ELSE (c_idx + 1) % Blocks

Take(c) ==
  /\ pc[c] = "take"
  /\ block' = [block EXCEPT ![c] = line[c_idx]]
  /\ line' = [line EXCEPT ![c_idx] = NULL]
  /\ c_idx' = TakeIndex(c)
  /\ taken' = IF line[c_idx] = NULL THEN taken ELSE Append(taken, line[c_idx])
  /\ Goto(c, "unlock")
  /\ UNCHANGED <<empty, full, mutex, p_idx, fpos>>

UnlockConsumer(c) ==
  /\ pc[c] = "unlock"
  /\ mutex' = NoThread
  /\ Goto(c, IF block[c] = NULL THEN "repost" ELSE "post")
  /\ UNCHANGED <<block, empty, full, line, p_idx, c_idx, fpos, taken>>

\* A bug to be caught: the last token of full is kept.
RepostFull_kept(c) ==
  /\ pc[c] = "repost"
  /\ Goto(c, "post")
  /\ UNCHANGED <<block, empty, full, mutex, line, p_idx, c_idx, fpos, taken>>

\* At the end of the file the consumer passes its token of full on.
RepostFull(c) ==
  /\ pc[c] = "repost"
  /\ full' = full + 1
  /\ Goto(c, "post")
  /\ UNCHANGED <<block, empty, mutex, line, p_idx, c_idx, fpos, taken>>

\* sem_post(empty), and the consumer ends if it has seen the end of the file.
PostEmpty(c) ==
  /\ pc[c] = "post"
  /\ empty' = empty + 1
  /\ Goto(c, IF block[c] = NULL THEN "done" ELSE "wait")
  /\ UNCHANGED <<block, full, mutex, line, p_idx, c_idx, fpos, taken>>

-----------------------------------------------------------------------------
ProducerStep(p) ==
  Lock(p) \/ WaitEmpty(p) \/ Read(p) \/ Store(p) \/ UnlockProducer(p) \/ PostFull(p)

ConsumerStep(c) ==
  \/ Lock(c) \/ WaitFull(c) \/ Take(c) \/ UnlockConsumer(c)
  \/ RepostFull(c) \/ PostEmpty(c)

\* main has joined every thread.
AllDone == \A t \in Threads : pc[t] = "done"

Next ==
  \/ \E p \in Producers : ProducerStep(p)
  \/ \E c \in Consumers : ConsumerStep(c)

Spec == Init /\ [][Next]_vars

\* Every thread that can go on is scheduled.  Nothing is assumed of the order in
\* which waiters are served.
FairSpec ==
  /\ Spec
  /\ \A p \in Producers : WF_vars(ProducerStep(p))
  /\ \A c \in Consumers : WF_vars(ConsumerStep(c))

-----------------------------------------------------------------------------
(* Properties *)

\* Type invariant.
TypeOK ==
  /\ pc \in [Threads -> {"wait", "lock", "read", "store", "take", "unlock",
                         "repost", "post", "done"}]
  /\ block \in [Threads -> 0..Garbage]
  /\ empty \in Nat
  /\ full \in Nat
  /\ mutex \in Threads \cup {NoThread}
  /\ line \in [Slots -> 0..Garbage]
  /\ p_idx \in Slots
  /\ c_idx \in Slots
  /\ fpos \in 0..FileBlocks
  /\ taken \in Seq(1..Garbage)

\* The consumers between them take every block once, in the order of the file:
\* no block is overwritten before it is taken, no slot is read before it is
\* written, and no end marker is taken for the end while blocks are in the ring.
InOrder == \A k \in 1..Len(taken) : taken[k] = k

\* A consumer that gives up has left nothing behind.
DrainedAtExit ==
  \A c \in Consumers :
    block[c] = NULL /\ pc[c] \in {"unlock", "repost", "post", "done"} =>
      Len(taken) = FileBlocks

\* The program ends, with the whole file taken: every thread, the last waiter on
\* either semaphore included, gets the token it needs to see the end.
Completes == <>(AllDone /\ Len(taken) = FileBlocks)

-----------------------------------------------------------------------------
(* The inductive invariant: where every token of the two semaphores is *)

\* Producers that have read a block and not stored it yet.
Storing == {p \in Producers : pc[p] = "store" /\ block[p] # NULL}
Stored == fpos - Cardinality(Storing)
InRing == Stored - Len(taken)

\* Producers that hold a token of empty, that have yet to post full, and that
\* have seen the end of the file.
Holding == {p \in Producers : pc[p] \in {"lock", "read", "store"}}
Posting == {p \in Producers : pc[p] \in {"unlock", "post"}}
Ended == {p \in Producers : block[p] = NULL /\ pc[p] \in {"unlock", "post", "done"}}

\* Consumers that hold a token of full, that have taken a block and have yet to
\* post empty, and that have posted empty without having taken one.
Claiming == {c \in Consumers :
               \/ pc[c] \in {"lock", "take"}
               \/ pc[c] \in {"unlock", "repost"} /\ block[c] = NULL}
Freeing == {c \in Consumers : pc[c] \in {"unlock", "post"} /\ block[c] # NULL}
Gone == {c \in Consumers : pc[c] = "done"}

\* A token of empty is in the semaphore, with a producer, in the ring as a block,
\* with a consumer, or gone with a producer that ended; a consumer that ended
\* adds one.
EmptyTokens ==
  empty + Cardinality(Holding) + InRing + Cardinality(Freeing)
    + Cardinality(Ended) = Cardinality(Producers) + Cardinality(Gone)

\* For every block in the ring and every producer that ended there is a token of
\* full: in the semaphore, with a consumer, or about to be posted.
FullTokens ==
  full + Cardinality(Claiming) + Cardinality(Posting) = InRing + Cardinality(Ended)

MutexInv ==
  \A t \in Threads : pc[t] \in {"read", "store", "take", "unlock"} => mutex = t

LocalInv ==
  /\ \A p \in Producers :
       /\ pc[p] \in {"wait", "lock", "read", "store", "unlock", "post", "done"}
       /\ pc[p] = "store" /\ block[p] = NULL => fpos = FileBlocks
       /\ pc[p] = "store" /\ block[p] # NULL => block[p] = fpos /\ Ended = {}
  /\ \A c \in Consumers :
       /\ pc[c] \in {"wait", "lock", "take", "unlock", "repost", "post", "done"}
       /\ pc[c] \in {"repost", "done"} => block[c] = NULL

Wrap(i) == IF i < Blocks THEN i ELSE i - Blocks

\* The ring holds the blocks that follow the last one taken, in order.
RingInv ==
  /\ InRing \in 0..Blocks
  /\ p_idx = Wrap(c_idx + InRing)
  /\ \A i \in 0..(InRing - 1) : line[Wrap(c_idx + i)] = Len(taken) + 1 + i

EndInv ==
  Ended # {} => Stored = FileBlocks /\ line[p_idx] = NULL

IInv ==
  /\ TypeOK
  /\ MutexInv
  /\ LocalInv
  /\ EmptyTokens
  /\ FullTokens
  /\ RingInv
  /\ EndInv
  /\ DrainedAtExit
  /\ InOrder

-----------------------------------------------------------------------------
(* The abstract specification *)

\* Blocks in the ring, from c_idx on.
RingContents ==
  [i \in 1..InRing |-> line[Wrap(c_idx + i - 1)]]

SawEnd(t) ==
  /\ block[t] = NULL
  /\ pc[t] \in {"unlock", "repost", "post", "done"}

\* The threads implement the bounded FIFO queue of blocks.
Stream == INSTANCE BlockStream WITH
  unread   <- [i \in 1..(FileBlocks - Stored) |-> Stored + i],
  queue    <- RingContents,
  finished <- {t \in Threads : SawEnd(t)}

ImplementsStream == Stream!StreamSpec
=============================================================================
