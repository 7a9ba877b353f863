--------------------------- MODULE ProdConsProofs ---------------------------
(***************************************************************************)
(* Proofs about ProdCons, for any finite sets of threads, any ring and any *)
(* file.  The argument is a count of tokens: how many threads are at which *)
(* statement bounds how many blocks can be in the ring.                    *)
(***************************************************************************)
EXTENDS ProdCons, FiniteSetTheorems, TLAPS

\* 1 if x is in S, else 0.
In(x, S) == IF x \in S THEN 1 ELSE 0

\* A membership counts 0 or 1.
LEMMA InNat == \A x, S : In(x, S) \in 0..1
BY DEF In

\* Two finite sets that differ at most in t have cardinalities that differ as
\* the membership of t does.
LEMMA CountOne ==
  ASSUME NEW A, NEW B, NEW t, IsFiniteSet(A), IsFiniteSet(B), A \ {t} = B \ {t}
  PROVE  /\ Cardinality(A) \in Nat
         /\ Cardinality(B) \in Nat
         /\ Cardinality(B) = Cardinality(A) + In(t, B) - In(t, A)
<1>1. Cardinality(A) \in Nat /\ Cardinality(B) \in Nat
  BY FS_CardinalityType
<1>2. Cardinality(A \ {t}) = Cardinality(A) - In(t, A)
  BY <1>1, FS_RemoveElement DEF In
<1>3. Cardinality(B \ {t}) = Cardinality(B) - In(t, B)
  BY <1>1, FS_RemoveElement DEF In
<1> QED
  BY <1>1, <1>2, <1>3 DEF In

\* Two sets that differ at most in t, and agree on t, are equal.
LEMMA SameSet ==
  ASSUME NEW A, NEW B, NEW t, A \ {t} = B \ {t}, t \in A <=> t \in B
  PROVE  A = B
<1>1. ASSUME NEW u PROVE u \in A <=> u \in B
  <2>1. CASE u = t
    BY <2>1
  <2>2. CASE u # t
    BY <2>2, u \in A \ {t} <=> u \in B \ {t}
  <2> QED
    BY <2>1, <2>2
<1> QED
  BY <1>1

\* Every other thread is where it was.
OnlyMoves(t) ==
  \A u \in Threads \ {t} : pc'[u] = pc[u] /\ block'[u] = block[u]

\* The sets the invariant counts are finite.
LEMMA FiniteCounts ==
  /\ IsFiniteSet(Holding) /\ IsFiniteSet(Posting) /\ IsFiniteSet(Ended)
  /\ IsFiniteSet(Storing) /\ IsFiniteSet(Claiming) /\ IsFiniteSet(Freeing)
  /\ IsFiniteSet(Gone)
<1>1. Holding \subseteq Producers /\ Posting \subseteq Producers
      /\ Ended \subseteq Producers /\ Storing \subseteq Producers
  BY DEF Holding, Posting, Ended, Storing
<1>2. Claiming \subseteq Consumers /\ Freeing \subseteq Consumers
      /\ Gone \subseteq Consumers
  BY DEF Claiming, Freeing, Gone
<1> QED
  BY <1>1, <1>2, ProdConsAssumption, FS_Subset

\* So they are after a step.
LEMMA FiniteCountsNext ==
  /\ IsFiniteSet(Holding') /\ IsFiniteSet(Posting') /\ IsFiniteSet(Ended')
  /\ IsFiniteSet(Storing') /\ IsFiniteSet(Claiming') /\ IsFiniteSet(Freeing')
  /\ IsFiniteSet(Gone')
<1>1. Holding' \subseteq Producers /\ Posting' \subseteq Producers
      /\ Ended' \subseteq Producers /\ Storing' \subseteq Producers
  BY DEF Holding, Posting, Ended, Storing
<1>2. Claiming' \subseteq Consumers /\ Freeing' \subseteq Consumers
      /\ Gone' \subseteq Consumers
  BY DEF Claiming, Freeing, Gone
<1> QED
  BY <1>1, <1>2, ProdConsAssumption, FS_Subset

\* What a step of producer p does to the counts.
LEMMA ProducerCounts ==
  ASSUME NEW p \in Producers, OnlyMoves(p)
  PROVE  /\ Claiming' = Claiming /\ Freeing' = Freeing /\ Gone' = Gone
         /\ Cardinality(Holding') =
              Cardinality(Holding) + In(p, Holding') - In(p, Holding)
         /\ Cardinality(Posting') =
              Cardinality(Posting) + In(p, Posting') - In(p, Posting)
         /\ Cardinality(Ended') =
              Cardinality(Ended) + In(p, Ended') - In(p, Ended)
         /\ Cardinality(Storing') =
              Cardinality(Storing) + In(p, Storing') - In(p, Storing)
         /\ Ended' \ {p} = Ended \ {p}
<1>1. Claiming' = Claiming /\ Freeing' = Freeing /\ Gone' = Gone
  BY ProdConsAssumption DEF OnlyMoves, Threads, Claiming, Freeing, Gone
<1>2. /\ Holding' \ {p} = Holding \ {p} /\ Posting' \ {p} = Posting \ {p}
      /\ Ended' \ {p} = Ended \ {p} /\ Storing' \ {p} = Storing \ {p}
  BY DEF OnlyMoves, Threads, Holding, Posting, Ended, Storing
<1> QED
  BY <1>1, <1>2, FiniteCounts, FiniteCountsNext, CountOne

\* What a step of consumer c does to the counts.
LEMMA ConsumerCounts ==
  ASSUME NEW c \in Consumers, OnlyMoves(c)
  PROVE  /\ Holding' = Holding /\ Posting' = Posting
         /\ Ended' = Ended /\ Storing' = Storing
         /\ Cardinality(Claiming') =
              Cardinality(Claiming) + In(c, Claiming') - In(c, Claiming)
         /\ Cardinality(Freeing') =
              Cardinality(Freeing) + In(c, Freeing') - In(c, Freeing)
         /\ Cardinality(Gone') =
              Cardinality(Gone) + In(c, Gone') - In(c, Gone)
<1>1. Holding' = Holding /\ Posting' = Posting /\ Ended' = Ended
      /\ Storing' = Storing
  BY ProdConsAssumption DEF OnlyMoves, Threads, Holding, Posting, Ended, Storing
<1>2. /\ Claiming' \ {c} = Claiming \ {c} /\ Freeing' \ {c} = Freeing \ {c}
      /\ Gone' \ {c} = Gone \ {c}
  BY DEF OnlyMoves, Threads, Claiming, Freeing, Gone
<1> QED
  BY <1>1, <1>2, FiniteCounts, FiniteCountsNext, CountOne

\* The counts are natural numbers, before and after a step.
LEMMA CountsNat ==
  /\ Cardinality(Producers) \in Nat
  /\ Cardinality(Holding) \in Nat /\ Cardinality(Posting) \in Nat
  /\ Cardinality(Ended) \in Nat /\ Cardinality(Storing) \in Nat
  /\ Cardinality(Claiming) \in Nat /\ Cardinality(Freeing) \in Nat
  /\ Cardinality(Gone) \in Nat
BY FiniteCounts, ProdConsAssumption, FS_CardinalityType

\* The same of the counts after a step.
LEMMA CountsNatNext ==
  /\ Cardinality(Holding') \in Nat /\ Cardinality(Posting') \in Nat
  /\ Cardinality(Ended') \in Nat /\ Cardinality(Storing') \in Nat
  /\ Cardinality(Claiming') \in Nat /\ Cardinality(Freeing') \in Nat
  /\ Cardinality(Gone') \in Nat
BY FiniteCountsNext, FS_CardinalityType

\* The number of blocks in the ring is a natural number.
LEMMA InRingNat == IInv => InRing \in Nat
BY ProdConsAssumption DEF IInv, RingInv

\* The types of what the arithmetic of the proofs is about.
LEMMA Numbers ==
  ASSUME IInv
  PROVE  /\ empty \in Nat /\ full \in Nat /\ fpos \in 0..FileBlocks
         /\ Len(taken) \in Nat /\ InRing \in Nat /\ Stored \in Int
         /\ p_idx \in 0..(Blocks - 1) /\ c_idx \in 0..(Blocks - 1)
         /\ Blocks \in Nat \ {0} /\ FileBlocks \in Nat
BY SMTT(60), InRingNat, CountsNat, ProdConsAssumption DEF IInv, TypeOK, Slots, Stored

\* The index after a slot, with % replaced by a comparison.
LEMMA NextSlot ==
  ASSUME NEW i \in Slots
  PROVE  (i + 1) % Blocks = Wrap(i + 1) /\ Wrap(i + 1) \in Slots
<1>1. Blocks \in Nat \ {0} /\ i \in Nat /\ i < Blocks
  BY ProdConsAssumption DEF Slots
<1>2. CASE i + 1 < Blocks
  BY <1>1, <1>2 DEF Wrap, Slots
<1>3. CASE i + 1 = Blocks
  <2>1. Blocks % Blocks = 0
    BY <1>1
  <2> QED
    BY <1>1, <1>3, <2>1 DEF Wrap, Slots
<1> QED
  BY <1>1, <1>2, <1>3

-----------------------------------------------------------------------------
(* The initial states *)

\* The invariant holds when main has created the threads, whatever malloc left in
\* the ring.
THEOREM InitIInv == Init => IInv
<1> SUFFICES ASSUME Init PROVE IInv
  OBVIOUS
<1>1. /\ Holding = {} /\ Posting = {} /\ Ended = {} /\ Storing = {}
      /\ Claiming = {} /\ Freeing = {} /\ Gone = {}
  BY DEF Init, Threads, Holding, Posting, Ended, Storing, Claiming, Freeing, Gone
<1>2. Stored = 0 /\ InRing = 0
  BY <1>1, FS_EmptySet DEF Init, Stored, InRing
<1>3. TypeOK
  BY CountsNat, ProdConsAssumption DEF Init, TypeOK, Slots, Garbage, NULL
<1>4. EmptyTokens /\ FullTokens
  BY <1>1, <1>2, CountsNat, FS_EmptySet DEF Init, EmptyTokens, FullTokens
<1>5. MutexInv /\ LocalInv /\ DrainedAtExit /\ InOrder
  BY DEF Init, MutexInv, LocalInv, DrainedAtExit, InOrder, Threads
<1>6. RingInv
  BY <1>2, ProdConsAssumption DEF Init, RingInv, Wrap
<1>7. EndInv
  BY <1>1 DEF EndInv
<1> QED
  BY <1>3, <1>4, <1>5, <1>6, <1>7 DEF IInv

-----------------------------------------------------------------------------
(* Steps that leave the file and the ring alone *)

\* A step that leaves the file and the ring alone, and neither reads a block nor
\* ends a producer, keeps what the invariant says of the ring.
LEMMA RingUnchanged ==
  ASSUME IInv, UNCHANGED <<line, p_idx, c_idx, fpos, taken>>,
         Cardinality(Storing') = Cardinality(Storing), Ended' = Ended
  PROVE  /\ InRing' = InRing
         /\ RingInv' /\ EndInv' /\ InOrder'
<1>1. InRing' = InRing /\ Stored' = Stored
  BY DEF InRing, Stored
<1>2. RingInv'
  BY <1>1 DEF IInv, RingInv, Wrap
<1>3. EndInv'
  BY <1>1 DEF IInv, EndInv
<1>4. InOrder'
  BY DEF IInv, InOrder
<1> QED
  BY <1>1, <1>2, <1>3, <1>4

\* A producer that moves tokens between a semaphore and itself.
LEMMA ProducerMovesToken ==
  ASSUME IInv, NEW p \in Producers, OnlyMoves(p),
         UNCHANGED <<line, p_idx, c_idx, fpos, taken>>,
         p \notin Storing, p \notin Storing', p \in Ended' <=> p \in Ended,
         empty' \in Nat, full' \in Nat,
         empty' + In(p, Holding') = empty + In(p, Holding),
         full' + In(p, Posting') = full + In(p, Posting)
  PROVE  /\ Ended' = Ended
         /\ EmptyTokens' /\ FullTokens' /\ RingInv' /\ EndInv'
         /\ DrainedAtExit' /\ InOrder'
<1>0. empty \in Nat /\ full \in Nat
  BY DEF IInv, TypeOK
<1>1. Ended' = Ended
  BY ProducerCounts, SameSet
<1>2. Cardinality(Storing') = Cardinality(Storing)
  BY ProducerCounts, CountsNat, CountsNatNext DEF In
<1>3. InRing' = InRing /\ RingInv' /\ EndInv' /\ InOrder'
  BY <1>1, <1>2, RingUnchanged
<1>4. Claiming' = Claiming /\ Freeing' = Freeing /\ Gone' = Gone
  BY ProducerCounts
<1>5. empty' + Cardinality(Holding') = empty + Cardinality(Holding)
  BY <1>0, InNat, ProducerCounts, CountsNat, CountsNatNext
<1>6. full' + Cardinality(Posting') = full + Cardinality(Posting)
  BY <1>0, InNat, ProducerCounts, CountsNat, CountsNatNext
<1>7. EmptyTokens'
  BY <1>0, <1>1, <1>3, <1>4, <1>5, CountsNat, CountsNatNext, InRingNat DEF EmptyTokens, IInv
<1>8. FullTokens'
  BY <1>0, <1>1, <1>3, <1>4, <1>6, CountsNat, CountsNatNext, InRingNat DEF FullTokens, IInv
<1>9. DrainedAtExit'
  BY ProdConsAssumption DEF IInv, DrainedAtExit, OnlyMoves, Threads
<1> QED
  BY <1>1, <1>3, <1>7, <1>8, <1>9

\* A consumer that moves tokens between a semaphore and itself.
LEMMA ConsumerMovesToken ==
  ASSUME IInv, NEW c \in Consumers, OnlyMoves(c),
         UNCHANGED <<line, p_idx, c_idx, fpos, taken>>,
         empty' \in Nat, full' \in Nat,
         empty' + In(c, Freeing') + In(c, Gone) =
           empty + In(c, Freeing) + In(c, Gone'),
         full' + In(c, Claiming') = full + In(c, Claiming)
  PROVE  /\ Ended' = Ended
         /\ EmptyTokens' /\ FullTokens' /\ RingInv' /\ EndInv' /\ InOrder'
<1>0. empty \in Nat /\ full \in Nat
  BY DEF IInv, TypeOK
<1>1. Holding' = Holding /\ Posting' = Posting /\ Ended' = Ended
      /\ Storing' = Storing
  BY ConsumerCounts
<1>2. InRing' = InRing /\ RingInv' /\ EndInv' /\ InOrder'
  BY <1>1, RingUnchanged
<1>3. empty' + Cardinality(Freeing') + Cardinality(Gone) =
        empty + Cardinality(Freeing) + Cardinality(Gone')
  BY <1>0, InNat, ConsumerCounts, CountsNat, CountsNatNext
<1>4. full' + Cardinality(Claiming') = full + Cardinality(Claiming)
  BY <1>0, InNat, ConsumerCounts, CountsNat, CountsNatNext
<1>5. EmptyTokens /\ FullTokens /\ InRing \in Nat
  BY InRingNat DEF IInv
<1>6. EmptyTokens'
  BY <1>0, <1>1, <1>2, <1>3, <1>5, CountsNat, CountsNatNext DEF EmptyTokens
<1>7. FullTokens'
  BY <1>0, <1>1, <1>2, <1>4, <1>5, CountsNat, CountsNatNext DEF FullTokens
<1> QED
  BY <1>1, <1>2, <1>6, <1>7

-----------------------------------------------------------------------------
(* The steps of a producer *)

\* sem_wait(empty) of a producer keeps the invariant: the token is now the
\* producer's.
LEMMA WaitEmptyStep ==
  ASSUME IInv, NEW p \in Producers, WaitEmpty(p)
  PROVE  IInv'
<1>1. p \in Threads /\ p \notin Consumers
  BY ProdConsAssumption DEF Threads
<1>2. TypeOK'
  BY <1>1 DEF IInv, TypeOK, WaitEmpty, Goto
<1>3. OnlyMoves(p) /\ block' = block
      /\ UNCHANGED <<line, p_idx, c_idx, fpos, taken>>
  BY <1>1 DEF IInv, TypeOK, WaitEmpty, Goto, OnlyMoves
<1>4. pc[p] = "wait" /\ pc'[p] = "lock"
  BY <1>1 DEF IInv, TypeOK, WaitEmpty, Goto
<1>5. /\ p \notin Storing /\ p \notin Storing' /\ (p \in Ended' <=> p \in Ended)
      /\ empty' + In(p, Holding') = empty + In(p, Holding)
      /\ full' + In(p, Posting') = full + In(p, Posting)
  BY <1>1, <1>3, <1>4 DEF IInv, TypeOK, WaitEmpty, In, Storing, Ended, Holding, Posting
<1>6. /\ Ended' = Ended
      /\ EmptyTokens' /\ FullTokens' /\ RingInv' /\ EndInv'
      /\ DrainedAtExit' /\ InOrder'
  BY <1>2, <1>3, <1>5, ProducerMovesToken DEF TypeOK
<1>7. MutexInv'
  BY <1>1, <1>3, <1>4 DEF IInv, MutexInv, OnlyMoves, WaitEmpty, Threads
<1>8. LocalInv'
  BY <1>1, <1>3, <1>4, <1>6 DEF IInv, LocalInv, OnlyMoves, Threads
<1> QED
  BY <1>2, <1>6, <1>7, <1>8 DEF IInv

\* pthread_mutex_lock of a producer keeps the invariant.
LEMMA ProducerLockStep ==
  ASSUME IInv, NEW p \in Producers, Lock(p)
  PROVE  IInv'
<1>1. p \in Threads /\ p \notin Consumers
  BY ProdConsAssumption DEF Threads
<1>2. TypeOK'
  BY <1>1 DEF IInv, TypeOK, Lock, Goto
<1>3. OnlyMoves(p) /\ block' = block
      /\ UNCHANGED <<line, p_idx, c_idx, fpos, taken>>
  BY <1>1 DEF IInv, TypeOK, Lock, Goto, OnlyMoves
<1>4. pc[p] = "lock" /\ pc'[p] = "read"
  BY <1>1 DEF IInv, TypeOK, Lock, Goto
<1>5. /\ p \notin Storing /\ p \notin Storing' /\ (p \in Ended' <=> p \in Ended)
      /\ empty' + In(p, Holding') = empty + In(p, Holding)
      /\ full' + In(p, Posting') = full + In(p, Posting)
  BY <1>1, <1>3, <1>4 DEF IInv, TypeOK, Lock, In, Storing, Ended, Holding, Posting
<1>6. /\ Ended' = Ended
      /\ EmptyTokens' /\ FullTokens' /\ RingInv' /\ EndInv'
      /\ DrainedAtExit' /\ InOrder'
  BY <1>2, <1>3, <1>5, ProducerMovesToken DEF TypeOK
<1>7. MutexInv'
  BY <1>1, <1>3, <1>4, ProdConsAssumption
     DEF IInv, MutexInv, OnlyMoves, Lock, Threads
<1>8. LocalInv'
  BY <1>1, <1>3, <1>4, <1>6 DEF IInv, LocalInv, OnlyMoves, Threads
<1> QED
  BY <1>2, <1>6, <1>7, <1>8 DEF IInv

\* pthread_mutex_unlock of a producer keeps the invariant.
LEMMA UnlockProducerStep ==
  ASSUME IInv, NEW p \in Producers, UnlockProducer(p)
  PROVE  IInv'
<1>1. p \in Threads /\ p \notin Consumers
  BY ProdConsAssumption DEF Threads
<1>2. TypeOK'
  BY <1>1 DEF IInv, TypeOK, UnlockProducer, Goto
<1>3. OnlyMoves(p) /\ block' = block
      /\ UNCHANGED <<line, p_idx, c_idx, fpos, taken>>
  BY <1>1 DEF IInv, TypeOK, UnlockProducer, Goto, OnlyMoves
<1>4. pc[p] = "unlock" /\ pc'[p] = "post"
  BY <1>1 DEF IInv, TypeOK, UnlockProducer, Goto
<1>5. /\ p \notin Storing /\ p \notin Storing' /\ (p \in Ended' <=> p \in Ended)
      /\ empty' + In(p, Holding') = empty + In(p, Holding)
      /\ full' + In(p, Posting') = full + In(p, Posting)
  BY <1>1, <1>3, <1>4 DEF IInv, TypeOK, UnlockProducer, In, Storing, Ended, Holding, Posting
<1>6. /\ Ended' = Ended
      /\ EmptyTokens' /\ FullTokens' /\ RingInv' /\ EndInv'
      /\ DrainedAtExit' /\ InOrder'
  BY <1>2, <1>3, <1>5, ProducerMovesToken DEF TypeOK
<1>7. MutexInv'
  BY <1>1, <1>3, <1>4 DEF IInv, MutexInv, OnlyMoves, UnlockProducer, Threads
<1>8. LocalInv'
  BY <1>1, <1>3, <1>4, <1>6 DEF IInv, LocalInv, OnlyMoves, Threads
<1> QED
  BY <1>2, <1>6, <1>7, <1>8 DEF IInv

\* sem_post(full) of a producer keeps the invariant: the token it owed is in the
\* semaphore, and its end, if it ends, was counted when it saw the end of the file.
LEMMA PostFullStep ==
  ASSUME IInv, NEW p \in Producers, PostFull(p)
  PROVE  IInv'
<1>1. p \in Threads /\ p \notin Consumers
  BY ProdConsAssumption DEF Threads
<1>2. TypeOK'
  BY <1>1 DEF IInv, TypeOK, PostFull, Goto
<1>3. OnlyMoves(p) /\ block' = block
      /\ UNCHANGED <<line, p_idx, c_idx, fpos, taken>>
  BY <1>1 DEF IInv, TypeOK, PostFull, Goto, OnlyMoves
<1>4. pc[p] = "post" /\ pc'[p] = IF block[p] = NULL THEN "done" ELSE "wait"
  BY <1>1 DEF IInv, TypeOK, PostFull, Goto
<1>5. /\ p \notin Storing /\ p \notin Storing' /\ (p \in Ended' <=> p \in Ended)
      /\ empty' + In(p, Holding') = empty + In(p, Holding)
      /\ full' + In(p, Posting') = full + In(p, Posting)
  BY <1>1, <1>3, <1>4 DEF IInv, TypeOK, PostFull, In, Storing, Ended, Holding, Posting
<1>6. /\ Ended' = Ended
      /\ EmptyTokens' /\ FullTokens' /\ RingInv' /\ EndInv'
      /\ DrainedAtExit' /\ InOrder'
  BY <1>2, <1>3, <1>5, ProducerMovesToken DEF TypeOK
<1>7. MutexInv'
  BY <1>1, <1>3, <1>4 DEF IInv, MutexInv, OnlyMoves, PostFull, Threads
<1>8. LocalInv'
  BY <1>1, <1>3, <1>4, <1>6 DEF IInv, LocalInv, OnlyMoves, Threads
<1> QED
  BY <1>2, <1>6, <1>7, <1>8 DEF IInv

-----------------------------------------------------------------------------
(* The steps of a consumer *)

\* sem_wait(full) of a consumer keeps the invariant: the token is now the
\* consumer's.
LEMMA WaitFullStep ==
  ASSUME IInv, NEW c \in Consumers, WaitFull(c)
  PROVE  IInv'
<1>1. c \in Threads /\ c \notin Producers
  BY ProdConsAssumption DEF Threads
<1>2. TypeOK'
  BY <1>1 DEF IInv, TypeOK, WaitFull, Goto
<1>3. OnlyMoves(c) /\ block' = block
      /\ UNCHANGED <<line, p_idx, c_idx, fpos, taken>>
  BY <1>1 DEF IInv, TypeOK, WaitFull, Goto, OnlyMoves
<1>4. pc[c] = "wait" /\ pc'[c] = "lock"
  BY <1>1 DEF IInv, TypeOK, WaitFull, Goto
<1>5. /\ empty' + In(c, Freeing') + In(c, Gone) =
           empty + In(c, Freeing) + In(c, Gone')
      /\ full' + In(c, Claiming') = full + In(c, Claiming)
  BY <1>1, <1>3, <1>4 DEF IInv, TypeOK, WaitFull, In, Freeing, Gone, Claiming
<1>6. /\ Ended' = Ended
      /\ EmptyTokens' /\ FullTokens' /\ RingInv' /\ EndInv' /\ InOrder'
  BY <1>2, <1>3, <1>5, ConsumerMovesToken DEF TypeOK
<1>7. MutexInv'
  BY <1>1, <1>3, <1>4 DEF IInv, MutexInv, OnlyMoves, WaitFull, Threads
<1>8. LocalInv'
  BY <1>1, <1>3, <1>4, <1>6 DEF IInv, LocalInv, OnlyMoves, Threads
<1>9. DrainedAtExit'
  BY <1>1, <1>3, <1>4 DEF IInv, LocalInv, DrainedAtExit, OnlyMoves, Threads
<1> QED
  BY <1>2, <1>6, <1>7, <1>8, <1>9 DEF IInv

\* pthread_mutex_lock of a consumer keeps the invariant.
LEMMA ConsumerLockStep ==
  ASSUME IInv, NEW c \in Consumers, Lock(c)
  PROVE  IInv'
<1>1. c \in Threads /\ c \notin Producers
  BY ProdConsAssumption DEF Threads
<1>2. TypeOK'
  BY <1>1 DEF IInv, TypeOK, Lock, Goto
<1>3. OnlyMoves(c) /\ block' = block
      /\ UNCHANGED <<line, p_idx, c_idx, fpos, taken>>
  BY <1>1 DEF IInv, TypeOK, Lock, Goto, OnlyMoves
<1>4. pc[c] = "lock" /\ pc'[c] = "take"
  BY <1>1 DEF IInv, TypeOK, Lock, Goto
<1>5. /\ empty' + In(c, Freeing') + In(c, Gone) =
           empty + In(c, Freeing) + In(c, Gone')
      /\ full' + In(c, Claiming') = full + In(c, Claiming)
  BY <1>1, <1>3, <1>4 DEF IInv, TypeOK, Lock, In, Freeing, Gone, Claiming
<1>6. /\ Ended' = Ended
      /\ EmptyTokens' /\ FullTokens' /\ RingInv' /\ EndInv' /\ InOrder'
  BY <1>2, <1>3, <1>5, ConsumerMovesToken DEF TypeOK
<1>7. MutexInv'
  BY <1>1, <1>3, <1>4, ProdConsAssumption
     DEF IInv, MutexInv, OnlyMoves, Lock, Threads
<1>8. LocalInv'
  BY <1>1, <1>3, <1>4, <1>6 DEF IInv, LocalInv, OnlyMoves, Threads
<1>9. DrainedAtExit'
  BY <1>1, <1>3, <1>4 DEF IInv, LocalInv, DrainedAtExit, OnlyMoves, Threads
<1> QED
  BY <1>2, <1>6, <1>7, <1>8, <1>9 DEF IInv

\* pthread_mutex_unlock of a consumer keeps the invariant.
LEMMA UnlockConsumerStep ==
  ASSUME IInv, NEW c \in Consumers, UnlockConsumer(c)
  PROVE  IInv'
<1>1. c \in Threads /\ c \notin Producers
  BY ProdConsAssumption DEF Threads
<1>2. TypeOK'
  BY <1>1 DEF IInv, TypeOK, UnlockConsumer, Goto
<1>3. OnlyMoves(c) /\ block' = block
      /\ UNCHANGED <<line, p_idx, c_idx, fpos, taken>>
  BY <1>1 DEF IInv, TypeOK, UnlockConsumer, Goto, OnlyMoves
<1>4. pc[c] = "unlock" /\ pc'[c] = IF block[c] = NULL THEN "repost" ELSE "post"
  BY <1>1 DEF IInv, TypeOK, UnlockConsumer, Goto
<1>5. /\ empty' + In(c, Freeing') + In(c, Gone) =
           empty + In(c, Freeing) + In(c, Gone')
      /\ full' + In(c, Claiming') = full + In(c, Claiming)
  BY <1>1, <1>3, <1>4 DEF IInv, TypeOK, UnlockConsumer, In, Freeing, Gone, Claiming
<1>6. /\ Ended' = Ended
      /\ EmptyTokens' /\ FullTokens' /\ RingInv' /\ EndInv' /\ InOrder'
  BY <1>2, <1>3, <1>5, ConsumerMovesToken DEF TypeOK
<1>7. MutexInv'
  BY <1>1, <1>3, <1>4 DEF IInv, MutexInv, OnlyMoves, UnlockConsumer, Threads
<1>8. LocalInv'
  BY <1>1, <1>3, <1>4, <1>6 DEF IInv, LocalInv, OnlyMoves, Threads
<1>9. DrainedAtExit'
  BY <1>1, <1>3, <1>4 DEF IInv, LocalInv, DrainedAtExit, OnlyMoves, Threads
<1> QED
  BY <1>2, <1>6, <1>7, <1>8, <1>9 DEF IInv

\* sem_post(full) of a consumer that found the end keeps the invariant: it returns
\* the token it holds.
LEMMA RepostFullStep ==
  ASSUME IInv, NEW c \in Consumers, RepostFull(c)
  PROVE  IInv'
<1>1. c \in Threads /\ c \notin Producers
  BY ProdConsAssumption DEF Threads
<1>2. TypeOK'
  BY <1>1 DEF IInv, TypeOK, RepostFull, Goto
<1>3. OnlyMoves(c) /\ block' = block
      /\ UNCHANGED <<line, p_idx, c_idx, fpos, taken>>
  BY <1>1 DEF IInv, TypeOK, RepostFull, Goto, OnlyMoves
<1>4. pc[c] = "repost" /\ pc'[c] = "post"
  BY <1>1 DEF IInv, TypeOK, RepostFull, Goto
<1>5. /\ empty' + In(c, Freeing') + In(c, Gone) =
           empty + In(c, Freeing) + In(c, Gone')
      /\ full' + In(c, Claiming') = full + In(c, Claiming)
  BY <1>1, <1>3, <1>4
     DEF IInv, TypeOK, LocalInv, RepostFull, In, Freeing, Gone, Claiming
<1>6. /\ Ended' = Ended
      /\ EmptyTokens' /\ FullTokens' /\ RingInv' /\ EndInv' /\ InOrder'
  BY <1>2, <1>3, <1>5, ConsumerMovesToken DEF TypeOK
<1>7. MutexInv'
  BY <1>1, <1>3, <1>4 DEF IInv, MutexInv, OnlyMoves, RepostFull, Threads
<1>8. LocalInv'
  BY <1>1, <1>3, <1>4, <1>6 DEF IInv, LocalInv, OnlyMoves, Threads
<1>9. DrainedAtExit'
  BY <1>1, <1>3, <1>4 DEF IInv, LocalInv, DrainedAtExit, OnlyMoves, Threads
<1> QED
  BY <1>2, <1>6, <1>7, <1>8, <1>9 DEF IInv

\* sem_post(empty) of a consumer keeps the invariant.
LEMMA PostEmptyStep ==
  ASSUME IInv, NEW c \in Consumers, PostEmpty(c)
  PROVE  IInv'
<1>1. c \in Threads /\ c \notin Producers
  BY ProdConsAssumption DEF Threads
<1>2. TypeOK'
  BY <1>1 DEF IInv, TypeOK, PostEmpty, Goto
<1>3. OnlyMoves(c) /\ block' = block
      /\ UNCHANGED <<line, p_idx, c_idx, fpos, taken>>
  BY <1>1 DEF IInv, TypeOK, PostEmpty, Goto, OnlyMoves
<1>4. pc[c] = "post" /\ pc'[c] = IF block[c] = NULL THEN "done" ELSE "wait"
  BY <1>1 DEF IInv, TypeOK, PostEmpty, Goto
<1>5. /\ empty' + In(c, Freeing') + In(c, Gone) =
           empty + In(c, Freeing) + In(c, Gone')
      /\ full' + In(c, Claiming') = full + In(c, Claiming)
  BY <1>1, <1>3, <1>4 DEF IInv, TypeOK, PostEmpty, In, Freeing, Gone, Claiming
<1>6. /\ Ended' = Ended
      /\ EmptyTokens' /\ FullTokens' /\ RingInv' /\ EndInv' /\ InOrder'
  BY <1>2, <1>3, <1>5, ConsumerMovesToken DEF TypeOK
<1>7. MutexInv'
  BY <1>1, <1>3, <1>4 DEF IInv, MutexInv, OnlyMoves, PostEmpty, Threads
<1>8. LocalInv'
  BY <1>1, <1>3, <1>4, <1>6 DEF IInv, LocalInv, OnlyMoves, Threads
<1>9. DrainedAtExit'
  BY <1>1, <1>3, <1>4 DEF IInv, LocalInv, DrainedAtExit, OnlyMoves, Threads
<1> QED
  BY <1>2, <1>6, <1>7, <1>8, <1>9 DEF IInv

-----------------------------------------------------------------------------
(* The steps on the file and on the ring *)

\* While nobody has left without a block, a producer that holds a token of empty
\* finds a free slot; once somebody has, the ring is empty.
LEMMA RoomForHolder ==
  ASSUME IInv, EnoughBlocks, NEW p \in Holding
  PROVE  InRing < Blocks
<1>1. InRing \in Nat /\ empty \in Nat /\ EmptyTokens /\ Blocks \in Nat \ {0}
  BY InRingNat, ProdConsAssumption DEF IInv, TypeOK
<1>2. Cardinality(Holding) >= 1
  BY FiniteCounts, CountsNat, FS_EmptySet
<1>3. CASE Gone = {}
  <2>1. Cardinality(Gone) = 0
    BY <1>3, FS_EmptySet
  <2> QED
    BY <1>1, <1>2, <2>1, CountsNat DEF EmptyTokens, EnoughBlocks
<1>4. CASE Gone # {}
  <2>1. PICK c \in Consumers : pc[c] = "done"
    BY <1>4 DEF Gone
  <2>2. Len(taken) = FileBlocks
    BY <2>1 DEF IInv, LocalInv, DrainedAtExit
  <2>3. InRing <= 0
    BY <2>2, CountsNat, ProdConsAssumption DEF IInv, TypeOK, InRing, Stored
  <2> QED
    BY <1>1, <2>3
<1> QED
  BY <1>3, <1>4

\* fread by a producer keeps the invariant: at the end of the file nobody else is
\* about to store a block, so the file is all in the ring or taken.
LEMMA ReadStep ==
  ASSUME IInv, NEW p \in Producers, Read(p)
  PROVE  IInv'
<1>1. p \in Threads /\ p \notin Consumers /\ pc[p] = "read" /\ pc'[p] = "store"
  BY ProdConsAssumption DEF Threads, Read, Goto, IInv, TypeOK
<1>2. TypeOK'
  <2>1. fpos' \in 0..FileBlocks /\ block' \in [Threads -> 0..Garbage]
    BY <1>1, ProdConsAssumption DEF IInv, TypeOK, Read, Garbage, NULL
  <2> QED
    BY <1>1, <2>1 DEF IInv, TypeOK, Read, Goto
<1>3. OnlyMoves(p) /\ UNCHANGED <<line, p_idx, c_idx, taken, empty, full, mutex>>
  BY <1>1 DEF IInv, TypeOK, Read, Goto, OnlyMoves
<1>4. /\ p \notin Ended /\ p \notin Ended' /\ p \in Holding /\ p \in Holding'
      /\ p \notin Posting /\ p \notin Posting' /\ p \notin Storing
  BY <1>1 DEF Ended, Holding, Posting, Storing
<1>5. Ended' = Ended
  BY <1>3, <1>4, ProducerCounts, SameSet
<1>6. Stored' = Stored
  <2>1. CASE fpos < FileBlocks
    <3>1. fpos' = fpos + 1 /\ p \in Storing'
      BY <1>1, <2>1 DEF Read, Storing, IInv, TypeOK, NULL
    <3>2. Cardinality(Storing') = Cardinality(Storing) + 1
      BY <1>3, <1>4, <3>1, ProducerCounts, CountsNat DEF In
    <3> QED
      BY <3>1, <3>2, CountsNat DEF Stored, IInv, TypeOK
  <2>2. CASE ~(fpos < FileBlocks)
    <3>1. fpos' = fpos /\ p \notin Storing'
      BY <1>1, <2>2 DEF Read, Storing, IInv, TypeOK
    <3>2. Cardinality(Storing') = Cardinality(Storing)
      BY <1>3, <1>4, <3>1, ProducerCounts, CountsNat DEF In
    <3> QED
      BY <3>1, <3>2 DEF Stored
  <2> QED
    BY <2>1, <2>2
<1>7. InRing' = InRing
  BY <1>3, <1>6 DEF InRing
<1>8. RingInv' /\ EndInv' /\ InOrder'
  BY <1>3, <1>5, <1>6, <1>7 DEF IInv, RingInv, EndInv, InOrder, Wrap
<1>9. DrainedAtExit'
  BY <1>1, <1>3 DEF IInv, DrainedAtExit, OnlyMoves, Threads
<1>10. /\ Claiming' = Claiming /\ Freeing' = Freeing /\ Gone' = Gone
       /\ Cardinality(Holding') = Cardinality(Holding)
       /\ Cardinality(Posting') = Cardinality(Posting)
  BY <1>3, <1>4, ProducerCounts, CountsNat DEF In
<1>11. EmptyTokens' /\ FullTokens'
  BY <1>3, <1>5, <1>7, <1>10 DEF IInv, EmptyTokens, FullTokens
<1>12. MutexInv'
  BY <1>1, <1>3 DEF IInv, MutexInv, OnlyMoves, Threads
<1>13. \A q \in Producers \ {p} : pc'[q] # "store"
  BY <1>1, <1>3 DEF IInv, MutexInv, OnlyMoves, Threads
<1>14. Ended # {} => fpos = FileBlocks
  <2>1. Stored <= fpos /\ fpos \in 0..FileBlocks
    BY CountsNat DEF IInv, TypeOK, Stored
  <2> QED
    BY <2>1, ProdConsAssumption DEF IInv, EndInv
<1>15. LocalInv'
  <2>1. /\ block'[p] = NULL => fpos' = FileBlocks
        /\ block'[p] # NULL => block'[p] = fpos' /\ Ended' = {}
    BY <1>1, <1>5, <1>14, ProdConsAssumption DEF Read, IInv, TypeOK, NULL
  <2> QED
    BY <1>1, <1>3, <1>13, <2>1 DEF IInv, LocalInv, OnlyMoves, Threads
<1> QED
  BY <1>2, <1>8, <1>9, <1>11, <1>12, <1>15 DEF IInv

\* The store into the ring keeps the invariant: by RoomForHolder the slot at p_idx
\* holds no block that is still to be taken.
LEMMA StoreStep ==
  ASSUME IInv, EnoughBlocks, NEW p \in Producers, Store(p)
  PROVE  IInv'
<1>1. p \in Threads /\ p \notin Consumers /\ pc[p] = "store" /\ pc'[p] = "unlock"
  BY ProdConsAssumption DEF Threads, Store, Goto, IInv, TypeOK
<1>2. /\ OnlyMoves(p) /\ UNCHANGED <<block, empty, full, mutex, c_idx, fpos, taken>>
      /\ line' = [line EXCEPT ![p_idx] = block[p]]
  BY <1>1 DEF IInv, TypeOK, Store, Goto, OnlyMoves
<1>3. p_idx' = IF block[p] = NULL THEN p_idx ELSE Wrap(p_idx + 1)
  BY NextSlot DEF IInv, TypeOK, Store, PutIndex
<1>4. TypeOK'
  BY <1>1, <1>2, <1>3, ProdConsAssumption
     DEF IInv, TypeOK, Store, Goto, Wrap, Slots, NULL
<1>5. /\ p \in Holding /\ p \notin Holding' /\ p \notin Posting /\ p \in Posting'
      /\ p \notin Ended /\ p \notin Storing'
      /\ p \in Ended' <=> block[p] = NULL
      /\ p \in Storing <=> block[p] # NULL
  BY <1>1, <1>2 DEF Holding, Posting, Ended, Storing
<1>6. InRing \in Nat /\ InRing < Blocks /\ p_idx = Wrap(c_idx + InRing)
      /\ c_idx \in Slots /\ Blocks \in Nat \ {0}
  BY <1>5, RoomForHolder, InRingNat, ProdConsAssumption DEF IInv, TypeOK, RingInv
<1>7. /\ Claiming' = Claiming /\ Freeing' = Freeing /\ Gone' = Gone
      /\ Cardinality(Holding') = Cardinality(Holding) - 1
      /\ Cardinality(Posting') = Cardinality(Posting) + 1
      /\ block[p] = NULL => Cardinality(Ended') = Cardinality(Ended) + 1
                            /\ Storing' = Storing
      /\ block[p] # NULL => Ended' = Ended
                            /\ Cardinality(Storing') = Cardinality(Storing) - 1
  <2>1. /\ Claiming' = Claiming /\ Freeing' = Freeing /\ Gone' = Gone
        /\ Cardinality(Holding') = Cardinality(Holding) - 1
        /\ Cardinality(Posting') = Cardinality(Posting) + 1
    BY <1>2, <1>5, ProducerCounts, CountsNat DEF In
  <2>2. CASE block[p] = NULL
    <3>1. Cardinality(Ended') = Cardinality(Ended) + 1
      BY <1>2, <1>5, <2>2, ProducerCounts, CountsNat DEF In
    <3>2. Storing' = Storing
      BY <1>1, <1>2, <2>2 DEF Storing, OnlyMoves, Threads
    <3> QED
      BY <2>1, <2>2, <3>1, <3>2
  <2>3. CASE block[p] # NULL
    <3>1. Cardinality(Storing') = Cardinality(Storing) - 1
      BY <1>2, <1>5, <2>3, ProducerCounts, CountsNat DEF In
    <3>2. Ended' = Ended
      BY <1>2, <1>5, <2>3, ProducerCounts, SameSet
    <3> QED
      BY <2>1, <2>3, <3>1, <3>2
  <2> QED
    BY <2>2, <2>3
<1>8. /\ block[p] = NULL => Stored' = Stored /\ InRing' = InRing
      /\ block[p] # NULL => Stored' = Stored + 1 /\ InRing' = InRing + 1
  <2>1. CASE block[p] = NULL
    <3>1. Stored' = Stored
      BY <1>2, <1>7, <2>1 DEF Stored
    <3> QED
      BY <1>2, <2>1, <3>1 DEF InRing
  <2>2. CASE block[p] # NULL
    <3>0. fpos \in Int /\ Cardinality(Storing) \in Int
      BY CountsNat, Numbers
    <3>1. Stored' = Stored + 1
      BY <1>2, <1>7, <2>2, <3>0 DEF Stored
    <3> QED
      BY SMTT(60), <1>2, <2>2, <3>1, Numbers DEF InRing
  <2> QED
    BY <2>1, <2>2
<1>9. EmptyTokens' /\ FullTokens'
  <2>1. /\ EmptyTokens /\ FullTokens
        /\ empty \in Nat /\ full \in Nat /\ InRing \in Nat
    BY Numbers DEF IInv
  <2>2. InRing' + Cardinality(Ended') = InRing + Cardinality(Ended) + 1
        /\ InRing' \in Nat /\ Cardinality(Ended') \in Nat
    BY <1>7, <1>8, <2>1, CountsNat
  <2>3. EmptyTokens'
    BY <1>2, <1>7, <2>1, <2>2, CountsNat DEF EmptyTokens
  <2>4. FullTokens'
    BY <1>2, <1>7, <2>1, <2>2, CountsNat DEF FullTokens
  <2> QED
    BY <2>3, <2>4
<1>10. block[p] # NULL => block[p] = Len(taken) + 1 + InRing
  <2>1. ASSUME block[p] # NULL PROVE Storing = {p}
    BY <1>1, <2>1 DEF Storing, IInv, MutexInv, Threads
  <2> QED
    <3>1. block[p] # NULL => Cardinality(Storing) = 1 /\ block[p] = fpos
      BY <1>1, <2>1, FS_Singleton DEF IInv, LocalInv
    <3>2. fpos \in Int /\ Len(taken) \in Int
      BY Numbers
    <3>3. block[p] # NULL => InRing = fpos - 1 - Len(taken)
      BY <3>1 DEF Stored, InRing
    <3> QED
      BY <3>1, <3>2, <3>3
<1>11. RingInv'
  <2>1. \A i \in 0..(InRing - 1) : Wrap(c_idx + i) # p_idx /\ Wrap(c_idx + i) \in Slots
    BY <1>6 DEF Wrap, Slots
  <2>2. \A i \in 0..(InRing - 1) : line'[Wrap(c_idx + i)] = Len(taken) + 1 + i
    BY <1>2, <2>1 DEF IInv, RingInv, TypeOK
  <2>3. CASE block[p] = NULL
    BY <1>2, <1>3, <1>8, <2>2, <2>3 DEF IInv, RingInv, Wrap
  <2>4. CASE block[p] # NULL
    <3>1. InRing' \in 0..Blocks /\ p_idx' = Wrap(c_idx' + InRing')
      BY <1>2, <1>3, <1>6, <1>8, <2>4 DEF Wrap, Slots
    <3>2. line'[Wrap(c_idx + InRing)] = Len(taken) + 1 + InRing
      BY <1>2, <1>6, <1>10, <2>4 DEF IInv, TypeOK
    <3>3. \A i \in 0..InRing : line'[Wrap(c_idx + i)] = Len(taken) + 1 + i
      BY <1>6, <2>2, <3>2
    <3> QED
      BY <1>2, <1>6, <1>8, <2>4, <3>1, <3>3, 0..(InRing' - 1) = 0..InRing
         DEF RingInv, Wrap
  <2> QED
    BY <2>3, <2>4
<1>12. EndInv'
  <2>1. CASE block[p] = NULL
    <3>1. Storing = {} /\ fpos = FileBlocks
      BY <1>1, <2>1 DEF Storing, IInv, MutexInv, LocalInv, Threads
    <3>2. Stored = FileBlocks
      BY <3>1, FS_EmptySet, ProdConsAssumption DEF Stored
    <3>3. line'[p_idx'] = NULL
      BY <1>2, <1>3, <2>1 DEF IInv, TypeOK
    <3> QED
      BY <1>8, <2>1, <3>2, <3>3 DEF EndInv
  <2>2. CASE block[p] # NULL
    BY <1>1, <1>7, <2>2 DEF IInv, LocalInv, EndInv
  <2> QED
    BY <2>1, <2>2
<1>13. DrainedAtExit' /\ InOrder'
  BY <1>1, <1>2 DEF IInv, DrainedAtExit, InOrder, OnlyMoves, Threads
<1>14. MutexInv'
  BY <1>1, <1>2 DEF IInv, MutexInv, OnlyMoves, Threads
<1>15. LocalInv'
  <2>1. \A q \in Producers \ {p} : pc'[q] # "store"
    BY <1>1, <1>2 DEF IInv, MutexInv, OnlyMoves, Threads
  <2> QED
    BY <1>1, <1>2, <2>1 DEF IInv, LocalInv, OnlyMoves, Threads
<1> QED
  BY <1>4, <1>9, <1>11, <1>12, <1>13, <1>14, <1>15 DEF IInv

\* The take out of the ring keeps the invariant: the consumer finds NULL at c_idx
\* only when the ring is empty and the whole file has been taken.
LEMMA TakeStep ==
  ASSUME IInv, NEW c \in Consumers, Take(c)
  PROVE  IInv'
<1>1. c \in Threads /\ c \notin Producers /\ pc[c] = "take" /\ pc'[c] = "unlock"
  BY ProdConsAssumption DEF Threads, Take, Goto, IInv, TypeOK
<1>2. /\ OnlyMoves(c) /\ UNCHANGED <<empty, full, mutex, p_idx, fpos>>
      /\ block' = [block EXCEPT ![c] = line[c_idx]]
      /\ line' = [line EXCEPT ![c_idx] = NULL]
      /\ taken' = IF line[c_idx] = NULL THEN taken ELSE Append(taken, line[c_idx])
  BY <1>1 DEF IInv, TypeOK, Take, Goto, OnlyMoves
<1>3. c_idx' = (IF line[c_idx] = NULL THEN c_idx ELSE Wrap(c_idx + 1))
      /\ c_idx' \in Slots /\ c_idx \in Slots
  BY NextSlot DEF IInv, TypeOK, Take, TakeIndex
<1>4. line[c_idx] \in 0..Garbage /\ block'[c] = line[c_idx]
  BY <1>1, <1>2, <1>3 DEF IInv, TypeOK
<1>5. TypeOK'
  <2>1. taken' \in Seq(1..Garbage)
    <3>1. taken \in Seq(1..Garbage) /\ Garbage \in Nat
      BY ProdConsAssumption DEF IInv, TypeOK, Garbage
    <3>2. line[c_idx] # NULL => line[c_idx] \in 1..Garbage
      BY <1>4, <3>1 DEF NULL
    <3>3. CASE line[c_idx] = NULL
      BY <1>2, <3>1, <3>3
    <3>4. CASE line[c_idx] # NULL
      BY <1>2, <3>1, <3>2, <3>4
    <3> QED
      BY <3>3, <3>4
  <2>2. line' \in [Slots -> 0..Garbage] /\ block' \in [Threads -> 0..Garbage]
    <3>1. NULL \in 0..Garbage
      BY ProdConsAssumption DEF NULL, Garbage
    <3> QED
      BY <1>2, <1>4, <3>1 DEF IInv, TypeOK
  <2> QED
    BY <1>1, <1>2, <1>3, <2>1, <2>2 DEF IInv, TypeOK, Take, Goto
<1>6. Holding' = Holding /\ Posting' = Posting /\ Ended' = Ended /\ Storing' = Storing
  BY <1>2, ConsumerCounts
<1>7. /\ c \in Claiming /\ c \notin Freeing /\ c \notin Gone /\ c \notin Gone'
      /\ c \in Claiming' <=> line[c_idx] = NULL
      /\ c \in Freeing' <=> line[c_idx] # NULL
  BY <1>1, <1>4 DEF Claiming, Freeing, Gone
<1>8. Storing = {}
  BY <1>1 DEF Storing, IInv, MutexInv, Threads
<1>9. Stored' = Stored /\ Stored = fpos
  BY <1>2, <1>6, <1>8, FS_EmptySet, Numbers DEF Stored
\* The token of full the consumer holds stands for a block or for an end.
<1>10. InRing + Cardinality(Ended) >= 1
  <2>1. Cardinality(Claiming) >= 1
    BY <1>7, FiniteCounts, CountsNat, FS_EmptySet
  <2> QED
    <3>1. FullTokens /\ full \in Nat /\ InRing \in Nat
      BY Numbers DEF IInv
    <3> QED
      BY <2>1, <3>1, CountsNat DEF FullTokens
<1>11. InRing = 0 => line[c_idx] = NULL /\ Len(taken) = FileBlocks
  <2> SUFFICES ASSUME InRing = 0 PROVE line[c_idx] = NULL /\ Len(taken) = FileBlocks
    OBVIOUS
  <2>1. Ended # {}
    BY <1>10, CountsNat, FS_EmptySet
  <2>2. p_idx = c_idx
    BY Numbers DEF IInv, RingInv, Wrap
  <2>3. Len(taken) = Stored
    BY Numbers DEF InRing
  <2> QED
    BY <2>1, <2>2, <2>3 DEF IInv, EndInv
<1>12. InRing > 0 => line[c_idx] = Len(taken) + 1 /\ line[c_idx] # NULL
  <2> SUFFICES ASSUME InRing > 0
               PROVE  line[c_idx] = Len(taken) + 1 /\ line[c_idx] # NULL
    OBVIOUS
  <2>1. 0 \in 0..(InRing - 1) /\ Wrap(c_idx + 0) = c_idx
    BY Numbers DEF Wrap
  <2> QED
    BY <2>1, Numbers DEF IInv, RingInv, NULL
<1>13. ASSUME line[c_idx] = NULL
       PROVE  EmptyTokens' /\ FullTokens' /\ RingInv' /\ EndInv' /\ DrainedAtExit'
              /\ InOrder'
  <2>1. InRing = 0 /\ Len(taken) = FileBlocks
    BY <1>11, <1>12, <1>13, Numbers
  <2>2. /\ taken' = taken /\ c_idx' = c_idx /\ line' = line
        /\ Stored' = Stored /\ InRing' = InRing
    BY <1>2, <1>3, <1>9, <1>13 DEF IInv, TypeOK, InRing
  <2>3. RingInv' /\ EndInv' /\ InOrder'
    BY <1>2, <1>6, <2>2 DEF IInv, RingInv, EndInv, InOrder, Wrap
  <2>4. Freeing' = Freeing /\ Gone' = Gone /\ Claiming' = Claiming
    BY <1>1, <1>2, <1>4, <1>13
       DEF Freeing, Gone, Claiming, OnlyMoves, Threads
  <2>5. EmptyTokens' /\ FullTokens'
    BY <1>2, <1>6, <2>2, <2>4 DEF IInv, EmptyTokens, FullTokens
  <2>6. DrainedAtExit'
    BY <2>1, <2>2 DEF DrainedAtExit
  <2> QED
    BY <2>3, <2>5, <2>6
<1>14. ASSUME line[c_idx] # NULL
       PROVE  EmptyTokens' /\ FullTokens' /\ RingInv' /\ EndInv' /\ DrainedAtExit'
              /\ InOrder'
  <2>1. InRing > 0 /\ line[c_idx] = Len(taken) + 1
    BY <1>11, <1>12, <1>14, Numbers
  <2>2. taken' = Append(taken, Len(taken) + 1) /\ Len(taken') = Len(taken) + 1
    BY <1>2, <1>14, <2>1 DEF IInv, TypeOK
  <2>3. InRing' = InRing - 1
    BY <1>9, <2>2, Numbers DEF InRing
  <2>4. InOrder'
    BY <2>2 DEF IInv, TypeOK, InOrder
  <2>5. RingInv'
    <3>1. /\ c_idx' = Wrap(c_idx + 1) /\ p_idx = Wrap(c_idx + InRing)
          /\ InRing \in 1..Blocks /\ Blocks \in Nat /\ c_idx \in 0..(Blocks - 1)
      BY <1>3, <1>14, <2>1, Numbers DEF IInv, RingInv
    <3>2. InRing' \in 0..Blocks
      BY <2>3, <3>1
    <3>3. p_idx' = Wrap(c_idx' + InRing')
      <4>1. Wrap(Wrap(c_idx + 1) + (InRing - 1)) = Wrap(c_idx + InRing)
        BY <3>1 DEF Wrap
      <4> QED
        BY <1>2, <2>3, <3>1, <4>1
    <3>4. ASSUME NEW i \in 0..(InRing' - 1)
          PROVE  line'[Wrap(c_idx' + i)] = Len(taken') + 1 + i
      <4>0. i \in Nat /\ i + 1 <= InRing - 1
        BY <2>3, <3>1
      <4>1. /\ i + 1 \in 0..(InRing - 1)
            /\ Wrap(Wrap(c_idx + 1) + i) = Wrap(c_idx + (i + 1))
            /\ Wrap(c_idx + (i + 1)) # c_idx
        BY <3>1, <4>0 DEF Wrap
      <4>2. line[Wrap(c_idx + (i + 1))] = Len(taken) + 1 + (i + 1)
        BY <4>1 DEF IInv, RingInv
      <4>3. Wrap(c_idx + (i + 1)) \in Slots
        BY <3>1, <4>0 DEF Wrap, Slots
      <4>4. line'[Wrap(c_idx + (i + 1))] = line[Wrap(c_idx + (i + 1))]
        BY <1>2, <4>1, <4>3 DEF IInv, TypeOK
      <4> QED
        BY <2>2, <3>1, <4>0, <4>1, <4>2, <4>4, Numbers
    <3> QED
      BY <3>2, <3>3, <3>4 DEF RingInv, Wrap
  <2>6. EndInv'
    BY <1>2, <1>6, <1>9 DEF IInv, TypeOK, EndInv
  <2>7. /\ Cardinality(Claiming') = Cardinality(Claiming) - 1
        /\ Cardinality(Freeing') = Cardinality(Freeing) + 1
        /\ Cardinality(Gone') = Cardinality(Gone)
    BY SMTT(60), <1>2, <1>7, <1>14, ConsumerCounts, CountsNat DEF In
  <2>8. EmptyTokens /\ FullTokens /\ empty \in Nat /\ full \in Nat /\ InRing \in Nat
    BY Numbers DEF IInv
  <2>9. EmptyTokens' /\ FullTokens'
    <3>1. /\ Cardinality(Holding') = Cardinality(Holding)
          /\ Cardinality(Posting') = Cardinality(Posting)
          /\ Cardinality(Ended') = Cardinality(Ended)
      BY <1>6
    <3>2. /\ Cardinality(Claiming') \in Nat /\ Cardinality(Freeing') \in Nat
          /\ InRing' \in Int
      BY <2>3, <2>8, CountsNatNext
    <3>3. EmptyTokens'
      BY SMTT(60), <1>2, <2>3, <2>7, <2>8, <3>1, <3>2, CountsNat DEF EmptyTokens
    <3>4. FullTokens'
      <4>1. full + Cardinality(Claiming) + Cardinality(Posting)
              = InRing + Cardinality(Ended)
        BY <2>8 DEF FullTokens
      <4>2. full + (Cardinality(Claiming) - 1) + Cardinality(Posting)
              = (InRing - 1) + Cardinality(Ended)
        BY <2>8, <4>1, CountsNat
      <4> QED
        BY <1>2, <2>3, <2>7, <3>1, <4>2 DEF FullTokens
    <3> QED
      BY <3>3, <3>4
  <2>10. DrainedAtExit'
    <3>1. Len(taken) < FileBlocks
      BY <1>9, <2>1, Numbers DEF InRing
    <3>2. \A d \in Consumers :
            ~(block[d] = NULL /\ pc[d] \in {"unlock", "repost", "post", "done"})
      BY <3>1, Numbers DEF IInv, DrainedAtExit
    <3> QED
      BY <1>2, <1>4, <1>14, <3>2 DEF DrainedAtExit, OnlyMoves, Threads
  <2> QED
    BY <2>4, <2>5, <2>6, <2>9, <2>10
<1>15. MutexInv'
  BY <1>1, <1>2 DEF IInv, MutexInv, OnlyMoves, Threads
<1>16. LocalInv'
  BY <1>1, <1>2, <1>6 DEF IInv, LocalInv, OnlyMoves, Threads
<1> QED
  BY <1>5, <1>13, <1>14, <1>15, <1>16 DEF IInv

-----------------------------------------------------------------------------
(* The theorems *)

\* A step that changes nothing.
LEMMA StutterStep ==
  ASSUME IInv, UNCHANGED vars
  PROVE  IInv'
BY SMTT(60) DEF vars, IInv, TypeOK, MutexInv, LocalInv, EmptyTokens, FullTokens, RingInv,
       EndInv, DrainedAtExit, InOrder, Stored, InRing, Storing, Holding, Posting,
       Ended, Claiming, Freeing, Gone, Wrap

\* IInv is inductive when there are as many slots as producers.
THEOREM StepIInv ==
  ASSUME EnoughBlocks, IInv, [Next]_vars
  PROVE  IInv'
<1>1. ASSUME NEW p \in Producers, ProducerStep(p)
      PROVE  IInv'
  BY <1>1, ProducerLockStep, WaitEmptyStep, ReadStep, StoreStep,
     UnlockProducerStep, PostFullStep DEF ProducerStep
<1>2. ASSUME NEW c \in Consumers, ConsumerStep(c)
      PROVE  IInv'
  BY <1>2, ConsumerLockStep, WaitFullStep, TakeStep, UnlockConsumerStep,
     RepostFullStep, PostEmptyStep DEF ConsumerStep
<1>3. CASE UNCHANGED vars
  BY <1>3, StutterStep
<1> QED
  BY <1>1, <1>2, <1>3 DEF Next

\* Whatever the numbers of producers, consumers, slots and blocks, if there are
\* as many slots as producers the invariant of the token protocol always holds.
THEOREM Invariance ==
  ASSUME EnoughBlocks
  PROVE  Spec => []IInv
<1>1. Init => IInv
  BY InitIInv
<1>2. IInv /\ [Next]_vars => IInv'
  BY StepIInv
<1> QED
  BY <1>1, <1>2, PTL DEF Spec

\* So every block of the file reaches the consumers once and in order
\* (no_work_prod and no_work_cons of main.c).
THEOREM DeliveredInOrder ==
  ASSUME EnoughBlocks
  PROVE  Spec => []InOrder
<1>1. IInv => InOrder
  BY DEF IInv
<1> QED
  BY <1>1, Invariance, PTL

\* And a consumer leaves only when the whole file has been taken.
THEOREM NothingLeftBehind ==
  ASSUME EnoughBlocks
  PROVE  Spec => []DrainedAtExit
<1>1. IInv => DrainedAtExit
  BY DEF IInv
<1> QED
  BY <1>1, Invariance, PTL

-----------------------------------------------------------------------------
(* The threads implement BlockStream.  Under the inductive invariant what is   *)
(* unread and what is in the ring are both segments of the file, so a step of  *)
(* the threads is judged by what it does to three things only: the number of   *)
(* blocks stored, the history of blocks taken, and the set of threads that saw *)
(* the end.                                                                    *)

\* Blocks m + 1 to n of the file.
Segment(m, n) == [i \in 1..(n - m) |-> m + i]

\* A segment is a sequence of its length.
LEMMA SegmentType ==
  ASSUME NEW m \in Int, NEW n \in Int, m <= n
  PROVE  /\ Segment(m, n) \in Seq(Int)
         /\ Len(Segment(m, n)) = n - m
         /\ Segment(m, n) = <<>> <=> m = n
<1>1. n - m \in Nat /\ \A i \in 1..(n - m) : m + i \in Int
  OBVIOUS
<1>2. Segment(m, n) \in Seq(Int) /\ Len(Segment(m, n)) = n - m
  BY <1>1 DEF Segment
<1>3. Segment(m, n) = <<>> <=> m = n
  BY <1>1, <1>2
<1> QED
  BY <1>2, <1>3

\* Sequences of the same length and elements are equal.
LEMMA SeqEqual ==
  ASSUME NEW S, NEW s \in Seq(S), NEW t \in Seq(S), Len(s) = Len(t),
         \A i \in 1..Len(s) : s[i] = t[i]
  PROVE  s = t
OBVIOUS

\* Taking the first block of a segment, and putting the next one at its end.
LEMMA SegmentEnds ==
  ASSUME NEW m \in Int, NEW n \in Int, m <= n
  PROVE  /\ Append(Segment(m, n), n + 1) = Segment(m, n + 1)
         /\ m < n => Head(Segment(m, n)) = m + 1 /\ Tail(Segment(m, n)) = Segment(m + 1, n)
<1>1. Append(Segment(m, n), n + 1) = Segment(m, n + 1)
  <2>1. Segment(m, n) \in Seq(Int) /\ Len(Segment(m, n)) = n - m
    BY SegmentType
  <2>2. Segment(m, n + 1) \in Seq(Int) /\ Len(Segment(m, n + 1)) = n - m + 1
    BY SegmentType, m <= n + 1
  <2> QED
    BY <2>1, <2>2 DEF Segment
<1>2. ASSUME m < n
      PROVE  Head(Segment(m, n)) = m + 1 /\ Tail(Segment(m, n)) = Segment(m + 1, n)
  <2>1. Segment(m, n) \in Seq(Int) /\ Len(Segment(m, n)) = n - m
    BY SegmentType
  <2>2. Segment(m + 1, n) \in Seq(Int) /\ Len(Segment(m + 1, n)) = n - (m + 1)
    BY <1>2, SegmentType
  <2>3. Head(Segment(m, n)) = m + 1
    BY <1>2, <2>1 DEF Segment
  <2>4. /\ Tail(Segment(m, n)) \in Seq(Int)
        /\ Len(Tail(Segment(m, n))) = n - m - 1
        /\ \A i \in 1..(n - m - 1) : Tail(Segment(m, n))[i] = Segment(m, n)[i + 1]
    BY <1>2, <2>1
  <2>5. \A i \in 1..(n - m - 1) : Tail(Segment(m, n))[i] = Segment(m + 1, n)[i]
    BY <1>2, <2>4 DEF Segment
  <2>6. Len(Segment(m + 1, n)) = Len(Tail(Segment(m, n)))
        /\ Len(Segment(m + 1, n)) = n - m - 1
    BY <2>2, <2>4
  <2>7. Tail(Segment(m, n)) = Segment(m + 1, n)
    BY <2>2, <2>4, <2>5, <2>6, SeqEqual
  <2> QED
    BY <2>3, <2>7
<1> QED
  BY <1>1, <1>2

-----------------------------------------------------------------------------
(* The mapping under the invariant *)

\* Threads that saw the end of the file.
Seen == {t \in Threads : SawEnd(t)}

\* What is stored and not taken is what is in the ring, and what is not stored is
\* still to come.
LEMMA Bounds ==
  ASSUME IInv
  PROVE  /\ Len(taken) \in Int /\ Stored \in Int /\ FileBlocks \in Int
         /\ InRing = Stored - Len(taken)
         /\ Len(taken) <= Stored /\ Stored <= FileBlocks
<1>1. InRing = Stored - Len(taken)
  BY DEF InRing
<1>2. Stored <= fpos
  <2>1. Cardinality(Storing) \in Nat /\ fpos \in Int
    BY CountsNat, Numbers
  <2> QED
    BY <2>1 DEF Stored
<1> QED
  BY <1>1, <1>2, Numbers

\* The ring holds the segment of the file between the two.
LEMMA RingIsSegment ==
  ASSUME IInv
  PROVE  RingContents = Segment(Len(taken), Stored)
<1>1. InRing \in Nat /\ c_idx \in Nat /\ InRing = Stored - Len(taken)
  BY Numbers, Bounds
<1>2. ASSUME NEW i \in 1..InRing
      PROVE  line[Wrap(c_idx + i - 1)] = Len(taken) + i
  <2>1. i - 1 \in 0..(InRing - 1) /\ c_idx + i - 1 = c_idx + (i - 1)
    BY <1>1
  <2>2. line[Wrap(c_idx + (i - 1))] = Len(taken) + 1 + (i - 1)
    BY <2>1 DEF IInv, RingInv
  <2> QED
    BY <2>1, <2>2, Numbers
<1> QED
  BY <1>1, <1>2 DEF RingContents, Segment

\* Both in one, for a state and for the state after a step.
Mapped ==
  /\ Len(taken) \in Int /\ Stored \in Int
  /\ Len(taken) <= Stored /\ Stored <= FileBlocks
  /\ RingContents = Segment(Len(taken), Stored)

\* The invariant gives both.
LEMMA IsMapped == IInv => Mapped
BY Bounds, RingIsSegment DEF Mapped

\* After a step too.
LEMMA IsMappedNext == IInv' => Mapped'
BY IsMapped, PTL

\* A step that leaves the three things alone is a stutter.
LEMMA Stutter ==
  ASSUME IInv, IInv', Stored' = Stored, taken' = taken, Seen' = Seen
  PROVE  UNCHANGED Stream!streamVars
<1>1. RingContents' = RingContents
  BY IsMapped, IsMappedNext DEF Mapped
<1> QED
  BY <1>1 DEF Stream!streamVars, Seen

\* A step of thread t that changes neither the file, nor the taken blocks, nor
\* whether t saw the end, nor the blocks about to be stored.
LEMMA QuietStep ==
  ASSUME IInv, IInv', NEW t \in Threads, OnlyMoves(t), UNCHANGED <<fpos, taken>>,
         Storing' = Storing, SawEnd(t)' <=> SawEnd(t)
  PROVE  UNCHANGED Stream!streamVars
<1>1. Stored' = Stored
  BY DEF Stored
<1>2. Seen' = Seen
  <2>1. \A u \in Threads : SawEnd(u)' <=> SawEnd(u)
    BY DEF OnlyMoves, SawEnd
  <2> QED
    BY <2>1 DEF Seen
<1> QED
  BY <1>1, <1>2, Stutter

-----------------------------------------------------------------------------
(* The steps *)

\* The initial states map to the initial state: nothing stored, nobody at the end.
LEMMA InitRefines == Init => Stream!StreamInit
<1> SUFFICES ASSUME Init PROVE Stream!StreamInit
  OBVIOUS
<1>1. Storing = {} /\ Seen = {}
  BY DEF Init, Storing, Seen, SawEnd, Threads
<1>2. Stored = 0 /\ InRing = 0
  BY <1>1, FS_EmptySet DEF Init, Stored, InRing
<1>3. RingContents = <<>>
  BY <1>2 DEF RingContents
<1> QED
  BY <1>1, <1>2, <1>3, ProdConsAssumption DEF Init, Stream!StreamInit, Seen

\* fread is a stutter: a block that is read and not stored is still to come.
LEMMA ReadRefines ==
  ASSUME IInv, IInv', NEW p \in Producers, Read(p)
  PROVE  UNCHANGED Stream!streamVars
<1>1. p \in Threads /\ pc[p] = "read" /\ pc'[p] = "store"
  BY DEF Threads, Read, Goto, IInv, TypeOK
<1>2. OnlyMoves(p) /\ taken' = taken
  BY <1>1 DEF IInv, TypeOK, Read, Goto, OnlyMoves
<1>3. p \notin Storing
  BY <1>1 DEF Storing
<1>4. fpos \in Int /\ Cardinality(Storing) \in Nat
  BY Numbers, CountsNat
<1>5. Stored' = Stored
  <2>1. CASE fpos < FileBlocks
    <3>1. fpos' = fpos + 1 /\ p \in Storing'
      BY <1>1, <1>4, <2>1 DEF Read, Storing, IInv, TypeOK, NULL
    <3>2. Cardinality(Storing') = Cardinality(Storing) + 1
      BY <1>2, <1>3, <3>1, ProducerCounts, CountsNat DEF In
    <3> QED
      BY <1>4, <3>1, <3>2 DEF Stored
  <2>2. CASE ~(fpos < FileBlocks)
    <3>1. fpos' = fpos /\ p \notin Storing'
      BY <1>1, <2>2 DEF Read, Storing, IInv, TypeOK
    <3>2. Cardinality(Storing') = Cardinality(Storing)
      BY <1>2, <1>3, <3>1, ProducerCounts, CountsNat DEF In
    <3> QED
      BY <3>1, <3>2 DEF Stored
  <2> QED
    BY <2>1, <2>2
<1>6. Seen' = Seen
  BY <1>1, <1>2 DEF Seen, SawEnd, OnlyMoves
<1> QED
  BY <1>2, <1>5, <1>6, Stutter

\* The store of a block puts it into the queue, which has room for it.
LEMMA StoreRefines ==
  ASSUME IInv, IInv', EnoughBlocks, NEW p \in Producers, Store(p), block[p] # NULL
  PROVE  Stream!Put
<1>1. p \in Threads /\ pc[p] = "store" /\ pc'[p] = "unlock"
  BY DEF Threads, Store, Goto, IInv, TypeOK
<1>2. OnlyMoves(p) /\ UNCHANGED <<block, fpos, taken>>
  BY <1>1 DEF IInv, TypeOK, Store, Goto, OnlyMoves
<1>3. p \in Holding /\ p \in Storing /\ p \notin Storing'
  BY <1>1 DEF Holding, Storing
<1>4. Stored' = Stored + 1
  <2>1. Cardinality(Storing') = Cardinality(Storing) - 1
    BY <1>2, <1>3, ProducerCounts, CountsNat DEF In
  <2>2. fpos \in Int /\ Cardinality(Storing) \in Int
    BY Numbers, CountsNat
  <2> QED
    BY <1>2, <2>1, <2>2 DEF Stored
<1>5. Mapped /\ Mapped' /\ InRing = Stored - Len(taken) /\ FileBlocks \in Int
  BY IsMapped, IsMappedNext, Bounds
<1>6. Stored < FileBlocks
  BY <1>4, <1>5 DEF Mapped
<1>7. Stored - Len(taken) < Blocks
  BY <1>3, <1>5, RoomForHolder
<1>8. Len(RingContents) < Blocks
  BY <1>5, <1>7, SegmentType DEF Mapped
<1>9. RingContents' = Append(RingContents, Stored + 1)
  BY <1>2, <1>4, <1>5, SegmentEnds DEF Mapped
<1>10. /\ Segment(Stored, FileBlocks) # <<>>
       /\ Head(Segment(Stored, FileBlocks)) = Stored + 1
       /\ Segment(Stored', FileBlocks) = Tail(Segment(Stored, FileBlocks))
  <2>1. Stored \in Int /\ FileBlocks \in Int /\ Stored <= FileBlocks /\ Stored # FileBlocks
    BY <1>5, <1>6 DEF Mapped
  <2> QED
    BY <1>4, <1>6, <2>1, SegmentType, SegmentEnds
<1>11. Seen' = Seen
  BY <1>1, <1>2 DEF Seen, SawEnd, OnlyMoves
<1> QED
  BY <1>2, <1>8, <1>9, <1>10, <1>11 DEF Stream!Put, Segment, Seen

\* The store of the end of the file finishes the producer.
LEMMA EndRefines ==
  ASSUME IInv, IInv', NEW p \in Producers, Store(p), block[p] = NULL
  PROVE  Stream!Finish(p)
<1>1. p \in Threads /\ p \notin Consumers /\ pc[p] = "store" /\ pc'[p] = "unlock"
  BY ProdConsAssumption DEF Threads, Store, Goto, IInv, TypeOK
<1>2. OnlyMoves(p) /\ UNCHANGED <<block, fpos, taken>>
  BY <1>1 DEF IInv, TypeOK, Store, Goto, OnlyMoves
<1>3. Storing = {} /\ fpos = FileBlocks
  BY <1>1 DEF Storing, IInv, MutexInv, LocalInv, Threads
<1>4. Storing' = {}
  BY <1>1, <1>2, <1>3 DEF Storing, OnlyMoves, Threads
<1>5. Stored = FileBlocks /\ Stored' = Stored
  BY <1>2, <1>3, <1>4, FS_EmptySet, ProdConsAssumption DEF Stored
<1>6. Segment(Stored, FileBlocks) = <<>>
  BY <1>5, Bounds, SegmentType
<1>7. RingContents' = RingContents
  BY <1>2, <1>5, IsMapped, IsMappedNext DEF Mapped
<1>8. Seen' = Seen \cup {p} /\ p \notin Seen
  BY <1>1, <1>2 DEF Seen, SawEnd, OnlyMoves
<1> QED
  BY <1>1, <1>2, <1>5, <1>6, <1>7, <1>8 DEF Stream!Finish, Segment, Seen

\* The take of a block gets the first one of the queue.
LEMMA TakeRefines ==
  ASSUME IInv, IInv', NEW c \in Consumers, Take(c), line[c_idx] # NULL
  PROVE  Stream!Get
<1>1. c \in Threads /\ c \notin Producers /\ pc[c] = "take" /\ pc'[c] = "unlock"
  BY ProdConsAssumption DEF Threads, Take, Goto, IInv, TypeOK
<1>2. /\ OnlyMoves(c) /\ fpos' = fpos /\ block'[c] = line[c_idx]
      /\ taken' = Append(taken, line[c_idx])
  BY <1>1 DEF IInv, TypeOK, Take, Goto, OnlyMoves
<1>3. Stored' = Stored
  BY <1>2, ConsumerCounts DEF Stored
<1>4. Mapped /\ Mapped' /\ Len(taken') = Len(taken) + 1
  BY <1>2, IsMapped, IsMappedNext DEF IInv, TypeOK
<1>5. Len(taken) < Stored
  BY <1>3, <1>4 DEF Mapped
<1>6. line[c_idx] = Len(taken) + 1
  <2>1. InRing = Stored - Len(taken) /\ InRing > 0
    BY <1>4, <1>5, Bounds DEF Mapped
  <2>2. 0 \in 0..(InRing - 1) /\ Wrap(c_idx + 0) = c_idx
    BY <2>1, Numbers DEF Wrap
  <2> QED
    BY <2>2, Numbers DEF IInv, RingInv
<1>7. /\ RingContents # <<>> /\ Head(RingContents) = line[c_idx]
      /\ RingContents' = Tail(RingContents)
  <2>1. Len(taken) \in Int /\ Stored \in Int /\ Len(taken) <= Stored /\ Len(taken) # Stored
    BY <1>4, <1>5 DEF Mapped
  <2>2. /\ Segment(Len(taken), Stored) # <<>>
        /\ Head(Segment(Len(taken), Stored)) = Len(taken) + 1
        /\ Tail(Segment(Len(taken), Stored)) = Segment(Len(taken) + 1, Stored)
    BY <1>5, <2>1, SegmentType, SegmentEnds
  <2> QED
    BY <1>3, <1>4, <1>6, <2>2 DEF Mapped
<1>8. Seen' = Seen
  BY <1>1, <1>2 DEF Seen, SawEnd, OnlyMoves
<1> QED
  BY <1>2, <1>3, <1>7, <1>8 DEF Stream!Get, Seen

\* The consumer that finds NULL finishes: the queue is empty, the file read, and a
\* producer has finished before it.
LEMMA GiveUpRefines ==
  ASSUME IInv, IInv', NEW c \in Consumers, Take(c), line[c_idx] = NULL
  PROVE  Stream!Finish(c)
<1>1. c \in Threads /\ c \notin Producers /\ pc[c] = "take" /\ pc'[c] = "unlock"
  BY ProdConsAssumption DEF Threads, Take, Goto, IInv, TypeOK
<1>2. /\ OnlyMoves(c) /\ fpos' = fpos /\ block'[c] = NULL /\ taken' = taken
  BY <1>1 DEF IInv, TypeOK, Take, Goto, OnlyMoves
<1>3. Stored' = Stored
  BY <1>2, ConsumerCounts DEF Stored
<1>4. Len(taken) = FileBlocks
  <2>1. c \in Threads /\ block'[c] = NULL /\ pc'[c] = "unlock"
    BY <1>1, <1>2
  <2>2. Len(taken') = FileBlocks
    BY <2>1 DEF IInv, DrainedAtExit
  <2> QED
    BY <1>2, <2>2
<1>5. Mapped /\ Mapped' /\ FileBlocks \in Int /\ Stored = FileBlocks
  BY <1>4, IsMapped, IsMappedNext, Bounds DEF Mapped
<1>6. Segment(Stored, FileBlocks) = <<>> /\ RingContents = <<>>
      /\ RingContents' = RingContents
  BY <1>2, <1>3, <1>4, <1>5, SegmentType DEF Mapped
<1>7. Ended # {}
  <2>1. Cardinality(Claiming) >= 1
    BY <1>1, FiniteCounts, CountsNat, FS_EmptySet DEF Claiming
  <2>2. InRing = 0 /\ full \in Nat /\ FullTokens
    BY <1>4, <1>5, Bounds, Numbers DEF IInv
  <2>3. Cardinality(Ended) >= 1
    BY <2>1, <2>2, CountsNat DEF FullTokens
  <2> QED
    BY <2>3, FS_EmptySet
<1>8. Seen \cap Producers # {}
  BY <1>7 DEF Ended, Seen, SawEnd, Threads
<1>9. Seen' = Seen \cup {c} /\ c \notin Seen
  BY <1>1, <1>2 DEF Seen, SawEnd, OnlyMoves
<1> QED
  BY <1>2, <1>3, <1>6, <1>8, <1>9 DEF Stream!Finish, Segment, Seen

\* Every other step of a producer moves tokens only.
LEMMA ProducerRefines ==
  ASSUME IInv, IInv', EnoughBlocks, NEW p \in Producers, ProducerStep(p)
  PROVE  [Stream!StreamNext]_Stream!streamVars
<1>1. CASE Read(p)
  BY <1>1, ReadRefines
<1>2. CASE Store(p)
  BY <1>2, StoreRefines, EndRefines DEF Stream!StreamNext
<1>3. ASSUME Lock(p) \/ WaitEmpty(p) \/ UnlockProducer(p) \/ PostFull(p)
      PROVE  UNCHANGED Stream!streamVars
  <2>1. p \in Threads /\ p \notin Consumers
    BY ProdConsAssumption DEF Threads
  <2>2. OnlyMoves(p) /\ UNCHANGED <<fpos, taken, block>>
    BY <1>3, <2>1 DEF IInv, TypeOK, Lock, WaitEmpty, UnlockProducer, PostFull, Goto, OnlyMoves
  <2>3. pc[p] # "store" /\ pc'[p] # "store"
    BY <1>3, <2>1 DEF IInv, TypeOK, Lock, WaitEmpty, UnlockProducer, PostFull, Goto
  <2>4. Storing' = Storing
    BY <2>2, <2>3 DEF Storing, OnlyMoves, Threads
  <2>5. SawEnd(p)' <=> SawEnd(p)
    BY <1>3, <2>1, <2>2 DEF IInv, TypeOK, Lock, WaitEmpty, UnlockProducer, PostFull, Goto, SawEnd
  <2> QED
    BY <2>1, <2>2, <2>4, <2>5, QuietStep
<1> QED
  BY <1>1, <1>2, <1>3 DEF ProducerStep

\* And so does every other step of a consumer.
LEMMA ConsumerRefines ==
  ASSUME IInv, IInv', NEW c \in Consumers, ConsumerStep(c)
  PROVE  [Stream!StreamNext]_Stream!streamVars
<1>1. CASE Take(c)
  BY <1>1, TakeRefines, GiveUpRefines DEF Stream!StreamNext
<1>2. ASSUME Lock(c) \/ WaitFull(c) \/ UnlockConsumer(c) \/ RepostFull(c) \/ PostEmpty(c)
      PROVE  UNCHANGED Stream!streamVars
  <2>1. c \in Threads /\ c \notin Producers
    BY ProdConsAssumption DEF Threads
  <2>2. OnlyMoves(c) /\ UNCHANGED <<fpos, taken, block>>
    BY <1>2, <2>1
       DEF IInv, TypeOK, Lock, WaitFull, UnlockConsumer, RepostFull, PostEmpty, Goto, OnlyMoves
  <2>3. Storing' = Storing
    BY <2>2, ConsumerCounts
  <2>4. SawEnd(c)' <=> SawEnd(c)
    BY <1>2, <2>1, <2>2
       DEF IInv, TypeOK, Lock, WaitFull, UnlockConsumer, RepostFull, PostEmpty, Goto, SawEnd
  <2> QED
    BY <2>1, <2>2, <2>3, <2>4, QuietStep
<1> QED
  BY <1>1, <1>2 DEF ConsumerStep

\* A step that changes nothing maps to one.
LEMMA NothingRefines ==
  ASSUME IInv, IInv', UNCHANGED vars
  PROVE  UNCHANGED Stream!streamVars
<1>1. Storing' = Storing /\ Seen' = Seen /\ fpos' = fpos /\ taken' = taken
  BY DEF vars, Storing, Seen, SawEnd
<1> QED
  BY <1>1, Stutter DEF Stored

-----------------------------------------------------------------------------
\* The threads of no_work_prod and no_work_cons (main.c, prod_cons.c), whatever
\* their number, the ring and the file, implement the bounded queue of blocks, if
\* there are as many slots as producers.
THEOREM StreamImplemented ==
  ASSUME EnoughBlocks
  PROVE  Spec => ImplementsStream
<1>1. Init => Stream!StreamInit
  BY InitRefines
<1>2. IInv /\ IInv' /\ [Next]_vars => [Stream!StreamNext]_Stream!streamVars
  BY ProducerRefines, ConsumerRefines, NothingRefines DEF Next
<1>3. Spec => []IInv
  BY Invariance
<1> QED
  BY <1>1, <1>2, <1>3, PTL DEF Spec, ImplementsStream, Stream!StreamSpec
=============================================================================
