------------------------------ MODULE MMUProofs ------------------------------
(***************************************************************************)
(* Proofs about MMU for all sizes, under every policy: level 2 tables are  *)
(* private to the entries that have them; frames, pages and words stay in  *)
(* range; there is a free frame whenever one is searched.  And with frames *)
(* enough that nothing is swapped: the TLB names frames of its pages, and  *)
(* every process has a memory of its own.                                  *)
(*                                                                         *)
(* When pages are swapped, under every policy but RANDOM: the last         *)
(* MinFree - 1 frames are never used, so a victim is a frame in use and    *)
(* memory_ffl_size stays the number of free frames; the tags of the frames *)
(* and the page tables agree, and without TLB no word is lost, before a    *)
(* page is swapped in to a frame that is not its own; and LRU evicts a     *)
(* page that was not used for longest.                                     *)
(***************************************************************************)
EXTENDS MMU, FiniteSetTheorems, WellFoundedInduction, TLAPS

-----------------------------------------------------------------------------
(* Level 2 tables, under every policy *)

\* Tables are taken in order, and the ones in use are below the number taken.
TablesInv ==
  /\ ptbl1 \in [Procs -> [0..(Level1 - 1) -> [tn : Nat, valid : BOOLEAN]]]
  /\ tables \in Nat
  /\ idx \in Procs
  /\ va \in Pages
  /\ \A p \in Procs, i \in 0..(Level1 - 1) : ptbl1[p][i].valid => ptbl1[p][i].tn < tables
  /\ TablesPrivate

\* No table is taken at first.
LEMMA InitTables == Init => TablesInv
<1> SUFFICES ASSUME Init PROVE TablesInv
  OBVIOUS
<1>1. 0 \in Procs /\ 0 \in 0..(Level1 - 1) /\ 0 \in 0..(Level2 - 1)
  BY MMUAssumption DEF Procs
<1>2. /\ ptbl1 \in [Procs -> [0..(Level1 - 1) -> [tn : Nat, valid : BOOLEAN]]]
      /\ \A p \in Procs, i \in 0..(Level1 - 1) : ~ptbl1[p][i].valid
  BY DEF Init
<1> QED
  BY <1>1, <1>2 DEF Init, TablesInv, TablesPrivate, Pages

\* search_table gives out a table that nobody has.
LEMMA Level1Tables ==
  ASSUME TablesInv, Level1Fault
  PROVE  TablesInv'
<1> DEFINE entry == [tn |-> tables, valid |-> TRUE]
<1>1. /\ idx \in Procs /\ va[1] \in 0..(Level1 - 1) /\ tables \in Nat
      /\ ptbl1' = [ptbl1 EXCEPT ![idx][va[1]] = entry] /\ tables' = tables + 1
      /\ idx' = idx /\ va' = va
  BY DEF TablesInv, Pages, Level1Fault, call
<1>2. /\ ptbl1' \in [Procs -> [0..(Level1 - 1) -> [tn : Nat, valid : BOOLEAN]]]
      /\ \A p \in Procs, i \in 0..(Level1 - 1) :
           ptbl1'[p][i] = IF p = idx /\ i = va[1] THEN entry ELSE ptbl1[p][i]
  BY <1>1 DEF TablesInv
<1>3. \A p \in Procs, i \in 0..(Level1 - 1) : ptbl1'[p][i].valid => ptbl1'[p][i].tn < tables'
  <2>1. ASSUME NEW p \in Procs, NEW i \in 0..(Level1 - 1), ptbl1[p][i].valid
        PROVE  ptbl1[p][i].tn < tables + 1
    <3>1. ptbl1[p][i].tn \in Nat
      BY DEF TablesInv
    <3> QED
      BY <1>1, <2>1, <3>1 DEF TablesInv
  <2>2. entry.tn < tables + 1
    BY <1>1
  <2> QED
    BY <1>1, <1>2, <2>1, <2>2
<1>4. TablesPrivate'
  BY <1>1, <1>2 DEF TablesInv, TablesPrivate
<1> QED
  BY <1>1, <1>2, <1>3, <1>4 DEF TablesInv

\* No other step touches level 1.
LEMMA StepTables ==
  ASSUME TablesInv, [Next]_vars
  PROVE  TablesInv'
<1>1. ASSUME NEW p \in Procs, Call(p)
      PROVE  TablesInv'
  BY <1>1 DEF Call, TablesInv, TablesPrivate, maps
<1>2. ASSUME NEW v \in Pages, NextAddress(v)
      PROVE  TablesInv'
  BY <1>2 DEF NextAddress, TablesInv, TablesPrivate, maps, call
<1>3. CASE Level1Fault
  BY <1>3, Level1Tables
<1>4. ASSUME UNCHANGED <<ptbl1, tables, idx, va>>
      PROVE  TablesInv'
  BY <1>4 DEF TablesInv, TablesPrivate
<1>5. ASSUME NEW f \in Frames, SwapOutScanned(f)
      PROVE  TablesInv'
  BY <1>4, <1>5 DEF SwapOutScanned, SwapOut, call
<1>6. CASE SwapOutQueued
  BY <1>4, <1>6 DEF SwapOutQueued, SwapOut, call
<1>7. CASE SecondChance \/ NoVictim \/ TlbHit \/ Level2Hit
  BY <1>4, <1>7 DEF SecondChance, NoVictim, TlbHit, Level2Hit, call, maps
<1>8. CASE Level2Fault \/ SwapIn
  BY <1>4, <1>8 DEF Level2Fault, SwapIn, call
<1>9. CASE Perform
  BY <1>4, <1>9 DEF Perform, maps
<1>10. CASE UNCHANGED vars
  BY <1>4, <1>10 DEF vars, maps, call
<1> QED
  BY <1>1, <1>2, <1>3, <1>5, <1>6, <1>7, <1>8, <1>9, <1>10 DEF Next

\* The inductive invariant of the tables.
LEMMA TablesInvariance == Spec => []TablesInv
BY InitTables, StepTables, PTL DEF Spec

\* Whatever the policy and the sizes, with swapping and with the TLB, no level 2
\* table serves two entries (search_table of memory.c).
THEOREM PrivateTables == Spec => []TablesPrivate
<1>1. TablesInv => TablesPrivate
  BY DEF TablesInv
<1> QED
  BY <1>1, TablesInvariance, PTL

-----------------------------------------------------------------------------
(* Operators *)

\* A set of natural numbers that is not empty has a least one.
LEMMA LeastExists ==
  ASSUME NEW S, S \subseteq Nat, S # {}
  PROVE  Least(S) \in S /\ \A y \in S : Least(S) <= y
<1>1. IsWellFoundedOn({ss \in Nat \X Nat : ss[1] < ss[2]}, Nat)
  BY NatLessThanWellFounded DEF OpToRel
<1>2. PICK x \in S : \A y \in S : ~ (<<y, x>> \in {ss \in Nat \X Nat : ss[1] < ss[2]})
  BY <1>1, WFMin
<1>3. ASSUME NEW y \in S PROVE x <= y
  <2>1. <<y, x>> \in Nat \X Nat
    OBVIOUS
  <2>2. ~(y < x)
    BY <1>2, <2>1
  <2> QED
    BY <2>2
<1> QED
  BY <1>3 DEF Least

\* A page is its two numbers.
LEMMA SamePage ==
  ASSUME NEW v \in Pages, NEW w \in Pages
  PROVE  v = w <=> v[1] = w[1] /\ v[2] = w[2]
BY DEF Pages

\* The tags are finitely many, and so are the frames.
LEMMA Finite ==
  /\ IsFiniteSet(TagSet) /\ Cardinality(TagSet) \in Nat
  /\ IsFiniteSet(Frames) /\ Cardinality(Frames) = NFrames
<1>1. IsFiniteSet(0..(NProcs - 1)) /\ IsFiniteSet(0..(Level1 - 1)) /\ IsFiniteSet(0..(Level2 - 1))
  BY MMUAssumption, FS_Interval
<1>2. IsFiniteSet(Pages) /\ IsFiniteSet(Procs)
  BY <1>1, FS_Product DEF Pages, Procs
<1>3. IsFiniteSet(Procs \X Pages)
  BY <1>2, FS_Product
<1> DEFINE pair == [t \in TagSet |-> <<t.proc, t.page>>]
<1>4. pair \in Injection(TagSet, Procs \X Pages)
  BY DEF TagSet, Injection, IsInjective
<1>5. IsFiniteSet(TagSet)
  BY <1>3, <1>4, FS_Injection
<1>6. IsFiniteSet(Frames) /\ Cardinality(Frames) = NFrames
  BY MMUAssumption, FS_Interval DEF Frames
<1> QED
  BY <1>5, <1>6, FS_CardinalityType


\* search_frame answers with a frame of the list, and with the first free one when
\* there is one.
LEMMA FrameSearched ==
  ASSUME NEW n \in Nat \ {0}, NEW ffl, DOMAIN ffl = 0..(n - 1)
  PROVE  /\ search_frame(ffl) \in 0..(n - 1)
         /\ FreeIn(ffl) # {} => /\ search_frame(ffl) \in FreeIn(ffl)
                                /\ \A f \in FreeIn(ffl) : search_frame(ffl) <= f
<1>1. FreeIn(ffl) \subseteq 0..(n - 1) /\ FreeIn(ffl) \subseteq Nat
  BY DEF FreeIn
<1>2. CASE FreeIn(ffl) = {}
  BY <1>2 DEF search_frame
<1>3. CASE FreeIn(ffl) # {}
  BY <1>1, <1>3, LeastExists DEF search_frame
<1> QED
  BY <1>2, <1>3

\* Queues of elements of S.
QueueOf(S) == [list : Seq(S), attached : BOOLEAN, count : Int]

\* The operations of a queue keep the elements in S.
LEMMA QueueKept ==
  ASSUME NEW S, NEW q \in QueueOf(S)
  PROVE  /\ \A x \in S : enqueue(q, x) \in QueueOf(S)
         /\ ~DequeueFaults(q) => dequeue(q) \in QueueOf(S)
         /\ \A same : searchQueue(q, same) \in QueueOf(S)
<1>1. q.list \in Seq(S) /\ q.attached \in BOOLEAN /\ q.count \in Int
      /\ q = [list |-> q.list, attached |-> q.attached, count |-> q.count]
  BY DEF QueueOf
<1>2. ASSUME NEW x \in S
      PROVE  enqueue(q, x) \in QueueOf(S)
  <2>1. Append(q.list, x) \in Seq(S)
    BY <1>1
  <2>2. PICK list \in Seq(S) :
          list = IF q.list = <<>> \/ q.attached THEN Append(q.list, x) ELSE q.list
    BY <1>1, <2>1
  <2>3. PICK att \in BOOLEAN : att = (q.attached \/ q.list = <<>>)
    BY <1>1
  <2>4. enqueue(q, x) = [q EXCEPT !.list = list, !.attached = att, !.count = q.count + 1]
    BY <2>2, <2>3 DEF enqueue
  <2> HIDE DEF enqueue
  <2>5. q \in [list : Seq(S), attached : BOOLEAN, count : Int] /\ q.count + 1 \in Int
    BY <1>1 DEF QueueOf
  <2>6. [q EXCEPT !.list = list, !.attached = att, !.count = q.count + 1]
          \in [list : Seq(S), attached : BOOLEAN, count : Int]
    BY <2>5
  <2> QED
    BY <2>4, <2>6 DEF QueueOf
<1>3. ASSUME ~DequeueFaults(q)
      PROVE  dequeue(q) \in QueueOf(S)
  <2>1. CASE q.count = 0
    BY <2>1 DEF dequeue, isEmpty
  <2>2. CASE q.count # 0
    <3>1. q.list # <<>>
      BY <1>3, <2>2 DEF DequeueFaults, isEmpty
    <3>2. Tail(q.list) \in Seq(S)
      BY <1>1, <3>1
    <3>3. (q.attached \/ Len(q.list) = 1) \in BOOLEAN
      BY <1>1
    <3> QED
      BY <1>1, <2>2, <3>2, <3>3 DEF dequeue, isEmpty, QueueOf
  <2> QED
    BY <2>1, <2>2
<1>4. ASSUME NEW same
      PROVE  searchQueue(q, same) \in QueueOf(S)
  <2> DEFINE i == PositionOf(q, same)
  <2>1. CASE i = 0
    BY <2>1 DEF searchQueue
  <2>2. CASE i # 0
    <3>1. i \in 1..Len(q.list)
      <4> DEFINE found == {k \in DOMAIN q.list : q.list[k] \in same}
      <4>1. found \subseteq Nat /\ found # {}
        BY <1>1, <2>2 DEF PositionOf
      <4>2. i = Least(found)
        BY <4>1 DEF PositionOf, Least
      <4>3. i \in found
        BY <4>1, <4>2, LeastExists
      <4> QED
        BY <1>1, <4>3
    <3>2. SubSeq(q.list, 1, i - 1) \in Seq(S) /\ SubSeq(q.list, i + 1, Len(q.list)) \in Seq(S)
      BY <1>1, <3>1
    <3>3. Without(q.list, i) \in Seq(S)
      BY <3>2 DEF Without
    <3>4. PICK list \in Seq(S) : list = IF i = 1 THEN q.list ELSE Without(q.list, i)
      BY <1>1, <3>3
    <3>5. PICK att \in BOOLEAN : att = (q.attached /\ (i = 1 \/ i < Len(q.list)))
      BY <1>1
    <3>6. searchQueue(q, same) = [list |-> list, attached |-> att, count |-> q.count - 1]
      BY <2>2, <3>4, <3>5 DEF searchQueue, Unlinked
    <3> QED
      BY <1>1, <3>6 DEF QueueOf
  <2> QED
    BY <2>1, <2>2
<1> QED
  BY <1>2, <1>3, <1>4

\* The node of a dequeue that finds one is an element of the queue.
LEMMA DequeuedNode ==
  ASSUME NEW S, NEW q \in QueueOf(S), ~DequeueFaults(q), ~isEmpty(q)
  PROVE  Dequeued(q) \in S
BY DEF QueueOf, DequeueFaults, Dequeued

\* The entries of the TLB.
TlbEntries == 0..((Level1 * Level2 - 1) \div TlbReach)

\* A page has a number, and an entry of the TLB.
LEMMA PageInRange ==
  ASSUME NEW v \in Pages
  PROVE  /\ PageKey(v) \in 0..(Level1 * Level2 - 1)
         /\ TlbIndex(v) \in TlbEntries
<1>1. /\ Level1 \in Nat \ {0} /\ Level2 \in Nat \ {0} /\ TlbReach \in Nat \ {0}
      /\ v[1] \in 0..(Level1 - 1) /\ v[2] \in 0..(Level2 - 1)
  BY MMUAssumption DEF Pages
<1>2. v[1] * Level2 \in Nat /\ v[1] * Level2 <= (Level1 - 1) * Level2
  BY <1>1
<1>3. (Level1 - 1) * Level2 = Level1 * Level2 - Level2 /\ Level1 * Level2 \in Nat
  BY <1>1
<1>4. v[1] * Level2 + v[2] \in 0..(Level1 * Level2 - 1)
  BY <1>1, <1>2, <1>3
<1>5. \A a, b \in Nat : a <= b => a \div TlbReach <= b \div TlbReach /\ a \div TlbReach \in Nat
  BY <1>1
<1>6. Level1 * Level2 - 1 \in Nat
  BY <1>3, <1>4
<1>7. \A k \in 0..(Level1 * Level2 - 1) : k \div TlbReach \in TlbEntries
  <2> SUFFICES ASSUME NEW k \in 0..(Level1 * Level2 - 1) PROVE k \div TlbReach \in TlbEntries
    OBVIOUS
  <2>1. k \div TlbReach <= (Level1 * Level2 - 1) \div TlbReach /\ k \div TlbReach \in Nat
        /\ (Level1 * Level2 - 1) \div TlbReach \in Nat
    BY <1>5, <1>6
  <2> QED
    BY <2>1 DEF TlbEntries
<1> QED
  BY <1>4, <1>7 DEF PageKey, TlbIndex

-----------------------------------------------------------------------------
(* Types, under every policy *)

\* Every table taken has an entry of level 1; nothing is mapped in the others.
TablesTaken ==
  /\ \A t \in 0..(tables - 1) :
       \E p \in Procs, i \in 0..(Level1 - 1) : ptbl1[p][i].valid /\ ptbl1[p][i].tn = t
  /\ \A t \in Tables, j \in 0..(Level2 - 1) : ptbl2[t][j].valid => t < tables

\* A page that is present is on the disk, one that is valid otherwise is in memory.
EntriesPlaced ==
  \A t \in Tables, j \in 0..(Level2 - 1) :
    /\ ptbl2[t][j].present => ptbl2[t][j].fn \in DiskFrames
    /\ ptbl2[t][j].valid /\ ~ptbl2[t][j].present => ptbl2[t][j].fn \in Frames

Entries2 == [fn : Frames \cup DiskFrames, valid : BOOLEAN, present : BOOLEAN]
TlbEntry == [key : 0..(Level1 * Level2 - 1), value : Frames, valid : BOOLEAN]
Nodes == [fn : Frames, chances : 0..3]

StoreOK ==
  /\ memory \in [Frames -> Words]
  /\ disk \in [DiskFrames -> Words]
  /\ memory_ffl \in [Frames -> TagSet \cup {FREE}]
  /\ disk_ffl \in [DiskFrames -> {Bare, FREE}]
  /\ memory_ffl_size \in Int

MapsOK ==
  /\ ptbl1 \in [Procs -> [0..(Level1 - 1) -> [tn : Tables, valid : BOOLEAN]]]
  /\ ptbl2 \in [Tables -> [0..(Level2 - 1) -> Entries2]]
  /\ tables \in 0..(NProcs * Level1)
  /\ TablesTaken
  /\ EntriesPlaced

TlbOK == tlb \in [TlbEntries -> TlbEntry]

PolicyOK == usage \in [Frames -> Nat] /\ fifo \in QueueOf(Nodes)

CallOK ==
  /\ pc \in {"idle", "access", "victim", "lookup", "perform", "lost"}
  /\ time \in 0..MaxCalls
  /\ left \in 0..BATCH
  /\ pc \in {"access", "victim", "lookup", "perform"} => left > 0
  /\ swap_pn \in Frames
  /\ fn \in Frames

HistoryOK ==
  /\ known \in [Procs -> [Pages -> Words]]
  /\ lastUse \in [Procs -> [Pages -> 0..MaxCalls]]
  /\ evicted \in TagSet \cup {FREE}
  /\ misplaced \in BOOLEAN

TypeInv == TablesInv /\ StoreOK /\ MapsOK /\ TlbOK /\ PolicyOK /\ CallOK /\ HistoryOK

LEMMA InvTypes == TypeInv => TypeOK
BY DEF TypeInv, TablesInv, StoreOK, MapsOK, TlbOK, PolicyOK, CallOK, HistoryOK, TypeOK,
       Entries2, TlbEntry, Nodes, QueueOf

\* What the assumptions say of the ranges.
LEMMA Ranges ==
  /\ NProcs \in Nat \ {0} /\ Level1 \in Nat \ {0} /\ Level2 \in Nat \ {0}
  /\ NFrames \in Nat \ {0} /\ NDisk \in Nat \ {0} /\ BATCH \in Nat \ {0}
  /\ MinFree \in 0..NFrames /\ MaxCalls \in Nat
  /\ NProcs * Level1 \in Nat \ {0} /\ Level1 * Level2 \in Nat \ {0}
  /\ 0 \in Procs /\ 0 \in Frames /\ 0 \in DiskFrames /\ 0 \in Tables
  /\ <<0, 0>> \in Pages /\ Bare \in TagSet /\ FREE \notin TagSet
<1>1. /\ NProcs \in Nat \ {0} /\ Level1 \in Nat \ {0} /\ Level2 \in Nat \ {0}
      /\ NFrames \in Nat \ {0} /\ NDisk \in Nat \ {0} /\ BATCH \in Nat \ {0}
      /\ MinFree \in 0..NFrames /\ MaxCalls \in Nat
  BY MMUAssumption
<1>2. NProcs * Level1 \in Nat \ {0} /\ Level1 * Level2 \in Nat \ {0}
  BY <1>1
<1>3. 0 \in Procs /\ 0 \in Frames /\ 0 \in DiskFrames /\ 0 \in Tables
  BY <1>1, <1>2 DEF Procs, Frames, DiskFrames, Tables
<1>4. <<0, 0>> \in Pages
  BY <1>1 DEF Pages
<1>5. Bare \in TagSet /\ FREE \notin TagSet
  BY <1>3, <1>4, MMUWords DEF TagSet, Bare
<1> QED
  BY <1>1, <1>2, <1>3, <1>4, <1>5

LEMMA InitTypes == Init => TypeInv
<1> SUFFICES ASSUME Init PROVE TypeInv
  OBVIOUS
<1>1. TablesInv
  BY InitTables
<1>2. StoreOK
  <2>1. memory \in [Frames -> Words]
    BY DEF Init, Words
  <2> QED
    BY <2>1, Ranges DEF Init, StoreOK, Words
<1>3. MapsOK
  <2>1. ptbl1 \in [Procs -> [0..(Level1 - 1) -> [tn : Tables, valid : BOOLEAN]]]
    BY Ranges DEF Init
  <2>2. /\ ptbl2 \in [Tables -> [0..(Level2 - 1) -> Entries2]]
        /\ \A t \in Tables, j \in 0..(Level2 - 1) : ~ptbl2[t][j].valid /\ ~ptbl2[t][j].present
    BY Ranges DEF Init, Entries2
  <2>3. tables = 0 /\ 0..(tables - 1) = {}
    BY DEF Init
  <2> QED
    BY <2>1, <2>2, <2>3, Ranges DEF MapsOK, TablesTaken, EntriesPlaced
<1>4. TlbOK
  <2>1. [key |-> 0, value |-> 0, valid |-> FALSE] \in TlbEntry
    BY Ranges DEF TlbEntry
  <2> QED
    BY <2>1 DEF Init, TlbOK, TlbEntries
<1>5. PolicyOK
  BY DEF Init, PolicyOK, QueueOf, createQueue
<1>6. CallOK
  BY Ranges DEF Init, CallOK
<1>7. HistoryOK
  <2>1. BLANK \in Words /\ 0 \in 0..MaxCalls
    BY Ranges DEF Words
  <2>2. known \in [Procs -> [Pages -> Words]]
    BY <2>1 DEF Init
  <2>3. lastUse \in [Procs -> [Pages -> 0..MaxCalls]]
    BY <2>1 DEF Init
  <2> QED
    BY <2>2, <2>3, Ranges DEF Init, HistoryOK
<1> QED
  BY <1>1, <1>2, <1>3, <1>4, <1>5, <1>6, <1>7 DEF TypeInv

\* The steps that leave the store, or the maps, alone.
LEMMA SameStore == ASSUME StoreOK, UNCHANGED store PROVE StoreOK'
BY DEF StoreOK, store

LEMMA SameMaps == ASSUME MapsOK, UNCHANGED <<ptbl1, ptbl2, tables>> PROVE MapsOK'
BY DEF MapsOK, TablesTaken, EntriesPlaced

LEMMA SamePolicy == ASSUME PolicyOK, UNCHANGED policy PROVE PolicyOK'
BY DEF PolicyOK, policy

LEMMA SameHistory ==
  ASSUME HistoryOK, UNCHANGED <<known, lastUse, evicted, misplaced>>
  PROVE  HistoryOK'
BY DEF HistoryOK

\* What the translation reads: a page with a table, its entry and its TLB entry.
LEMMA LookupTypes ==
  ASSUME TypeInv
  PROVE  /\ idx \in Procs /\ va \in Pages
         /\ va[1] \in 0..(Level1 - 1) /\ va[2] \in 0..(Level2 - 1)
         /\ ptbl1[idx][va[1]].tn \in Tables
         /\ Mapped1 => ptbl1[idx][va[1]].tn < tables
         /\ Entry2 \in Entries2
         /\ Entry2.present => Entry2.fn \in DiskFrames
         /\ Entry2.valid /\ ~Entry2.present => Entry2.fn \in Frames
         /\ tlb[TlbIndex(va)] \in TlbEntry
         /\ search_frame(memory_ffl) \in Frames /\ search_frame(disk_ffl) \in DiskFrames
         /\ Mine \in TagSet
<1>1. idx \in Procs /\ va \in Pages /\ va[1] \in 0..(Level1 - 1) /\ va[2] \in 0..(Level2 - 1)
  BY DEF TypeInv, TablesInv, Pages
<1>2. ptbl1[idx][va[1]].tn \in Tables
  <2>1. ptbl1 \in [Procs -> [0..(Level1 - 1) -> [tn : Tables, valid : BOOLEAN]]]
    BY DEF TypeInv, MapsOK
  <2> QED
    BY <1>1, <2>1
<1>3. Mapped1 => ptbl1[idx][va[1]].tn < tables
  BY <1>1 DEF TypeInv, TablesInv, Mapped1
<1>4. /\ Entry2 \in Entries2
      /\ Entry2.present => Entry2.fn \in DiskFrames
      /\ Entry2.valid /\ ~Entry2.present => Entry2.fn \in Frames
  BY <1>1, <1>2 DEF TypeInv, MapsOK, EntriesPlaced, Entry2
<1>5. tlb[TlbIndex(va)] \in TlbEntry
  BY <1>1, PageInRange DEF TypeInv, TlbOK
<1>6. search_frame(memory_ffl) \in Frames
  BY FrameSearched, Ranges DEF TypeInv, StoreOK, Frames
<1>7. search_frame(disk_ffl) \in DiskFrames
  BY FrameSearched, Ranges DEF TypeInv, StoreOK, DiskFrames
<1>8. Mine \in TagSet
  BY <1>1 DEF Mine, TagSet
<1> QED
  BY <1>1, <1>2, <1>3, <1>4, <1>5, <1>6, <1>7, <1>8

\* A TLB entry is filled with a frame.
LEMMA FillTypes ==
  ASSUME TypeInv, NEW f \in Frames, FillTlb(f)
  PROVE  TlbOK'
<1> DEFINE entry == [key |-> PageKey(va), value |-> f, valid |-> TRUE]
<1>1. va \in Pages
  BY LookupTypes
<1>2. entry \in TlbEntry /\ TlbIndex(va) \in TlbEntries
  BY <1>1, PageInRange DEF TlbEntry
<1>3. CASE UseTlb
  <2>1. tlb' = [tlb EXCEPT ![TlbIndex(va)] = entry]
    BY <1>3 DEF FillTlb
  <2> HIDE DEF entry
  <2> QED
    BY <1>2, <2>1 DEF TypeInv, TlbOK
<1>4. CASE ~UseTlb
  BY <1>4 DEF FillTlb, TypeInv, TlbOK
<1> QED
  BY <1>3, <1>4

\* An entry of level 2 is set to a frame in memory.
LEMMA MapTypes ==
  ASSUME TypeInv, NEW f \in Frames, MapTo(f), Mapped1, UNCHANGED <<ptbl1, tables>>
  PROVE  MapsOK'
<1> DEFINE entry == [fn |-> f, valid |-> TRUE, present |-> FALSE]
           tn == ptbl1[idx][va[1]].tn
<1>1. /\ tn \in Tables /\ tn < tables /\ va[2] \in 0..(Level2 - 1)
      /\ entry \in Entries2 /\ entry.fn \in Frames /\ ~entry.present
  BY LookupTypes DEF Entries2
<1>2. ptbl2' = [ptbl2 EXCEPT ![tn][va[2]] = entry]
  BY DEF MapTo
<1> HIDE DEF entry, tn
<1>3. /\ ptbl2' \in [Tables -> [0..(Level2 - 1) -> Entries2]]
      /\ \A t \in Tables, j \in 0..(Level2 - 1) :
           ptbl2'[t][j] = IF t = tn /\ j = va[2] THEN entry ELSE ptbl2[t][j]
  BY <1>1, <1>2 DEF TypeInv, MapsOK
<1>4. EntriesPlaced'
  BY <1>1, <1>3 DEF TypeInv, MapsOK, EntriesPlaced
<1>5. TablesTaken'
  BY <1>1, <1>3 DEF TypeInv, MapsOK, TablesTaken
<1> QED
  BY <1>3, <1>4, <1>5 DEF TypeInv, MapsOK

\* How the entry of the victim changes.
LEMMA MarkedEntries ==
  ASSUME TypeInv, NEW tags \in TagSet, NEW d \in DiskFrames, MarkSwapped(tags, d)
  PROVE  /\ TableOf(tags) \in Tables /\ tags.page[2] \in 0..(Level2 - 1)
         /\ ptbl2' \in [Tables -> [0..(Level2 - 1) -> Entries2]]
         /\ \A t \in Tables, j \in 0..(Level2 - 1) :
              IF t = TableOf(tags) /\ j = tags.page[2]
              THEN /\ ptbl2'[t][j].fn = d /\ ptbl2'[t][j].present
                   /\ ptbl2'[t][j].valid = ptbl2[t][j].valid
              ELSE ptbl2'[t][j] = ptbl2[t][j]
<1>1. /\ tags.proc \in Procs /\ tags.page[1] \in 0..(Level1 - 1)
      /\ tags.page[2] \in 0..(Level2 - 1)
  BY DEF TagSet, Pages
<1>2. PICK tn : tn = TableOf(tags)
  OBVIOUS
<1>3. PICK j : j = tags.page[2]
  OBVIOUS
<1>4. tn \in Tables /\ j \in 0..(Level2 - 1)
  BY <1>1, <1>2, <1>3 DEF TableOf, TypeInv, MapsOK
<1>5. PICK e \in Entries2 : e = ptbl2[tn][j]
  BY <1>4 DEF TypeInv, MapsOK
<1>6. ptbl2' = [ptbl2 EXCEPT ![tn][j].present = TRUE, ![tn][j].fn = d]
  BY <1>2, <1>3 DEF MarkSwapped
<1>7. PICK marked : marked = [[e EXCEPT !.present = TRUE] EXCEPT !.fn = d]
  OBVIOUS
<1>8. ptbl2 \in [Tables -> [0..(Level2 - 1) -> Entries2]]
  BY DEF TypeInv, MapsOK
<1>9. /\ marked \in Entries2 /\ marked.fn = d /\ marked.present
      /\ marked.valid = e.valid
  <2>1. e \in [fn : Frames \cup DiskFrames, valid : BOOLEAN, present : BOOLEAN]
    BY DEF Entries2
  <2> QED
    BY <1>7, <2>1 DEF Entries2
<1>10. ptbl2' = [ptbl2 EXCEPT ![tn][j] = marked]
  <2>1. [ptbl2 EXCEPT ![tn][j].present = TRUE]
          = [ptbl2 EXCEPT ![tn][j] = [e EXCEPT !.present = TRUE]]
    BY <1>4, <1>5, <1>8
  <2>2. PICK half : half = [e EXCEPT !.present = TRUE]
    OBVIOUS
  <2>3. ptbl2' = [[ptbl2 EXCEPT ![tn][j] = half] EXCEPT ![tn][j].fn = d]
    BY <1>6, <2>1, <2>2
  <2>4. [ptbl2 EXCEPT ![tn][j] = half][tn][j] = half
    BY <1>4, <1>8
  <2> QED
    BY <1>4, <1>7, <1>8, <2>2, <2>3, <2>4
<1>11. /\ ptbl2' \in [Tables -> [0..(Level2 - 1) -> Entries2]]
       /\ \A t \in Tables, i \in 0..(Level2 - 1) :
            ptbl2'[t][i] = IF t = tn /\ i = j THEN marked ELSE ptbl2[t][i]
  BY <1>4, <1>8, <1>9, <1>10
<1> QED
  BY <1>2, <1>3, <1>4, <1>5, <1>9, <1>11

\* A page leaves frame f for the disk.
LEMMA SwapOutTypes ==
  ASSUME TypeInv, NEW f \in Frames, SwapOut(f), pc = "victim"
  PROVE  StoreOK' /\ MapsOK' /\ TlbOK' /\ CallOK' /\ HistoryOK'
<1> DEFINE tags == Tags(memory_ffl[f])
           d == search_frame(disk_ffl)
<1>1. memory_ffl[f] \in TagSet \cup {FREE} /\ tags \in TagSet
  BY Ranges DEF TypeInv, StoreOK, Tags
<1>2. d \in DiskFrames
  BY LookupTypes
<1>3. /\ MarkSwapped(tags, d)
      /\ disk' = [disk EXCEPT ![d] = memory[f]]
      /\ disk_ffl' = [disk_ffl EXCEPT ![d] = Bare]
      /\ memory' = [memory EXCEPT ![f] = BLANK]
      /\ memory_ffl' = [memory_ffl EXCEPT ![f] = FREE]
      /\ memory_ffl_size' = memory_ffl_size + 1
      /\ swap_pn' = f /\ evicted' = memory_ffl[f] /\ pc' = "lookup"
      /\ UNCHANGED <<ptbl1, tables, tlb, time, left, fn, known, lastUse, misplaced>>
  BY DEF SwapOut, call
<1> HIDE DEF tags, d
<1>4. StoreOK'
  BY <1>2, <1>3 DEF TypeInv, StoreOK, Words
<1>5. MapsOK'
  <2>1. /\ ptbl2' \in [Tables -> [0..(Level2 - 1) -> Entries2]]
        /\ \A t \in Tables, j \in 0..(Level2 - 1) :
             IF t = TableOf(tags) /\ j = tags.page[2]
             THEN /\ ptbl2'[t][j].fn = d /\ ptbl2'[t][j].present
                  /\ ptbl2'[t][j].valid = ptbl2[t][j].valid
             ELSE ptbl2'[t][j] = ptbl2[t][j]
    BY <1>1, <1>2, <1>3, MarkedEntries
  <2>2. EntriesPlaced'
    BY <1>2, <2>1 DEF TypeInv, MapsOK, EntriesPlaced
  <2>3. \A t \in Tables, j \in 0..(Level2 - 1) : ptbl2'[t][j].valid = ptbl2[t][j].valid
    BY <2>1
  <2>4. TablesTaken'
    BY <1>3, <2>3 DEF TypeInv, MapsOK, TablesTaken
  <2> QED
    BY <1>3, <2>1, <2>2, <2>4 DEF TypeInv, MapsOK
<1>6. CallOK'
  BY <1>3 DEF TypeInv, CallOK
<1>7. TlbOK' /\ HistoryOK'
  BY <1>1, <1>3 DEF TypeInv, TlbOK, HistoryOK
<1> QED
  BY <1>4, <1>5, <1>6, <1>7

LEMMA ScannedTypes ==
  ASSUME TypeInv, TablesInv', NEW f \in Frames, SwapOutScanned(f)
  PROVE  TypeInv'
<1>1. SwapOut(f) /\ pc = "victim" /\ fifo' = fifo
  BY DEF SwapOutScanned
<1>2. usage' \in [Frames -> Nat]
  BY DEF SwapOutScanned, TypeInv, PolicyOK
<1> QED
  BY <1>1, <1>2, SwapOutTypes DEF TypeInv, PolicyOK

LEMMA QueuedTypes ==
  ASSUME TypeInv, TablesInv', SwapOutQueued
  PROVE  TypeInv'
<1> DEFINE node == Dequeued(fifo)
<1>1. /\ pc = "victim" /\ ~DequeueFaults(fifo) /\ node # NONE /\ SwapOut(node.fn)
      /\ fifo' = dequeue(fifo) /\ usage' = usage
  BY DEF SwapOutQueued
<1>2. fifo \in QueueOf(Nodes)
  BY DEF TypeInv, PolicyOK
<1>3. ~isEmpty(fifo)
  BY <1>1 DEF Dequeued
<1>4. node \in Nodes
  BY <1>1, <1>2, <1>3, DequeuedNode
<1>5. node.fn \in Frames
  BY <1>4 DEF Nodes
<1>6. fifo' \in QueueOf(Nodes)
  BY <1>1, <1>2, QueueKept
<1> HIDE DEF node
<1>7. StoreOK' /\ MapsOK' /\ TlbOK' /\ CallOK' /\ HistoryOK'
  BY <1>1, <1>5, SwapOutTypes
<1> QED
  BY <1>1, <1>6, <1>7 DEF TypeInv, PolicyOK

LEMMA ChanceTypes ==
  ASSUME TypeInv, TablesInv', SecondChance
  PROVE  TypeInv'
<1> DEFINE node == Dequeued(fifo)
<1>1. /\ ~DequeueFaults(fifo) /\ node # NONE /\ node.chances > 0
      /\ fifo' = enqueue(dequeue(fifo), [node EXCEPT !.chances = @ - 1])
      /\ UNCHANGED <<store, maps, usage, pc, call, va, swap_pn, fn, history>>
  BY DEF SecondChance
<1>2. fifo \in QueueOf(Nodes)
  BY DEF TypeInv, PolicyOK
<1>3. ~isEmpty(fifo)
  BY <1>1 DEF Dequeued
<1>4. node \in Nodes
  BY <1>1, <1>2, <1>3, DequeuedNode
<1>5. [node EXCEPT !.chances = @ - 1] \in Nodes
  BY <1>1, <1>4 DEF Nodes
<1> HIDE DEF node
<1>6. fifo' \in QueueOf(Nodes)
  BY <1>1, <1>2, <1>5, QueueKept
<1>7. PolicyOK'
  BY <1>1, <1>6 DEF TypeInv, PolicyOK
<1>8. StoreOK' /\ MapsOK' /\ HistoryOK'
  BY <1>1, SameStore, SameMaps, SameHistory DEF TypeInv, maps, history
<1>9. TlbOK' /\ CallOK'
  BY <1>1 DEF TypeInv, TlbOK, CallOK, maps, call
<1> QED
  BY <1>7, <1>8, <1>9 DEF TypeInv

\* A page gets a frame, and the TLB is told.
LEMMA Level2Types ==
  ASSUME TypeInv, TablesInv', Level2Fault
  PROVE  TypeInv'
<1> DEFINE f == search_frame(memory_ffl)
<1>1. /\ pc = "lookup" /\ Mapped1 /\ fn' = f
      /\ memory_ffl' = [memory_ffl EXCEPT ![fn'] = Mine]
      /\ memory_ffl_size' = memory_ffl_size - 1
      /\ MapTo(fn') /\ FillTlb(fn') /\ pc' = "perform"
      /\ UNCHANGED <<memory, disk, disk_ffl, ptbl1, tables, policy, time, left, swap_pn>>
      /\ UNCHANGED <<known, lastUse, evicted, misplaced>>
  BY DEF Level2Fault, AtLevel2, call, history
<1>2. fn' \in Frames /\ Mine \in TagSet
  BY <1>1, LookupTypes
<1>3. MapsOK' /\ TlbOK'
  BY <1>1, <1>2, MapTypes, FillTypes
<1>4. StoreOK'
  BY <1>1, <1>2 DEF TypeInv, StoreOK
<1>5. PolicyOK' /\ HistoryOK'
  BY <1>1, SamePolicy, SameHistory DEF TypeInv
<1>6. CallOK'
  BY <1>1, <1>2 DEF TypeInv, CallOK
<1> QED
  BY <1>3, <1>4, <1>5, <1>6 DEF TypeInv

LEMMA SwapInTypes ==
  ASSUME TypeInv, TablesInv', SwapIn
  PROVE  TypeInv'
<1> DEFINE f == search_frame(memory_ffl)
           d == Entry2.fn
<1>1. /\ pc = "lookup" /\ Mapped1 /\ Entry2.present /\ fn' = f
      /\ memory_ffl_size' = memory_ffl_size - 1
      /\ memory' = [memory EXCEPT ![swap_pn] = disk[d]]
      /\ disk' = [disk EXCEPT ![d] = BLANK]
      /\ disk_ffl' = [disk_ffl EXCEPT ![d] = FREE]
      /\ memory_ffl' = [memory_ffl EXCEPT ![swap_pn] = Bare, ![fn'] = Mine]
      /\ MapTo(fn') /\ FillTlb(fn') /\ pc' = "perform"
      /\ misplaced' = (misplaced \/ fn' # swap_pn)
      /\ UNCHANGED <<ptbl1, tables, policy, time, left, swap_pn, known, lastUse, evicted>>
  BY DEF SwapIn, AtLevel2, call
<1>2. fn' \in Frames /\ Mine \in TagSet /\ d \in DiskFrames /\ swap_pn \in Frames
  BY <1>1, LookupTypes DEF TypeInv, CallOK
<1>3. MapsOK' /\ TlbOK'
  BY <1>1, <1>2, MapTypes, FillTypes
<1> HIDE DEF d, f
<1>4. StoreOK'
  <2>1. /\ memory \in [Frames -> Words] /\ disk \in [DiskFrames -> Words]
        /\ memory_ffl \in [Frames -> TagSet \cup {FREE}]
        /\ disk_ffl \in [DiskFrames -> {Bare, FREE}] /\ memory_ffl_size \in Int
        /\ BLANK \in Words /\ Bare \in TagSet
    BY Ranges DEF TypeInv, StoreOK, Words
  <2>2. memory_ffl' \in [Frames -> TagSet \cup {FREE}]
    BY <1>1, <1>2, <2>1
  <2>3. memory' \in [Frames -> Words] /\ disk' \in [DiskFrames -> Words]
    BY <1>1, <1>2, <2>1
  <2>4. disk_ffl' \in [DiskFrames -> {Bare, FREE}]
    BY <1>1, <1>2, <2>1
  <2> QED
    BY <1>1, <2>1, <2>2, <2>3, <2>4 DEF StoreOK
<1>5. PolicyOK'
  BY <1>1, SamePolicy DEF TypeInv
<1>6. CallOK' /\ HistoryOK'
  BY <1>1, <1>2 DEF TypeInv, CallOK, HistoryOK
<1> QED
  BY <1>3, <1>4, <1>5, <1>6 DEF TypeInv

\* The entries that have a table have different ones, so a page without an entry in
\* level 1 finds a table.
LEMMA TableFree ==
  ASSUME TablesInv, TablesTaken, NEW p \in Procs, NEW i \in 0..(Level1 - 1), ~ptbl1[p][i].valid
  PROVE  tables \in Tables /\ tables + 1 <= NProcs * Level1
<1> DEFINE entries == Procs \X (0..(Level1 - 1))
           taker == [t \in 0..(tables - 1) |->
                       CHOOSE e \in entries : ptbl1[e[1]][e[2]].valid /\ ptbl1[e[1]][e[2]].tn = t]
<1>1. IsFiniteSet(entries) /\ Cardinality(entries) = NProcs * Level1
  <2>1. /\ IsFiniteSet(Procs) /\ Cardinality(Procs) = NProcs
        /\ IsFiniteSet(0..(Level1 - 1)) /\ Cardinality(0..(Level1 - 1)) = Level1
    <3>1. NProcs \in Nat \ {0} /\ Level1 \in Nat \ {0}
      BY MMUAssumption
    <3>2. IsFiniteSet(0..(NProcs - 1)) /\ Cardinality(0..(NProcs - 1)) = NProcs
      BY <3>1, FS_Interval
    <3>3. IsFiniteSet(0..(Level1 - 1)) /\ Cardinality(0..(Level1 - 1)) = Level1
      BY <3>1, FS_Interval
    <3> QED
      BY <3>2, <3>3 DEF Procs
  <2> QED
    BY <2>1, FS_Product
<1>2. ASSUME NEW t \in 0..(tables - 1)
      PROVE  /\ taker[t] \in entries
             /\ ptbl1[taker[t][1]][taker[t][2]].valid
             /\ ptbl1[taker[t][1]][taker[t][2]].tn = t
  <2>1. \E q \in Procs, j \in 0..(Level1 - 1) : ptbl1[q][j].valid /\ ptbl1[q][j].tn = t
    BY DEF TablesTaken
  <2>2. \E e \in entries : ptbl1[e[1]][e[2]].valid /\ ptbl1[e[1]][e[2]].tn = t
    <3>1. PICK q \in Procs, j \in 0..(Level1 - 1) : ptbl1[q][j].valid /\ ptbl1[q][j].tn = t
      BY <2>1
    <3>2. <<q, j>> \in entries
      OBVIOUS
    <3> QED
      BY <3>1, <3>2
  <2> QED
    BY <2>2
<1>3. taker \in [0..(tables - 1) -> entries]
  BY <1>2
<1> HIDE DEF taker
<1>4. taker \in Injection(0..(tables - 1), entries \ {<<p, i>>})
  <2>1. ASSUME NEW t \in 0..(tables - 1) PROVE taker[t] # <<p, i>>
    <3>1. ptbl1[taker[t][1]][taker[t][2]].valid
      BY <1>2
    <3>2. <<p, i>>[1] = p /\ <<p, i>>[2] = i
      OBVIOUS
    <3> QED
      BY <3>1, <3>2
  <2>2. \A t, u \in 0..(tables - 1) : taker[t] = taker[u] => t = u
    BY <1>2
  <2> QED
    BY <1>3, <2>1, <2>2 DEF Injection, IsInjective
<1>5. /\ IsFiniteSet(entries \ {<<p, i>>})
      /\ Cardinality(entries \ {<<p, i>>}) = NProcs * Level1 - 1
  <2>1. <<p, i>> \in entries
    OBVIOUS
  <2> HIDE DEF entries
  <2> QED
    BY <1>1, <2>1, FS_RemoveElement
<1>6. Cardinality(0..(tables - 1)) <= NProcs * Level1 - 1
  BY <1>4, <1>5, FS_Injection
<1>7. tables \in Nat /\ Cardinality(0..(tables - 1)) = tables
  BY FS_Interval DEF TablesInv
<1>8. NProcs * Level1 \in Nat
  BY <1>1, FS_CardinalityType
<1> QED
  BY <1>6, <1>7, <1>8 DEF Tables

LEMMA Level1Types ==
  ASSUME TypeInv, TablesInv', Level1Fault
  PROVE  TypeInv'
<1> DEFINE entry == [tn |-> tables, valid |-> TRUE]
<1>1. /\ ~ptbl1[idx][va[1]].valid
      /\ ptbl1' = [ptbl1 EXCEPT ![idx][va[1]] = entry] /\ tables' = tables + 1
      /\ UNCHANGED <<store, ptbl2, tlb, policy, pc, time, left, swap_pn, fn, history>>
  BY DEF Level1Fault, Mapped1, call
<1>2. idx \in Procs /\ va[1] \in 0..(Level1 - 1)
  BY LookupTypes
<1>3. tables \in Tables /\ tables + 1 <= NProcs * Level1 /\ tables \in Nat
  BY <1>1, <1>2, TableFree, Ranges DEF TypeInv, MapsOK, Tables
<1>4. entry \in [tn : Tables, valid : BOOLEAN] /\ entry.valid /\ entry.tn = tables
  BY <1>3
<1> HIDE DEF entry
<1>5. /\ ptbl1' \in [Procs -> [0..(Level1 - 1) -> [tn : Tables, valid : BOOLEAN]]]
      /\ \A p \in Procs, i \in 0..(Level1 - 1) :
           ptbl1'[p][i] = IF p = idx /\ i = va[1] THEN entry ELSE ptbl1[p][i]
  BY <1>1, <1>2, <1>4 DEF TypeInv, MapsOK
<1>6. TablesTaken'
  <2>1. ASSUME NEW t \in 0..tables
        PROVE  \E p \in Procs, i \in 0..(Level1 - 1) : ptbl1'[p][i].valid /\ ptbl1'[p][i].tn = t
    <3>1. CASE t = tables
      BY <1>2, <1>4, <1>5, <3>1
    <3>2. CASE t # tables
      <4>1. t \in 0..(tables - 1)
        BY <1>3, <3>2
      <4>2. PICK p \in Procs, i \in 0..(Level1 - 1) : ptbl1[p][i].valid /\ ptbl1[p][i].tn = t
        BY <4>1 DEF TypeInv, MapsOK, TablesTaken
      <4>3. ptbl1'[p][i] = ptbl1[p][i]
        BY <1>1, <1>5, <4>2
      <4> QED
        BY <4>2, <4>3
    <3> QED
      BY <3>1, <3>2
  <2>2. tables' - 1 = tables
    BY <1>1, <1>3
  <2>3. \A t \in Tables, j \in 0..(Level2 - 1) : ptbl2'[t][j].valid => t < tables'
    BY <1>1, <1>3 DEF TypeInv, MapsOK, TablesTaken, Tables
  <2> QED
    BY <2>1, <2>2, <2>3 DEF TablesTaken
<1>7. MapsOK'
  <2>1. ptbl2' = ptbl2 /\ tables' \in 0..(NProcs * Level1)
    BY <1>1, <1>3, Ranges
  <2>2. EntriesPlaced'
    BY <2>1 DEF TypeInv, MapsOK, EntriesPlaced
  <2> QED
    BY <1>5, <1>6, <2>1, <2>2 DEF TypeInv, MapsOK
<1>8. StoreOK' /\ PolicyOK' /\ HistoryOK'
  BY <1>1, SameStore, SamePolicy, SameHistory DEF TypeInv, history
<1>9. TlbOK' /\ CallOK'
  BY <1>1 DEF TypeInv, TlbOK, CallOK
<1> QED
  BY <1>7, <1>8, <1>9 DEF TypeInv

LEMMA PerformTypes ==
  ASSUME TypeInv, TablesInv', Perform
  PROVE  TypeInv'
<1> DEFINE word == IF memory[fn] = BLANK THEN Owned(idx, va) ELSE memory[fn]
<1>1. /\ Touch /\ pc = "perform" /\ left' = left - 1
      /\ memory' = [memory EXCEPT ![fn] = word]
      /\ known' = [known EXCEPT ![idx][va] = word]
      /\ lastUse' = [lastUse EXCEPT ![idx][va] = time]
      /\ pc' = IF left = 1 THEN "idle" ELSE "access"
      /\ UNCHANGED <<disk, memory_ffl, disk_ffl, memory_ffl_size, maps, time, swap_pn, fn,
                     evicted, misplaced>>
  BY DEF Perform, BatchOver
<1>2. idx \in Procs /\ va \in Pages /\ fn \in Frames /\ time \in 0..MaxCalls /\ left \in 1..BATCH
  BY <1>1, LookupTypes DEF TypeInv, CallOK
<1>3. word \in Words
  BY <1>2 DEF TypeInv, StoreOK, Words, Owned
<1> HIDE DEF word
<1>4. StoreOK'
  BY <1>1, <1>2, <1>3 DEF TypeInv, StoreOK
<1>5. HistoryOK'
  <2>1. known' \in [Procs -> [Pages -> Words]]
    BY <1>1, <1>2, <1>3 DEF TypeInv, HistoryOK
  <2>2. lastUse' \in [Procs -> [Pages -> 0..MaxCalls]]
    BY <1>1, <1>2 DEF TypeInv, HistoryOK
  <2> QED
    BY <1>1, <2>1, <2>2 DEF TypeInv, HistoryOK
<1>6. CallOK'
  <2>1. left' \in 0..BATCH /\ (pc' = "access" => left' > 0) /\ pc' \in {"idle", "access"}
    BY <1>1, <1>2, Ranges
  <2> QED
    BY <1>1, <2>1 DEF TypeInv, CallOK
<1>7. usage' \in [Frames -> Nat]
  <2>1. usage \in [Frames -> Nat] /\ time \in Nat
    BY <1>2, Ranges DEF TypeInv, PolicyOK
  <2>2. CASE set_replacement = LRU
    BY <1>1, <1>2, <2>1, <2>2 DEF Touch, LRU, LFU, MFU
  <2>3. CASE set_replacement \in {LFU, MFU}
    BY <1>1, <1>2, <2>1, <2>3 DEF Touch, LRU, LFU, MFU
  <2>4. CASE set_replacement # LRU /\ set_replacement \notin {LFU, MFU}
    BY <1>1, <2>1, <2>4 DEF Touch
  <2> QED
    BY <2>2, <2>3, <2>4
<1>8. fifo' \in QueueOf(Nodes)
  <2>1. fifo \in QueueOf(Nodes)
    BY DEF TypeInv, PolicyOK
  <2> DEFINE mine == [fn |-> fn, chances |-> Chances]
             same == [fn : {fn}, chances : 0..3]
  <2>2. mine \in Nodes
    BY <1>2 DEF Nodes, Chances
  <2> HIDE DEF mine
  <2>3. searchQueue(fifo, same) \in QueueOf(Nodes)
    BY <2>1, QueueKept
  <2>4. enqueue(searchQueue(fifo, same), mine) \in QueueOf(Nodes)
    BY <2>2, <2>3, QueueKept
  <2> QED
    BY <1>1, <2>1, <2>4 DEF Touch, mine
<1>9. MapsOK' /\ TlbOK' /\ PolicyOK'
  BY <1>1, <1>7, <1>8, SameMaps DEF TypeInv, TlbOK, PolicyOK, maps
<1> QED
  BY <1>4, <1>5, <1>6, <1>9 DEF TypeInv

LEMMA StepTypes ==
  ASSUME TypeInv, TablesInv', [Next]_vars
  PROVE  TypeInv'
<1>1. ASSUME CallOK', UNCHANGED <<store, maps, policy, history>>
      PROVE  TypeInv'
  BY <1>1, SameStore, SameMaps, SamePolicy, SameHistory
     DEF TypeInv, TlbOK, maps, history
<1>2. ASSUME NEW p \in Procs, Call(p)
      PROVE  TypeInv'
  <2>1. time < MaxCalls /\ time' = time + 1 /\ left' = BATCH /\ swap_pn' = 0 /\ pc' = "access"
        /\ fn' = fn
    BY <1>2 DEF Call
  <2>2. CallOK'
    BY <2>1, Ranges DEF TypeInv, CallOK
  <2> QED
    BY <1>1, <1>2, <2>2 DEF Call
<1>3. ASSUME NEW v \in Pages, NextAddress(v)
      PROVE  TypeInv'
  <2>1. CallOK'
    BY <1>3 DEF NextAddress, TypeInv, CallOK, call
  <2> QED
    BY <1>1, <1>3, <2>1 DEF NextAddress
<1>4. ASSUME NEW f \in Frames, SwapOutScanned(f)
      PROVE  TypeInv'
  BY <1>4, ScannedTypes
<1>5. CASE SecondChance
  BY <1>5, ChanceTypes
<1>6. CASE SwapOutQueued
  BY <1>6, QueuedTypes
<1>7. CASE NoVictim
  <2>1. CallOK'
    BY <1>7 DEF NoVictim, TypeInv, CallOK, call
  <2> QED
    BY <1>1, <1>7, <2>1 DEF NoVictim
<1>8. CASE TlbHit
  <2>1. fn' \in Frames
    BY <1>8, LookupTypes DEF TlbHit, TlbEntry
  <2>2. CallOK'
    BY <1>8, <2>1 DEF TlbHit, TypeInv, CallOK, call
  <2> QED
    BY <1>1, <1>8, <2>2 DEF TlbHit
<1>9. CASE Level1Fault
  BY <1>9, Level1Types
<1>10. CASE Level2Fault
  BY <1>10, Level2Types
<1>11. CASE SwapIn
  BY <1>11, SwapInTypes
<1>12. CASE Level2Hit
  <2>1. fn' \in Frames /\ FillTlb(fn')
    BY <1>12, LookupTypes DEF Level2Hit, AtLevel2
  <2>2. TlbOK'
    BY <2>1, FillTypes
  <2>3. CallOK'
    BY <1>12, <2>1 DEF Level2Hit, AtLevel2, TypeInv, CallOK, call
  <2>4. StoreOK' /\ MapsOK' /\ PolicyOK' /\ HistoryOK'
    BY <1>12, SameStore, SameMaps, SamePolicy, SameHistory DEF Level2Hit, TypeInv, history
  <2> QED
    BY <2>2, <2>3, <2>4 DEF TypeInv
<1>13. CASE Perform
  BY <1>13, PerformTypes
<1>14. CASE UNCHANGED vars
  <2>1. CallOK'
    BY <1>14 DEF vars, TypeInv, CallOK, call
  <2> QED
    BY <1>1, <1>14, <2>1 DEF vars
<1> QED
  BY <1>2, <1>3, <1>4, <1>5, <1>6, <1>7, <1>8, <1>9, <1>10, <1>11, <1>12, <1>13, <1>14 DEF Next

LEMMA TypeInvariance == Spec => []TypeInv
<1>1. TypeInv /\ TablesInv' /\ [Next]_vars => TypeInv'
  BY StepTypes
<1> QED
  BY <1>1, InitTypes, TablesInvariance, PTL DEF Spec

\* Under every policy, with the TLB or without, frames and pages stay in range.
THEOREM TypeCorrect == Spec => []TypeOK
BY TypeInvariance, InvTypes, PTL

-----------------------------------------------------------------------------
(* A free frame whenever one is searched, under every policy *)

\* How the set of free frames changes when one is taken or given back.
LEMMA FreeSets ==
  ASSUME NEW ffl \in [Frames -> TagSet \cup {FREE}], NEW f \in Frames
  PROVE  /\ FreeIn(ffl) \subseteq Frames
         /\ IsFiniteSet(FreeIn(ffl)) /\ Cardinality(FreeIn(ffl)) \in Nat
         /\ FreeIn(ffl) = {} <=> Cardinality(FreeIn(ffl)) = 0
         /\ \A t \in TagSet : FreeIn([ffl EXCEPT ![f] = t]) = FreeIn(ffl) \ {f}
         /\ FreeIn([ffl EXCEPT ![f] = FREE]) = FreeIn(ffl) \cup {f}
         /\ f \in FreeIn(ffl) =>
              Cardinality(FreeIn(ffl) \ {f}) = Cardinality(FreeIn(ffl)) - 1
         /\ f \notin FreeIn(ffl) =>
              Cardinality(FreeIn(ffl) \cup {f}) = Cardinality(FreeIn(ffl)) + 1
<1>1. FreeIn(ffl) \subseteq Frames
  BY DEF FreeIn
<1>2. IsFiniteSet(FreeIn(ffl)) /\ Cardinality(FreeIn(ffl)) \in Nat
  BY <1>1, Finite, FS_Subset, FS_CardinalityType
<1>3. FreeIn(ffl) = {} <=> Cardinality(FreeIn(ffl)) = 0
  BY <1>2, FS_EmptySet
<1>4. \A t \in TagSet : FreeIn([ffl EXCEPT ![f] = t]) = FreeIn(ffl) \ {f}
  BY Ranges DEF FreeIn
<1>5. FreeIn([ffl EXCEPT ![f] = FREE]) = FreeIn(ffl) \cup {f}
  BY DEF FreeIn
<1>6. f \in FreeIn(ffl) => Cardinality(FreeIn(ffl) \ {f}) = Cardinality(FreeIn(ffl)) - 1
  BY <1>2, FS_RemoveElement
<1>7. f \notin FreeIn(ffl) => Cardinality(FreeIn(ffl) \cup {f}) = Cardinality(FreeIn(ffl)) + 1
  BY <1>2, FS_AddElement
<1> QED
  BY <1>1, <1>2, <1>3, <1>4, <1>5, <1>6, <1>7

\* memory_ffl_size goes down to MinFree - 1 and from then on up and down by one; from
\* MinFree upwards it was never changed by anything but a first access.  So the free
\* frames may be fewer than it says (RANDOM), but there is one.
FrameInv ==
  /\ MinFree <= memory_ffl_size + 1
  /\ pc = "victim" => memory_ffl_size < MinFree
  /\ pc = "lookup" => memory_ffl_size >= MinFree
  /\ memory_ffl_size >= MinFree => FreeIn(memory_ffl) # {}
  /\ memory_ffl_size > MinFree =>
       /\ FreeFramesCounted
       /\ \A t \in Tables, j \in 0..(Level2 - 1) : ~ptbl2[t][j].present

LEMMA InitFrames ==
  ASSUME Init, MinFree # 0
  PROVE  FrameInv
<1>1. FreeIn(memory_ffl) = Frames
  BY DEF Init, FreeIn
<1>2. memory_ffl_size = NFrames /\ pc = "idle"
      /\ \A t \in Tables, j \in 0..(Level2 - 1) : ~ptbl2[t][j].present
  BY DEF Init
<1>3. 0 \in Frames
  BY Ranges
<1> QED
  BY <1>1, <1>2, <1>3, Ranges, Finite DEF FrameInv, FreeFramesCounted

\* Steps that leave frames and tables alone.
LEMMA SameFrames ==
  ASSUME FrameInv, UNCHANGED <<memory_ffl, memory_ffl_size, ptbl2>>,
         pc' = "victim" => memory_ffl_size < MinFree,
         pc' = "lookup" => memory_ffl_size >= MinFree
  PROVE  FrameInv'
BY DEF FrameInv, FreeFramesCounted, FreeIn

\* A page that leaves its frame brings the size to MinFree.
LEMMA SwapOutFrames ==
  ASSUME TypeInv, FrameInv, NEW f \in Frames, SwapOut(f), pc = "victim"
  PROVE  FrameInv'
<1>1. /\ memory_ffl' = [memory_ffl EXCEPT ![f] = FREE]
      /\ memory_ffl_size' = memory_ffl_size + 1 /\ pc' = "lookup"
  BY DEF SwapOut
<1>2. memory_ffl_size' = MinFree
  <2>1. memory_ffl_size \in Int /\ MinFree \in Int
    BY Ranges DEF TypeInv, StoreOK
  <2>2. MinFree <= memory_ffl_size + 1 /\ memory_ffl_size < MinFree
    BY DEF FrameInv
  <2> QED
    BY <1>1, <2>1, <2>2
<1>3. FreeIn(memory_ffl)' = FreeIn(memory_ffl) \cup {f}
  <2>1. FreeIn(memory_ffl)' = FreeIn(memory_ffl')
    BY DEF FreeIn
  <2> QED
    BY <1>1, <2>1, FreeSets DEF TypeInv, StoreOK
<1>4. MinFree \in Int /\ MinFree <= MinFree + 1 /\ ~(MinFree > MinFree)
  BY Ranges
<1>5. FreeIn(memory_ffl)' # {}
  BY <1>3
<1> QED
  BY <1>1, <1>2, <1>4, <1>5 DEF FrameInv

\* The frame found is free, and is taken.
LEMMA FrameTaken ==
  ASSUME TypeInv, FrameInv, Level2Fault
  PROVE  /\ fn' \in FreeIn(memory_ffl) /\ \A f \in FreeIn(memory_ffl) : fn' <= f
         /\ FreeIn(memory_ffl') = FreeIn(memory_ffl) \ {fn'}
         /\ memory_ffl_size' = memory_ffl_size - 1
<1>1. /\ fn' = search_frame(memory_ffl) /\ memory_ffl' = [memory_ffl EXCEPT ![fn'] = Mine]
      /\ memory_ffl_size' = memory_ffl_size - 1 /\ pc = "lookup"
  BY DEF Level2Fault, AtLevel2
<1>2. FreeIn(memory_ffl) # {}
  BY <1>1 DEF FrameInv
<1>3. fn' \in FreeIn(memory_ffl) /\ \A f \in FreeIn(memory_ffl) : fn' <= f
  BY <1>1, <1>2, FrameSearched, Ranges DEF TypeInv, StoreOK, Frames
<1>4. fn' \in Frames /\ Mine \in TagSet
  BY <1>1, LookupTypes
<1> QED
  BY <1>1, <1>3, <1>4, FreeSets DEF TypeInv, StoreOK

LEMMA Level2Frames ==
  ASSUME TypeInv, FrameInv, MinFree # 0, Level2Fault
  PROVE  FrameInv'
<1>1. /\ fn' \in FreeIn(memory_ffl)
      /\ FreeIn(memory_ffl') = FreeIn(memory_ffl) \ {fn'}
      /\ memory_ffl_size' = memory_ffl_size - 1
  BY FrameTaken
<1>2. memory_ffl_size >= MinFree /\ pc' = "perform" /\ memory_ffl_size \in Int
      /\ MapTo(fn') /\ Mapped1
  BY DEF Level2Fault, AtLevel2, FrameInv, TypeInv, StoreOK
<1>3. CASE memory_ffl_size = MinFree
  BY <1>1, <1>2, <1>3, Ranges DEF FrameInv
<1>4. CASE memory_ffl_size > MinFree
  <2>1. FreeFramesCounted
    BY <1>4 DEF FrameInv
  <2>2. Cardinality(FreeIn(memory_ffl')) = Cardinality(FreeIn(memory_ffl)) - 1
    <3>1. memory_ffl \in [Frames -> TagSet \cup {FREE}] /\ FreeIn(memory_ffl) \subseteq Frames
      BY DEF TypeInv, StoreOK, FreeIn
    <3> QED
      BY <1>1, <3>1, FreeSets
  <2>3. FreeFramesCounted'
    BY <1>1, <2>1, <2>2 DEF FreeFramesCounted, FreeIn
  <2>4. FreeIn(memory_ffl') # {}
    <3>1. Cardinality(FreeIn(memory_ffl')) # 0
      BY <1>1, <1>2, <1>4, <2>1, <2>2, Ranges DEF FreeFramesCounted
    <3> QED
      BY <3>1, FS_EmptySet
  <2>5. \A t \in Tables, j \in 0..(Level2 - 1) : ~ptbl2'[t][j].present
    <3>1. \A t \in Tables, j \in 0..(Level2 - 1) : ~ptbl2[t][j].present
      BY <1>4 DEF FrameInv
    <3>2. ptbl1[idx][va[1]].tn \in Tables /\ va[2] \in 0..(Level2 - 1)
      BY LookupTypes
    <3> QED
      BY <1>2, <3>1, <3>2 DEF MapTo, TypeInv, MapsOK
  <2>6. FreeIn(memory_ffl)' = FreeIn(memory_ffl')
    BY DEF FreeIn
  <2> QED
    BY <1>1, <1>2, <1>4, <2>3, <2>4, <2>5, <2>6, Ranges DEF FrameInv
<1> QED
  BY <1>2, <1>3, <1>4, Ranges

LEMMA StepFrames ==
  ASSUME TypeInv, FrameInv, MinFree # 0, [Next]_vars
  PROVE  FrameInv'
<1>1. ASSUME NEW p \in Procs, Call(p)
      PROVE  FrameInv'
  <2>1. pc' = "access" /\ UNCHANGED <<memory_ffl, memory_ffl_size, ptbl2>>
    BY <1>1 DEF Call, store, maps
  <2> QED
    BY <2>1, SameFrames
<1>2. ASSUME NEW v \in Pages, NextAddress(v)
      PROVE  FrameInv'
  <2>1. pc' = "victim" => memory_ffl_size < MinFree
    BY <1>2 DEF NextAddress
  <2>2. memory_ffl_size \in Int /\ MinFree \in Int
    BY Ranges DEF TypeInv, StoreOK
  <2>3. pc' = "lookup" => memory_ffl_size >= MinFree
    BY <1>2, <2>2 DEF NextAddress
  <2>4. UNCHANGED <<memory_ffl, memory_ffl_size, ptbl2>>
    BY <1>2 DEF NextAddress, store, maps
  <2> QED
    BY <2>1, <2>3, <2>4, SameFrames
<1>3. ASSUME NEW f \in Frames, SwapOutScanned(f)
      PROVE  FrameInv'
  BY <1>3, SwapOutFrames DEF SwapOutScanned
<1>4. CASE SwapOutQueued
  <2>1. PICK node : node = Dequeued(fifo)
    OBVIOUS
  <2>2. pc = "victim" /\ ~DequeueFaults(fifo) /\ node # NONE /\ SwapOut(node.fn)
    BY <1>4, <2>1 DEF SwapOutQueued
  <2>3. node \in Nodes
    BY <2>1, <2>2, DequeuedNode DEF TypeInv, PolicyOK, Dequeued
  <2> QED
    BY <2>2, <2>3, SwapOutFrames DEF Nodes
<1>5. CASE SecondChance \/ NoVictim \/ TlbHit \/ Level2Hit
  BY <1>5, SameFrames
     DEF SecondChance, NoVictim, TlbHit, Level2Hit, AtLevel2, FrameInv, store, maps
<1>6. CASE Level1Fault
  BY <1>6, SameFrames DEF Level1Fault, FrameInv, store
<1>7. CASE Level2Fault
  BY <1>7, Level2Frames
<1>8. CASE SwapIn
  <2>1. /\ Entry2.present /\ pc = "lookup" /\ pc' = "perform"
        /\ memory_ffl_size' = memory_ffl_size - 1
    BY <1>8 DEF SwapIn, AtLevel2
  <2>2. memory_ffl_size = MinFree
    <3>1. ptbl1[idx][va[1]].tn \in Tables /\ va[2] \in 0..(Level2 - 1)
      BY LookupTypes
    <3>2. ~(memory_ffl_size > MinFree)
      BY <2>1, <3>1 DEF FrameInv, Entry2
    <3> QED
      BY <2>1, <3>2, Ranges DEF FrameInv, TypeInv, StoreOK
  <2> QED
    BY <2>1, <2>2, Ranges DEF FrameInv
<1>9. CASE Perform
  BY <1>9, SameFrames DEF Perform, FrameInv, maps
<1>10. CASE UNCHANGED vars
  BY <1>10, SameFrames DEF vars, FrameInv, store, maps
<1> QED
  BY <1>1, <1>2, <1>3, <1>4, <1>5, <1>6, <1>7, <1>8, <1>9, <1>10 DEF Next

LEMMA FrameInvariance ==
  ASSUME MinFree # 0
  PROVE  Spec => []FrameInv
<1>1. Init => FrameInv
  BY InitFrames
<1>2. TypeInv /\ FrameInv /\ [Next]_vars => FrameInv'
  BY StepFrames
<1> QED
  BY <1>1, <1>2, TypeInvariance, PTL DEF Spec

\* Under every policy there is a free frame when MMU searches one, if it keeps any
\* free at all (search_frame of memory.c, whose answer is 0 when there is none).
THEOREM FrameFound ==
  ASSUME MinFree # 0
  PROVE  Spec => []FrameWhenNeeded
<1>1. FrameInv => FrameWhenNeeded
  BY DEF FrameInv, FrameWhenNeeded
<1> QED
  BY <1>1, FrameInvariance, PTL

-----------------------------------------------------------------------------
(* Which pages are mapped, and where *)

\* An entry is what the types say of it.
LEMMA EntryTypes ==
  ASSUME TypeInv, NEW p \in Procs, NEW v \in Pages
  PROVE  /\ v[1] \in 0..(Level1 - 1) /\ v[2] \in 0..(Level2 - 1)
         /\ ptbl1[p][v[1]].tn \in Tables
         /\ ptbl1[p][v[1]].valid => ptbl1[p][v[1]].tn < tables
         /\ Entry(p, v) \in Entries2
         /\ Entry(p, v).present => Entry(p, v).fn \in DiskFrames
         /\ Entry(p, v).valid /\ ~Entry(p, v).present => Entry(p, v).fn \in Frames
<1>1. v[1] \in 0..(Level1 - 1) /\ v[2] \in 0..(Level2 - 1)
  BY DEF Pages
<1>2. ptbl1[p][v[1]].tn \in Tables
  <2>1. ptbl1 \in [Procs -> [0..(Level1 - 1) -> [tn : Tables, valid : BOOLEAN]]]
    BY DEF TypeInv, MapsOK
  <2> QED
    BY <1>1, <2>1
<1>3. ptbl1[p][v[1]].valid => ptbl1[p][v[1]].tn < tables
  BY <1>1 DEF TypeInv, TablesInv
<1>4. /\ Entry(p, v) \in Entries2
      /\ Entry(p, v).present => Entry(p, v).fn \in DiskFrames
      /\ Entry(p, v).valid /\ ~Entry(p, v).present => Entry(p, v).fn \in Frames
  BY <1>1, <1>2 DEF TypeInv, MapsOK, EntriesPlaced, Entry
<1> QED
  BY <1>1, <1>2, <1>3, <1>4

\* Steps that leave the tables alone.
LEMMA SameEntries ==
  ASSUME UNCHANGED <<ptbl1, ptbl2>>, NEW p, NEW v
  PROVE  (IsMapped(p, v)' <=> IsMapped(p, v)) /\ Entry(p, v)' = Entry(p, v)
         /\ (Resident(p, v)' <=> Resident(p, v))
BY DEF IsMapped, Entry, Resident

\* A level 1 entry gets an empty table: no page is mapped that was not before.
LEMMA Level1Entries ==
  ASSUME TypeInv, Level1Fault, NEW p \in Procs, NEW v \in Pages
  PROVE  /\ IsMapped(p, v)' <=> IsMapped(p, v)
         /\ IsMapped(p, v) => Entry(p, v)' = Entry(p, v)
<1> DEFINE entry == [tn |-> tables, valid |-> TRUE]
<1>1. /\ ptbl2' = ptbl2 /\ ~ptbl1[idx][va[1]].valid
      /\ ptbl1' = [ptbl1 EXCEPT ![idx][va[1]] = entry]
  BY DEF Level1Fault, Mapped1
<1>2. v[1] \in 0..(Level1 - 1) /\ v[2] \in 0..(Level2 - 1)
      /\ idx \in Procs /\ va[1] \in 0..(Level1 - 1)
  BY EntryTypes, LookupTypes
<1>3. ptbl1'[p][v[1]] = IF p = idx /\ v[1] = va[1] THEN entry ELSE ptbl1[p][v[1]]
  BY <1>1, <1>2 DEF TypeInv, TablesInv
<1>4. CASE p = idx /\ v[1] = va[1]
  <2>1. tables \in Tables
    BY <1>1, <1>2, TableFree DEF TypeInv, MapsOK
  <2>2. ~ptbl2[tables][v[2]].valid
    BY <1>2, <2>1, ~(tables < tables) DEF TypeInv, MapsOK, TablesTaken, Tables
  <2>3. ptbl1'[p][v[1]].tn = tables
    BY <1>3, <1>4
  <2>4. ~IsMapped(p, v)'
    BY <1>1, <2>2, <2>3 DEF IsMapped, Entry
  <2> QED
    BY <1>1, <1>4, <2>4 DEF IsMapped
<1>5. CASE ~(p = idx /\ v[1] = va[1])
  BY <1>1, <1>3, <1>5 DEF IsMapped, Entry
<1> QED
  BY <1>4, <1>5

\* The page looked up is mapped to frame f, and no other page changes.
LEMMA MapToEntries ==
  ASSUME TypeInv, NEW f, MapTo(f), Mapped1, UNCHANGED <<ptbl1, idx, va>>
  PROVE  /\ IsMapped(idx, va)'
         /\ Entry(idx, va)' = [fn |-> f, valid |-> TRUE, present |-> FALSE]
         /\ \A p \in Procs, v \in Pages : ~(p = idx /\ v = va) =>
              /\ IsMapped(p, v)' <=> IsMapped(p, v)
              /\ IsMapped(p, v) => Entry(p, v)' = Entry(p, v)
<1> DEFINE entry == [fn |-> f, valid |-> TRUE, present |-> FALSE]
           tn == ptbl1[idx][va[1]].tn
<1>1. /\ idx \in Procs /\ va \in Pages /\ va[1] \in 0..(Level1 - 1) /\ va[2] \in 0..(Level2 - 1)
      /\ tn \in Tables /\ ptbl1[idx][va[1]].valid
  BY LookupTypes DEF Mapped1
<1>2. ptbl2' = [ptbl2 EXCEPT ![tn][va[2]] = entry]
  BY DEF MapTo
<1>3. \A t \in Tables, j \in 0..(Level2 - 1) :
        ptbl2'[t][j] = IF t = tn /\ j = va[2] THEN entry ELSE ptbl2[t][j]
  BY <1>1, <1>2 DEF TypeInv, MapsOK
<1>4. Entry(idx, va)' = entry /\ IsMapped(idx, va)'
  <2>1. ptbl2'[tn][va[2]] = entry
    BY <1>1, <1>3
  <2> QED
    BY <1>1, <1>3, <2>1 DEF Entry, IsMapped
<1>5. ASSUME NEW p \in Procs, NEW v \in Pages, ~(p = idx /\ v = va)
      PROVE  /\ IsMapped(p, v)' <=> IsMapped(p, v)
             /\ IsMapped(p, v) => Entry(p, v)' = Entry(p, v)
  <2>1. CASE ~ptbl1[p][v[1]].valid
    BY <2>1 DEF IsMapped
  <2>2. CASE ptbl1[p][v[1]].valid
    <3>1. ptbl1[p][v[1]].tn \in Tables /\ v[1] \in 0..(Level1 - 1) /\ v[2] \in 0..(Level2 - 1)
      BY EntryTypes
    <3>2. ~(ptbl1[p][v[1]].tn = tn /\ v[2] = va[2])
      BY <1>1, <1>5, <2>2, <3>1, SamePage DEF TypeInv, TablesInv, TablesPrivate
    <3>3. Entry(p, v)' = Entry(p, v)
      BY <1>3, <3>1, <3>2 DEF Entry
    <3> QED
      BY <3>3 DEF IsMapped
  <2> QED
    BY <2>1, <2>2
<1> QED
  BY <1>4, <1>5

-----------------------------------------------------------------------------
(* Frames enough, so that nothing is swapped *)

\* There are as many frames as pages, beside those kept free.
FramesEnough == Cardinality(TagSet) + MinFree <= NFrames

\* A TLB entry cannot be mistaken for that of another process.
OneView == ~UseTlb \/ NProcs = 1

\* The tags of the frames in use are the page tables read backwards.
ReadBackwards ==
  /\ \A p \in Procs, v \in Pages :
       IsMapped(p, v) => memory_ffl[Entry(p, v).fn] = [proc |-> p, page |-> v]
  /\ \A f \in Frames :
       memory_ffl[f] # FREE =>
         /\ IsMapped(memory_ffl[f].proc, memory_ffl[f].page)
         /\ Entry(memory_ffl[f].proc, memory_ffl[f].page).fn = f

\* A TLB entry names a page of some process and its frame.
TlbNames ==
  \A i \in TlbEntries :
    tlb[i].valid =>
      \E p \in Procs, v \in Pages :
        PageKey(v) = tlb[i].key /\ IsMapped(p, v) /\ Entry(p, v).fn = tlb[i].value

NothingOnDisk == \A t \in Tables, j \in 0..(Level2 - 1) : ~ptbl2[t][j].present

MapInv ==
  /\ pc \notin {"victim", "lost"}
  /\ FreeFramesCounted
  /\ NothingOnDisk
  /\ ReadBackwards
  /\ TlbNames

\* A frame holds what its owner knows, or nothing that anybody wrote.
Contents ==
  /\ \A f \in Frames : memory_ffl[f] = FREE => memory[f] \in {BLANK, PROGRAM}
  /\ \A p \in Procs, v \in Pages :
       IF IsMapped(p, v)
       THEN \/ known[p][v] = BLANK /\ memory[Entry(p, v).fn] \in {BLANK, PROGRAM}
            \/ known[p][v] # BLANK /\ memory[Entry(p, v).fn] = known[p][v]
       ELSE known[p][v] = BLANK

\* The frame about to be accessed is the one mapped.
Found == pc = "perform" => IsMapped(idx, va) /\ fn = Entry(idx, va).fn

\* A mapped page is in a frame.
LEMMA MappedFrame ==
  ASSUME TypeInv, MapInv, NEW p \in Procs, NEW v \in Pages, IsMapped(p, v)
  PROVE  /\ Entry(p, v).fn \in Frames /\ ~Entry(p, v).present
         /\ memory_ffl[Entry(p, v).fn] = [proc |-> p, page |-> v]
<1>1. ~Entry(p, v).present
  BY EntryTypes DEF MapInv, NothingOnDisk, Entry
<1>2. Entry(p, v).fn \in Frames
  BY <1>1, EntryTypes DEF IsMapped
<1> QED
  BY <1>1, <1>2 DEF MapInv, ReadBackwards

\* The tag of a frame in use names a page.
LEMMA TagTypes ==
  ASSUME TypeInv, NEW f \in Frames, memory_ffl[f] # FREE
  PROVE  /\ memory_ffl[f] \in TagSet
         /\ memory_ffl[f].proc \in Procs /\ memory_ffl[f].page \in Pages
         /\ memory_ffl[f] = [proc |-> memory_ffl[f].proc, page |-> memory_ffl[f].page]
BY DEF TypeInv, StoreOK, TagSet

\* Frames in use have different tags: there are no more of them than tags other
\* than those of a page that is not mapped.
LEMMA FreeFrames ==
  ASSUME TypeInv, MapInv, FramesEnough
  PROVE  /\ memory_ffl_size >= MinFree
         /\ \A p \in Procs, v \in Pages : ~IsMapped(p, v) => FreeIn(memory_ffl) # {}
<1>1. /\ memory_ffl \in [Frames -> TagSet \cup {FREE}]
      /\ memory_ffl_size = Cardinality(FreeIn(memory_ffl))
      /\ FREE \notin TagSet
      /\ NFrames \in Nat /\ MinFree \in Nat
  BY Ranges DEF TypeInv, StoreOK, MapInv, FreeFramesCounted
<1>2. FreeIn(memory_ffl) \subseteq Frames
  BY <1>1 DEF FreeIn
<1> DEFINE tag == [f \in InUse |-> memory_ffl[f]]
<1>3. \A f \in InUse : f \in Frames /\ memory_ffl[f] \in TagSet
  BY <1>1 DEF InUse, FreeIn
<1>4. \A f, g \in InUse : memory_ffl[f] = memory_ffl[g] => f = g
  BY <1>1, <1>3 DEF MapInv, ReadBackwards
<1>5. IsFiniteSet(InUse) /\ Cardinality(InUse) \in Nat
  BY Finite, FS_Subset, FS_CardinalityType DEF InUse
<1>6. /\ IsFiniteSet(FreeIn(memory_ffl)) /\ Cardinality(FreeIn(memory_ffl)) \in Nat
      /\ Cardinality(InUse) = NFrames - Cardinality(FreeIn(memory_ffl))
  <2>1. Frames \cap FreeIn(memory_ffl) = FreeIn(memory_ffl)
    BY <1>2
  <2>2. IsFiniteSet(FreeIn(memory_ffl)) /\ Cardinality(FreeIn(memory_ffl)) \in Nat
    BY <1>2, Finite, FS_Subset, FS_CardinalityType
  <2>3. Cardinality(InUse) = Cardinality(Frames) - Cardinality(Frames \cap FreeIn(memory_ffl))
    BY Finite, FS_Difference DEF InUse
  <2> QED
    BY <2>1, <2>2, <2>3, Finite
<1>7. Cardinality(InUse) <= Cardinality(TagSet)
  <2>1. tag \in Injection(InUse, TagSet)
    BY <1>3, <1>4 DEF Injection, IsInjective
  <2> QED
    BY <2>1, Finite, FS_Injection
<1>8. memory_ffl_size >= MinFree
  BY <1>1, <1>6, <1>7, Finite DEF FramesEnough
<1>9. ASSUME NEW p \in Procs, NEW v \in Pages, ~IsMapped(p, v)
      PROVE  FreeIn(memory_ffl) # {}
  <2> DEFINE mine == [proc |-> p, page |-> v]
  <2>1. mine \in TagSet
    BY DEF TagSet
  <2>2. \A f \in InUse : memory_ffl[f] # mine
    BY <1>1, <1>3, <1>9 DEF MapInv, ReadBackwards
  <2>3. tag \in Injection(InUse, TagSet \ {mine})
    BY <1>3, <1>4, <2>2 DEF Injection, IsInjective
  <2>4. IsFiniteSet(TagSet \ {mine}) /\ Cardinality(TagSet \ {mine}) = Cardinality(TagSet) - 1
    BY <2>1, Finite, FS_RemoveElement
  <2>5. Cardinality(InUse) <= Cardinality(TagSet) - 1
    BY <2>3, <2>4, FS_Injection
  <2>6. Cardinality(FreeIn(memory_ffl)) # 0
    BY <1>1, <1>6, <2>5, Finite DEF FramesEnough
  <2> QED
    BY <2>6, FS_EmptySet
<1> QED
  BY <1>8, <1>9

\* The memory starts with nothing mapped, and words of the program or blank ones.
LEMMA InitMap == Init => MapInv /\ Contents /\ Found
<1> SUFFICES ASSUME Init PROVE MapInv /\ Contents /\ Found
  OBVIOUS
<1>1. /\ memory \in [Frames -> {BLANK, PROGRAM}]
      /\ memory_ffl = [f \in Frames |-> FREE]
      /\ known = [p \in Procs |-> [v \in Pages |-> BLANK]]
      /\ pc = "idle" /\ memory_ffl_size = NFrames
      /\ \A t \in Tables, j \in 0..(Level2 - 1) : ~ptbl2[t][j].present
      /\ \A p \in Procs, i \in 0..(Level1 - 1) : ~ptbl1[p][i].valid
      /\ \A i \in TlbEntries : ~tlb[i].valid
  BY DEF Init, TlbEntries
<1>2. FreeFramesCounted
  BY <1>1, Finite, FreeIn(memory_ffl) = Frames DEF FreeFramesCounted, FreeIn
<1>3. \A p \in Procs, v \in Pages : ~IsMapped(p, v)
  BY <1>1 DEF IsMapped, Pages
<1>4. ReadBackwards /\ Contents
  BY <1>1, <1>3 DEF ReadBackwards, Contents
<1>5. NothingOnDisk /\ TlbNames /\ Found
  BY <1>1 DEF NothingOnDisk, TlbNames, Found
<1> QED
  BY <1>1, <1>2, <1>4, <1>5 DEF MapInv

\* A step that leaves the mapped pages and the tags as they are.
LEMMA SameBackwards ==
  ASSUME TypeInv, ReadBackwards, memory_ffl' = memory_ffl,
         \A p \in Procs, v \in Pages :
           /\ IsMapped(p, v)' <=> IsMapped(p, v)
           /\ IsMapped(p, v) => Entry(p, v)' = Entry(p, v)
  PROVE  ReadBackwards'
<1>1. ASSUME NEW p \in Procs, NEW v \in Pages, IsMapped(p, v)'
      PROVE  memory_ffl'[Entry(p, v)'.fn] = [proc |-> p, page |-> v]
  BY <1>1 DEF ReadBackwards
<1>2. ASSUME NEW f \in Frames, memory_ffl'[f] # FREE
      PROVE  /\ IsMapped(memory_ffl[f].proc, memory_ffl[f].page)'
             /\ Entry(memory_ffl[f].proc, memory_ffl[f].page)'.fn = f
  <2>1. PICK p \in Procs, v \in Pages : p = memory_ffl[f].proc /\ v = memory_ffl[f].page
    BY <1>2, TagTypes
  <2>2. IsMapped(p, v) /\ Entry(p, v).fn = f
    BY <1>2, <2>1 DEF ReadBackwards
  <2>3. IsMapped(p, v)' /\ Entry(p, v)'.fn = f
    BY <2>2
  <2>4. p = memory_ffl'[f].proc /\ v = memory_ffl'[f].page
    BY <2>1
  <2> QED
    BY <2>3, <2>4
<1> QED
  BY <1>1, <1>2 DEF ReadBackwards

\* Pages stay mapped where they were, so a TLB that is not touched keeps its word.
LEMMA SameNames ==
  ASSUME TlbNames, tlb' = tlb,
         \A p \in Procs, v \in Pages :
           IsMapped(p, v) => IsMapped(p, v)' /\ Entry(p, v)' = Entry(p, v)
  PROVE  TlbNames'
BY DEF TlbNames

\* Filled with the frame of the page looked up, it keeps it too.
LEMMA FilledNames ==
  ASSUME TypeInv, TlbNames, NEW f, FillTlb(f), UNCHANGED <<idx, va>>,
         IsMapped(idx, va)', Entry(idx, va)'.fn = f,
         \A p \in Procs, v \in Pages :
           IsMapped(p, v) => IsMapped(p, v)' /\ Entry(p, v)' = Entry(p, v)
  PROVE  TlbNames'
<1> DEFINE entry == [key |-> PageKey(va), value |-> f, valid |-> TRUE]
<1>1. idx \in Procs /\ va \in Pages /\ TlbIndex(va) \in TlbEntries
  BY LookupTypes, PageInRange
<1>2. CASE ~UseTlb
  BY <1>2, SameNames DEF FillTlb
<1>3. CASE UseTlb
  <2>1. \A i \in TlbEntries : tlb'[i] = IF i = TlbIndex(va) THEN entry ELSE tlb[i]
    BY <1>1, <1>3 DEF FillTlb, TypeInv, TlbOK
  <2>2. ASSUME NEW i \in TlbEntries, tlb'[i].valid
        PROVE  \E p \in Procs, v \in Pages :
                 PageKey(v) = tlb'[i].key /\ IsMapped(p, v)' /\ Entry(p, v)'.fn = tlb'[i].value
    <3>1. CASE i = TlbIndex(va)
      <4>1. tlb'[i].key = PageKey(va) /\ tlb'[i].value = f
        BY <2>1, <3>1
      <4>2. PICK p \in Procs, v \in Pages : p = idx /\ v = va
        BY <1>1
      <4>3. PageKey(v) = tlb'[i].key /\ IsMapped(p, v)' /\ Entry(p, v)'.fn = tlb'[i].value
        BY <4>1, <4>2
      <4> QED
        BY <4>3
    <3>2. CASE i # TlbIndex(va)
      <4>1. tlb'[i] = tlb[i]
        BY <2>1, <3>2
      <4>2. PICK p \in Procs, v \in Pages :
              PageKey(v) = tlb[i].key /\ IsMapped(p, v) /\ Entry(p, v).fn = tlb[i].value
        BY <2>2, <4>1 DEF TlbNames
      <4>3. IsMapped(p, v)' /\ Entry(p, v)' = Entry(p, v)
        BY <4>2
      <4> QED
        BY <4>1, <4>2, <4>3
    <3> QED
      BY <3>1, <3>2
  <2> QED
    BY <2>2 DEF TlbNames
<1> QED
  BY <1>2, <1>3

\* The step that gives a page a frame: which frame, and what it changes.
LEMMA Level2Given ==
  ASSUME TypeInv, MapInv, FramesEnough, Level2Fault
  PROVE  /\ idx \in Procs /\ va \in Pages /\ UNCHANGED <<idx, va>> /\ ~IsMapped(idx, va)
         /\ fn' \in Frames /\ memory_ffl[fn'] = FREE /\ fn' \in FreeIn(memory_ffl)
         /\ \A f \in Frames : memory_ffl'[f] = IF f = fn' THEN Mine ELSE memory_ffl[f]
         /\ FreeIn(memory_ffl') = FreeIn(memory_ffl) \ {fn'}
         /\ IsMapped(idx, va)'
         /\ Entry(idx, va)' = [fn |-> fn', valid |-> TRUE, present |-> FALSE]
         /\ \A p \in Procs, v \in Pages : ~(p = idx /\ v = va) =>
              /\ IsMapped(p, v)' <=> IsMapped(p, v)
              /\ IsMapped(p, v) => Entry(p, v)' = Entry(p, v)
<1>1. /\ fn' = search_frame(memory_ffl) /\ MapTo(fn') /\ Mapped1 /\ UNCHANGED <<ptbl1, idx, va>>
      /\ ~Entry2.valid /\ memory_ffl' = [memory_ffl EXCEPT ![fn'] = Mine]
  BY DEF Level2Fault, AtLevel2, call
<1>2. idx \in Procs /\ va \in Pages /\ Mine \in TagSet /\ ~IsMapped(idx, va)
  BY <1>1, LookupTypes DEF IsMapped, Entry, Entry2
<1>3. fn' \in FreeIn(memory_ffl)
  BY <1>1, <1>2, FreeFrames, FrameSearched, Ranges DEF TypeInv, StoreOK, Frames
<1>4. fn' \in Frames /\ memory_ffl[fn'] = FREE
  BY <1>3 DEF FreeIn, TypeInv, StoreOK
<1>5. /\ \A f \in Frames : memory_ffl'[f] = IF f = fn' THEN Mine ELSE memory_ffl[f]
      /\ FreeIn(memory_ffl') = FreeIn(memory_ffl) \ {fn'}
  <2>1. memory_ffl \in [Frames -> TagSet \cup {FREE}]
    BY DEF TypeInv, StoreOK
  <2>2. FreeIn([memory_ffl EXCEPT ![fn'] = Mine]) = FreeIn(memory_ffl) \ {fn'}
    <3>1. fn' \in Frames /\ Mine \in TagSet
      BY <1>2, <1>4
    <3>2. \A f \in Frames, t \in TagSet :
            FreeIn([memory_ffl EXCEPT ![f] = t]) = FreeIn(memory_ffl) \ {f}
      BY <2>1, FreeSets
    <3> QED
      BY <3>1, <3>2
  <2> QED
    BY <1>1, <1>4, <2>1, <2>2
<1> QED
  BY <1>1, <1>2, <1>3, <1>4, <1>5, MapToEntries

LEMMA Level2Backwards ==
  ASSUME TypeInv, MapInv, FramesEnough, Level2Fault
  PROVE  ReadBackwards'
<1>1. ASSUME NEW p \in Procs, NEW v \in Pages, IsMapped(p, v)'
      PROVE  memory_ffl'[Entry(p, v)'.fn] = [proc |-> p, page |-> v]
  <2>1. CASE p = idx /\ v = va
    BY <2>1, Level2Given DEF Mine
  <2>2. CASE ~(p = idx /\ v = va)
    <3>1. IsMapped(p, v) /\ Entry(p, v)' = Entry(p, v)
      BY <1>1, <2>2, Level2Given
    <3>2. Entry(p, v).fn \in Frames /\ memory_ffl[Entry(p, v).fn] = [proc |-> p, page |-> v]
      BY <3>1, MappedFrame
    <3>3. [proc |-> p, page |-> v] \in TagSet
      BY DEF TagSet
    <3>4. Entry(p, v).fn # fn'
      BY <3>2, <3>3, Level2Given, Ranges
    <3> QED
      BY <3>1, <3>2, <3>4, Level2Given
  <2> QED
    BY <2>1, <2>2
<1>2. ASSUME NEW f \in Frames, memory_ffl'[f] # FREE
      PROVE  /\ IsMapped(memory_ffl[f].proc, memory_ffl[f].page)'
             /\ Entry(memory_ffl[f].proc, memory_ffl[f].page)'.fn = f
  <2>1. CASE f = fn'
    <3>1. memory_ffl'[f].proc = idx /\ memory_ffl'[f].page = va
      BY <2>1, Level2Given DEF Mine
    <3>2. PICK p, v : p = idx /\ v = va
      OBVIOUS
    <3>3. IsMapped(p, v)' /\ Entry(p, v)'.fn = f
      BY <2>1, <3>2, Level2Given
    <3> QED
      BY <3>1, <3>2, <3>3
  <2>2. CASE f # fn'
    <3>1. memory_ffl'[f] = memory_ffl[f] /\ memory_ffl[f] # FREE
      BY <1>2, <2>2, Level2Given
    <3>2. PICK p \in Procs, v \in Pages : p = memory_ffl[f].proc /\ v = memory_ffl[f].page
      BY <3>1, TagTypes
    <3>3. IsMapped(p, v) /\ Entry(p, v).fn = f
      BY <3>1, <3>2 DEF MapInv, ReadBackwards
    <3>4. ~(p = idx /\ v = va)
      BY <3>3, Level2Given
    <3>5. IsMapped(p, v)' /\ Entry(p, v)'.fn = f
      BY <3>3, <3>4, Level2Given
    <3>6. p = memory_ffl'[f].proc /\ v = memory_ffl'[f].page
      BY <3>1, <3>2
    <3> QED
      BY <3>5, <3>6
  <2> QED
    BY <2>1, <2>2
<1> QED
  BY <1>1, <1>2 DEF ReadBackwards

LEMMA Level2Map ==
  ASSUME TypeInv, MapInv, FramesEnough, Level2Fault
  PROVE  MapInv'
<1>1. FreeFramesCounted'
  <2>1. Cardinality(FreeIn(memory_ffl')) = Cardinality(FreeIn(memory_ffl)) - 1
    BY Level2Given, FreeSets DEF TypeInv, StoreOK
  <2>2. memory_ffl_size' = memory_ffl_size - 1
    BY DEF Level2Fault
  <2> QED
    BY <2>1, <2>2 DEF MapInv, FreeFramesCounted, FreeIn
<1>2. NothingOnDisk'
  <2>1. ptbl1[idx][va[1]].tn \in Tables /\ va[2] \in 0..(Level2 - 1)
    BY LookupTypes
  <2> QED
    BY <2>1 DEF Level2Fault, MapTo, MapInv, NothingOnDisk, TypeInv, MapsOK
<1>3. TlbNames'
  <2>1. FillTlb(fn') /\ Entry(idx, va)'.fn = fn' /\ TlbNames
    BY Level2Given DEF Level2Fault, MapInv
  <2>2. \A p \in Procs, v \in Pages :
          IsMapped(p, v) => IsMapped(p, v)' /\ Entry(p, v)' = Entry(p, v)
    BY Level2Given
  <2> QED
    BY <2>1, <2>2, Level2Given, FilledNames
<1>4. pc' = "perform"
  BY DEF Level2Fault
<1> QED
  BY <1>1, <1>2, <1>3, <1>4, Level2Backwards DEF MapInv

LEMMA StepMap ==
  ASSUME TypeInv, MapInv, FramesEnough, [Next]_vars
  PROVE  MapInv'
<1>1. memory_ffl_size \in Int /\ MinFree \in Int /\ memory_ffl_size >= MinFree
  BY FreeFrames, Ranges DEF TypeInv, StoreOK
<1>2. pc # "victim"
  BY DEF MapInv
<1>3. ASSUME UNCHANGED <<ptbl1, ptbl2, memory_ffl, memory_ffl_size>>, TlbNames',
             pc' \notin {"victim", "lost"}
      PROVE  MapInv'
  <2>1. FreeFramesCounted' /\ NothingOnDisk'
    BY <1>3 DEF MapInv, FreeFramesCounted, FreeIn, NothingOnDisk
  <2>2. ReadBackwards'
    BY <1>3, SameEntries, SameBackwards DEF MapInv
  <2> QED
    BY <1>3, <2>1, <2>2 DEF MapInv
<1>4. ASSUME UNCHANGED <<ptbl1, ptbl2, tlb>>
      PROVE  TlbNames'
  BY <1>4, SameEntries, SameNames DEF MapInv
<1>5. ASSUME NEW p \in Procs, Call(p)
      PROVE  MapInv'
  BY <1>3, <1>4, <1>5 DEF Call, store, maps
<1>6. ASSUME NEW v \in Pages, NextAddress(v)
      PROVE  MapInv'
  <2>1. pc' = "lookup"
    BY <1>1, <1>6 DEF NextAddress
  <2> QED
    BY <1>3, <1>4, <1>6, <2>1 DEF NextAddress, store, maps
<1>7. ASSUME NEW f \in Frames, SwapOutScanned(f)
      PROVE  MapInv'
  BY <1>2, <1>7 DEF SwapOutScanned
<1>8. CASE SecondChance \/ SwapOutQueued \/ NoVictim
  BY <1>2, <1>8 DEF SecondChance, SwapOutQueued, NoVictim
<1>9. CASE TlbHit
  BY <1>3, <1>4, <1>9 DEF TlbHit, store, maps
<1>10. CASE Level1Fault
  <2>1. ReadBackwards'
    BY <1>10, Level1Entries, SameBackwards DEF Level1Fault, store, MapInv
  <2>2. TlbNames'
    BY <1>10, Level1Entries, SameNames DEF Level1Fault, MapInv
  <2>3. FreeFramesCounted' /\ NothingOnDisk' /\ pc' = pc
    BY <1>10 DEF Level1Fault, store, MapInv, FreeFramesCounted, FreeIn, NothingOnDisk
  <2> QED
    BY <2>1, <2>2, <2>3 DEF MapInv
<1>11. CASE Level2Fault
  BY <1>11, Level2Map
<1>12. CASE SwapIn
  <2>1. Entry2.present
    BY <1>12 DEF SwapIn
  <2>2. ~Entry2.present
    BY LookupTypes DEF MapInv, NothingOnDisk, Entry2
  <2> QED
    BY <2>1, <2>2
<1>13. CASE Level2Hit
  <2>1. /\ UNCHANGED <<ptbl1, ptbl2, memory_ffl, memory_ffl_size, idx, va>> /\ pc' = "perform"
        /\ FillTlb(fn') /\ fn' = Entry2.fn /\ Entry2.valid /\ Mapped1
    BY <1>13 DEF Level2Hit, AtLevel2, store, call
  <2>2. IsMapped(idx, va) /\ fn' = Entry(idx, va).fn
    BY <2>1 DEF IsMapped, Entry, Entry2, Mapped1
  <2>3. IsMapped(idx, va)' /\ Entry(idx, va)'.fn = fn'
    BY <2>1, <2>2 DEF IsMapped, Entry
  <2>4. \A p \in Procs, v \in Pages :
          IsMapped(p, v) => IsMapped(p, v)' /\ Entry(p, v)' = Entry(p, v)
    BY <2>1, SameEntries
  <2>5. TlbNames'
    BY <2>1, <2>3, <2>4, FilledNames DEF MapInv
  <2> QED
    BY <1>3, <2>1, <2>5
<1>14. CASE Perform
  BY <1>3, <1>4, <1>14 DEF Perform, BatchOver, maps
<1>15. CASE UNCHANGED vars
  BY <1>2, <1>3, <1>4, <1>15 DEF vars, store, maps, MapInv
<1> QED
  BY <1>5, <1>6, <1>7, <1>8, <1>9, <1>10, <1>11, <1>12, <1>13, <1>14, <1>15 DEF Next

LEMMA MapInvariance ==
  ASSUME FramesEnough
  PROVE  Spec => []MapInv
<1>1. TypeInv /\ MapInv /\ [Next]_vars => MapInv'
  BY StepMap
<1> QED
  BY <1>1, InitMap, TypeInvariance, PTL DEF Spec

\* With frames enough for every page, an entry of the TLB gives the frame that the
\* tables of some process give for its page, however many processes share it.
THEOREM TlbNamesFrames ==
  ASSUME FramesEnough
  PROVE  Spec => []TlbAgrees
<1>1. ASSUME TypeInv, MapInv
      PROVE  TlbAgrees
  <2> SUFFICES ASSUME NEW i \in DOMAIN tlb, tlb[i].valid
               PROVE  \E p \in Procs, v \in Pages :
                        PageKey(v) = tlb[i].key /\ Resident(p, v) /\ Entry(p, v).fn = tlb[i].value
    BY DEF TlbAgrees
  <2>1. i \in TlbEntries
    BY <1>1 DEF TypeInv, TlbOK
  <2>2. PICK p \in Procs, v \in Pages :
          PageKey(v) = tlb[i].key /\ IsMapped(p, v) /\ Entry(p, v).fn = tlb[i].value
    BY <1>1, <2>1 DEF MapInv, TlbNames
  <2>3. ~Entry(p, v).present
    BY <1>1, <2>2, MappedFrame
  <2> QED
    BY <2>2, <2>3 DEF Resident
<1> QED
  BY <1>1, MapInvariance, TypeInvariance, PTL

-----------------------------------------------------------------------------
(* What a process sees, when nothing is swapped *)

\* A page is known by its number.
LEMMA SameKey ==
  ASSUME NEW v \in Pages, NEW w \in Pages, PageKey(v) = PageKey(w)
  PROVE  v = w
<1>1. /\ v[1] \in Nat /\ v[2] \in 0..(Level2 - 1) /\ w[1] \in Nat /\ w[2] \in 0..(Level2 - 1)
      /\ Level2 \in Nat /\ v[1] * Level2 + v[2] = w[1] * Level2 + w[2]
  BY Ranges DEF Pages, PageKey
<1>2. \A a, b \in Nat : a < b => a * Level2 + Level2 <= b * Level2
  <2> SUFFICES ASSUME NEW a \in Nat, NEW b \in Nat, a < b
               PROVE  a * Level2 + Level2 <= b * Level2
    OBVIOUS
  <2>1. (a + 1) * Level2 <= b * Level2
    BY <1>1
  <2>2. (a + 1) * Level2 = a * Level2 + Level2
    BY <1>1
  <2> QED
    BY <2>1, <2>2
<1>3. v[1] * Level2 \in Nat /\ w[1] * Level2 \in Nat
  BY <1>1
<1>4. v[1] = w[1]
  <2>1. PICK a \in Nat, b \in Nat : a = v[1] * Level2 /\ b = w[1] * Level2
    BY <1>3
  <2>2. a + v[2] = b + w[2] /\ v[2] \in Nat /\ w[2] \in Nat /\ v[2] < Level2 /\ w[2] < Level2
    BY <1>1, <2>1
  <2>3. ~(a + Level2 <= b) /\ ~(b + Level2 <= a)
    BY <1>1, <2>2
  <2>4. ~(v[1] < w[1]) /\ ~(w[1] < v[1])
    BY <1>1, <1>2, <2>1, <2>3
  <2> QED
    BY <1>1, <2>4
<1>5. v[2] = w[2]
  BY <1>1, <1>3, <1>4
<1> QED
  BY <1>4, <1>5, SamePage

\* A step that leaves pages, words and what is known as they are.
LEMMA SameContents ==
  ASSUME Contents, UNCHANGED <<memory, memory_ffl, known>>,
         \A p \in Procs, v \in Pages :
           /\ IsMapped(p, v)' <=> IsMapped(p, v)
           /\ IsMapped(p, v) => Entry(p, v)' = Entry(p, v)
  PROVE  Contents'
<1>1. ASSUME NEW p \in Procs, NEW v \in Pages
      PROVE  IF IsMapped(p, v)'
             THEN \/ known[p][v] = BLANK /\ memory[Entry(p, v)'.fn] \in {BLANK, PROGRAM}
                  \/ known[p][v] # BLANK /\ memory[Entry(p, v)'.fn] = known[p][v]
             ELSE known[p][v] = BLANK
  BY DEF Contents
<1> QED
  BY <1>1 DEF Contents

\* A TLB entry that holds the page is that of the process, if it cannot be another's.
LEMMA HitFound ==
  ASSUME TypeInv, MapInv, OneView, TlbHit
  PROVE  IsMapped(idx, va) /\ fn' = Entry(idx, va).fn
<1>1. /\ UseTlb /\ tlb[TlbIndex(va)].valid /\ tlb[TlbIndex(va)].key = PageKey(va)
      /\ fn' = tlb[TlbIndex(va)].value
  BY DEF TlbHit, TlbHolds
<1>2. idx \in Procs /\ va \in Pages /\ TlbIndex(va) \in TlbEntries
  BY LookupTypes, PageInRange
<1>3. PICK p \in Procs, v \in Pages :
        /\ PageKey(v) = PageKey(va) /\ IsMapped(p, v)
        /\ Entry(p, v).fn = tlb[TlbIndex(va)].value
  BY <1>1, <1>2 DEF MapInv, TlbNames
<1>4. v = va
  BY <1>2, <1>3, SameKey
<1>5. p = idx
  BY <1>1, <1>2, <1>3 DEF OneView, Procs
<1> QED
  BY <1>1, <1>3, <1>4, <1>5

\* A page accessed for the first time gets a frame that nobody has written.
LEMMA Level2Contents ==
  ASSUME TypeInv, MapInv, Contents, FramesEnough, Level2Fault
  PROVE  Contents'
<1>1. UNCHANGED <<memory, known>>
  BY DEF Level2Fault, history
<1>2. memory[fn'] \in {BLANK, PROGRAM} /\ known[idx][va] = BLANK
  BY Level2Given DEF Contents
<1>3. \A f \in Frames : memory_ffl'[f] = FREE => memory[f] \in {BLANK, PROGRAM}
  <2>1. Mine # FREE
    BY LookupTypes, Ranges
  <2> QED
    BY <2>1, Level2Given DEF Contents
<1>4. ASSUME NEW p \in Procs, NEW v \in Pages
      PROVE  IF IsMapped(p, v)'
             THEN \/ known[p][v] = BLANK /\ memory[Entry(p, v)'.fn] \in {BLANK, PROGRAM}
                  \/ known[p][v] # BLANK /\ memory[Entry(p, v)'.fn] = known[p][v]
             ELSE known[p][v] = BLANK
  <2>1. CASE p = idx /\ v = va
    BY <1>2, <2>1, Level2Given
  <2>2. CASE ~(p = idx /\ v = va)
    BY <2>2, Level2Given DEF Contents
  <2> QED
    BY <2>1, <2>2
<1> QED
  BY <1>1, <1>3, <1>4 DEF Contents

\* The word accessed.
AccessedWord == IF memory[fn] = BLANK THEN Owned(idx, va) ELSE memory[fn]

\* A word is written or read in the frame of the page that is accessed, and the
\* frame of no other page.
LEMMA PerformContents ==
  ASSUME TypeInv, MapInv, Contents, Found, Perform
  PROVE  Contents'
<1>1. /\ UNCHANGED <<ptbl1, ptbl2, memory_ffl>>
      /\ idx \in Procs /\ va \in Pages /\ IsMapped(idx, va) /\ fn = Entry(idx, va).fn
      /\ memory' = [memory EXCEPT ![fn] = AccessedWord]
      /\ known' = [known EXCEPT ![idx][va] = AccessedWord]
  BY DEF TypeInv, TablesInv, Found, Perform, maps, AccessedWord
<1>2. fn \in Frames /\ memory_ffl[fn] = [proc |-> idx, page |-> va] /\ memory_ffl[fn] # FREE
  BY <1>1, MappedFrame, LookupTypes, Ranges DEF Mine
<1>3. AccessedWord # BLANK
  <2>1. <<idx, va>> # BLANK
    BY <1>1, MMUWords
  <2> QED
    BY <2>1 DEF AccessedWord, Owned
<1>4. \A f \in Frames : memory'[f] = IF f = fn THEN AccessedWord ELSE memory[f]
  BY <1>1, <1>2 DEF TypeInv, StoreOK
<1>5. \A p \in Procs, v \in Pages :
        known'[p][v] = IF p = idx /\ v = va THEN AccessedWord ELSE known[p][v]
  BY <1>1 DEF TypeInv, HistoryOK
<1>6. \A f \in Frames : memory_ffl[f] = FREE => memory'[f] \in {BLANK, PROGRAM}
  BY <1>2, <1>4 DEF Contents
<1>7. ASSUME NEW p \in Procs, NEW v \in Pages
      PROVE  IF IsMapped(p, v)
             THEN \/ known'[p][v] = BLANK /\ memory'[Entry(p, v).fn] \in {BLANK, PROGRAM}
                  \/ known'[p][v] # BLANK /\ memory'[Entry(p, v).fn] = known'[p][v]
             ELSE known'[p][v] = BLANK
  <2>1. CASE p = idx /\ v = va
    BY <1>1, <1>2, <1>3, <1>4, <1>5, <2>1
  <2>2. CASE ~(p = idx /\ v = va)
    <3>1. known'[p][v] = known[p][v]
      BY <1>5, <2>2
    <3>2. ASSUME IsMapped(p, v)
          PROVE  memory'[Entry(p, v).fn] = memory[Entry(p, v).fn]
      <4>1. Entry(p, v).fn \in Frames /\ memory_ffl[Entry(p, v).fn] = [proc |-> p, page |-> v]
        BY <3>2, MappedFrame
      <4>2. Entry(p, v).fn # fn
        BY <1>2, <2>2, <4>1
      <4> QED
        BY <1>4, <4>1, <4>2
    <3> QED
      BY <3>1, <3>2 DEF Contents
  <2> QED
    BY <2>1, <2>2
<1>8. ASSUME NEW p \in Procs, NEW v \in Pages
      PROVE  (IsMapped(p, v)' <=> IsMapped(p, v)) /\ Entry(p, v)' = Entry(p, v)
  BY <1>1, SameEntries
<1> QED
  BY <1>1, <1>6, <1>7, <1>8 DEF Contents

LEMMA StepContents ==
  ASSUME TypeInv, MapInv, Contents, Found, FramesEnough, OneView, [Next]_vars
  PROVE  Contents' /\ Found'
<1>1. pc \notin {"victim", "lost"}
  BY DEF MapInv
<1>2. ASSUME UNCHANGED <<ptbl1, ptbl2, memory, memory_ffl, known>>
      PROVE  Contents'
  BY <1>2, SameEntries, SameContents
<1>3. ASSUME pc' # "perform"
      PROVE  Found'
  BY <1>3 DEF Found
<1>4. ASSUME UNCHANGED <<ptbl1, ptbl2, idx, va>>, IsMapped(idx, va), fn' = Entry(idx, va).fn
      PROVE  Found'
  BY <1>4 DEF Found, IsMapped, Entry
<1>5. ASSUME NEW p \in Procs, Call(p)
      PROVE  Contents' /\ Found'
  BY <1>2, <1>3, <1>5 DEF Call, store, maps, history
<1>6. ASSUME NEW v \in Pages, NextAddress(v)
      PROVE  Contents' /\ Found'
  BY <1>2, <1>3, <1>6 DEF NextAddress, store, maps, history
<1>7. ASSUME NEW f \in Frames, SwapOutScanned(f)
      PROVE  Contents' /\ Found'
  BY <1>1, <1>7 DEF SwapOutScanned
<1>8. CASE SecondChance \/ SwapOutQueued \/ NoVictim
  BY <1>1, <1>8 DEF SecondChance, SwapOutQueued, NoVictim
<1>9. CASE TlbHit
  <2>1. Found'
    BY <1>4, <1>9, HitFound DEF TlbHit, maps, call
  <2> QED
    BY <1>2, <1>9, <2>1 DEF TlbHit, store, maps, history
<1>10. CASE Level1Fault
  <2>1. UNCHANGED <<memory, memory_ffl, known, pc>> /\ pc = "lookup"
    BY <1>10 DEF Level1Fault, store, history
  <2>2. Contents'
    BY <1>10, <2>1, Level1Entries, SameContents
  <2> QED
    BY <1>3, <2>1, <2>2
<1>11. CASE Level2Fault
  <2>1. Found'
    BY <1>11, Level2Given DEF Found
  <2> QED
    BY <1>11, <2>1, Level2Contents
<1>12. CASE SwapIn
  <2>1. Entry2.present
    BY <1>12 DEF SwapIn
  <2>2. ~Entry2.present
    BY LookupTypes DEF MapInv, NothingOnDisk, Entry2
  <2> QED
    BY <2>1, <2>2
<1>13. CASE Level2Hit
  <2>1. /\ UNCHANGED <<ptbl1, ptbl2, memory, memory_ffl, known, idx, va>>
        /\ fn' = Entry2.fn /\ Entry2.valid /\ Mapped1
    BY <1>13 DEF Level2Hit, AtLevel2, store, call, history
  <2>2. IsMapped(idx, va) /\ fn' = Entry(idx, va).fn
    BY <2>1 DEF IsMapped, Entry, Entry2, Mapped1
  <2> QED
    BY <1>2, <1>4, <2>1, <2>2
<1>14. CASE Perform
  <2>1. pc' # "perform"
    BY <1>14 DEF Perform
  <2> QED
    BY <1>3, <1>14, <2>1, PerformContents
<1>15. CASE UNCHANGED vars
  <2>1. UNCHANGED <<ptbl1, ptbl2, memory, memory_ffl, known, idx, va, fn, pc>>
    BY <1>15 DEF vars, store, maps, call, history
  <2>2. Found'
    BY <2>1 DEF Found, IsMapped, Entry
  <2> QED
    BY <1>2, <2>1, <2>2
<1> QED
  BY <1>5, <1>6, <1>7, <1>8, <1>9, <1>10, <1>11, <1>12, <1>13, <1>14, <1>15 DEF Next

LEMMA ContentsInvariance ==
  ASSUME FramesEnough, OneView
  PROVE  Spec => [](Contents /\ Found)
<1>1. TypeInv /\ MapInv /\ (Contents /\ Found) /\ [Next]_vars => (Contents /\ Found)'
  BY StepContents
<1> QED
  BY <1>1, InitMap, TypeInvariance, MapInvariance, PTL DEF Spec

\* An access is a write of a word that nobody has written, or a read of what the
\* process knows; every other step leaves what processes know alone.
LEMMA AccessStep ==
  ASSUME TypeInv, Contents, Found, Perform
  PROVE  PrivateMemory!Next
<1> DEFINE p == idx
           v == va
<1>1. p \in Procs /\ v \in Pages /\ IsMapped(p, v) /\ fn = Entry(p, v).fn
  BY DEF TypeInv, TablesInv, Found, Perform
<1>2. \/ known[p][v] = BLANK /\ memory[fn] \in {BLANK, PROGRAM}
      \/ known[p][v] # BLANK /\ memory[fn] = known[p][v]
  BY <1>1 DEF Contents
<1>3. /\ known' = [known EXCEPT ![p][v] = AccessedWord]
      /\ access' = [proc |-> p, page |-> v, wrote |-> memory[fn] = BLANK, word |-> AccessedWord]
  BY DEF Perform, AccessedWord
<1>4. known \in [Procs -> [Pages -> Words]]
  BY DEF TypeInv, HistoryOK
<1>5. known'[p][v] = AccessedWord
  BY <1>1, <1>3, <1>4
<1>6. CASE memory[fn] = BLANK
  <2>1. known[p][v] = BLANK /\ AccessedWord = <<p, v>>
    BY <1>2, <1>6 DEF AccessedWord, Owned
  <2>2. PrivateMemory!Write(p, v)
    BY <1>3, <1>6, <2>1 DEF PrivateMemory!Write, PrivateMemory!Owned, PrivateMemory!Answer
  <2> QED
    BY <1>1, <2>2 DEF PrivateMemory!Next
<1>7. CASE memory[fn] # BLANK
  <2>1. AccessedWord = memory[fn]
    BY <1>7 DEF AccessedWord
  <2>2. \/ known[p][v] # BLANK /\ UNCHANGED known
        \/ known[p][v] = BLANK /\ known' = [known EXCEPT ![p][v] = PROGRAM]
    <3>1. CASE known[p][v] = BLANK
      BY <1>2, <1>3, <1>7, <2>1, <3>1
    <3>2. CASE known[p][v] # BLANK
      <4>1. AccessedWord = known[p][v]
        BY <1>2, <2>1, <3>2
      <4>2. known' = known
        BY <1>1, <1>3, <1>4, <4>1
      <4> QED
        BY <3>2, <4>2
    <3> QED
      BY <3>1, <3>2
  <2>3. access' = [proc |-> p, page |-> v, wrote |-> FALSE, word |-> known'[p][v]]
    BY <1>3, <1>5, <1>7
  <2>4. PrivateMemory!Read(p, v)
    BY <2>2, <2>3 DEF PrivateMemory!Read, PrivateMemory!Answer
  <2> QED
    BY <1>1, <2>4 DEF PrivateMemory!Next
<1> QED
  BY <1>6, <1>7

\* Every step is one of the process memory, or none.
LEMMA StepProcessMemory ==
  ASSUME TypeInv, Contents, Found, [Next]_vars
  PROVE  [PrivateMemory!Next]_(PrivateMemory!vars)
<1>1. ASSUME UNCHANGED <<known, access>>
      PROVE  UNCHANGED PrivateMemory!vars
  BY <1>1 DEF PrivateMemory!vars
<1>2. ASSUME NEW p \in Procs, Call(p)
      PROVE  UNCHANGED <<known, access>>
  BY <1>2 DEF Call, history
<1>3. ASSUME NEW v \in Pages, NextAddress(v)
      PROVE  UNCHANGED <<known, access>>
  BY <1>3 DEF NextAddress, history
<1>4. ASSUME NEW f \in Frames, SwapOutScanned(f)
      PROVE  UNCHANGED <<known, access>>
  BY <1>4 DEF SwapOutScanned, SwapOut
<1>5. CASE SecondChance \/ SwapOutQueued \/ NoVictim
  BY <1>1, <1>5 DEF SecondChance, SwapOutQueued, SwapOut, NoVictim, history
<1>6. CASE TlbHit \/ Level1Fault \/ Level2Fault \/ SwapIn \/ Level2Hit
  BY <1>1, <1>6 DEF TlbHit, Level1Fault, Level2Fault, SwapIn, Level2Hit, history
<1>7. CASE UNCHANGED vars
  BY <1>1, <1>7 DEF vars, history
<1>8. CASE Perform
  BY <1>8, AccessStep
<1> QED
  BY <1>1, <1>2, <1>3, <1>4, <1>5, <1>6, <1>7, <1>8 DEF Next

\* With a frame for every page beside those kept free, and either no TLB or one
\* process, MMU gives every process a memory of its own (the loop of MMU in memory.c).
THEOREM OwnMemory ==
  ASSUME FramesEnough, OneView
  PROVE  Spec => ImplementsProcessMemory
<1>1. Init => PrivateMemory!Init
  BY DEF Init, PrivateMemory!Init, PrivateMemory!NoAccess
<1>2. TypeInv /\ (Contents /\ Found) /\ [Next]_vars
        => [PrivateMemory!Next]_(PrivateMemory!vars)
  BY StepProcessMemory
<1> QED
  BY <1>1, <1>2, TypeInvariance, ContentsInvariance, PTL
     DEF Spec, ImplementsProcessMemory, PrivateMemory!Spec

\* With a frame for every page the tags of the free-frame list name the page that is
\* in each frame, TLB or not (memory_ffl of memory.c).
THEOREM TagsNamePages ==
  ASSUME FramesEnough
  PROVE  Spec => []TagsInvertTables
<1>1. ASSUME TypeInv, MapInv
      PROVE  TagsInvertTables
  <2>1. \A p \in Procs, v \in Pages :
          Resident(p, v) => memory_ffl[Entry(p, v).fn] = [proc |-> p, page |-> v]
    BY <1>1 DEF Resident, MapInv, ReadBackwards
  <2>2. ASSUME NEW f \in InUse
        PROVE  /\ Resident(memory_ffl[f].proc, memory_ffl[f].page)
               /\ Entry(memory_ffl[f].proc, memory_ffl[f].page).fn = f
    <3>1. f \in Frames /\ memory_ffl[f] # FREE
      BY <1>1 DEF InUse, FreeIn, TypeInv, StoreOK
    <3>2. memory_ffl[f].proc \in Procs /\ memory_ffl[f].page \in Pages
      BY <1>1, <3>1, TagTypes
    <3>3. /\ IsMapped(memory_ffl[f].proc, memory_ffl[f].page)
          /\ Entry(memory_ffl[f].proc, memory_ffl[f].page).fn = f
      BY <1>1, <3>1 DEF MapInv, ReadBackwards
    <3>4. ~Entry(memory_ffl[f].proc, memory_ffl[f].page).present
      BY <1>1, <3>2, <3>3, MappedFrame
    <3> QED
      BY <3>3, <3>4 DEF Resident
  <2> QED
    BY <2>1, <2>2 DEF TagsInvertTables
<1> QED
  BY <1>1, TypeInvariance, MapInvariance, PTL

-----------------------------------------------------------------------------
(* Free frames, counted *)

\* The frames that are used: when only the others are free, a page is swapped out
\* before another frame is taken, and its frame is lower than theirs.
Low == 0..(NFrames - MinFree)

LowNodes == [fn : Low, chances : 0..3]

EntriesLow ==
  \A t \in Tables, j \in 0..(Level2 - 1) :
    ptbl2[t][j].valid /\ ~ptbl2[t][j].present => ptbl2[t][j].fn \in Low

TlbLow == \A i \in TlbEntries : tlb[i].valid => tlb[i].value \in Low

\* Frame swap_pn, to which a page is swapped in, is the first free one, unless it is
\* not free.
CountInv ==
  /\ FreeFramesCounted
  /\ Frames \ Low \subseteq FreeIn(memory_ffl)
  /\ swap_pn \in FreeIn(memory_ffl) => \A f \in FreeIn(memory_ffl) : swap_pn <= f
  /\ EntriesLow
  /\ TlbLow
  /\ fifo \in QueueOf(LowNodes)
  /\ pc = "perform" => fn \in Low
  /\ VictimInUse

\* The frames that are not used are MinFree - 1.
LEMMA LowFrames ==
  ASSUME MinFree # 0
  PROVE  /\ Low \subseteq Frames /\ 0 \in Low
         /\ \A f \in Frames, g \in Low : f \in Low \/ g < f
         /\ \A f \in Frames, g \in Low : f <= g => f \in Low
         /\ IsFiniteSet(Frames \ Low) /\ Cardinality(Frames \ Low) = MinFree - 1
<1>1. NFrames \in Nat \ {0} /\ MinFree \in 1..NFrames
  BY Ranges
<1>2. /\ Low \subseteq Frames /\ 0 \in Low
      /\ \A f \in Frames, g \in Low : f \in Low \/ g < f
      /\ \A f \in Frames, g \in Low : f <= g => f \in Low
  BY <1>1 DEF Low, Frames
<1>3. Frames \ Low = (NFrames - MinFree + 1)..(NFrames - 1)
  BY <1>1 DEF Low, Frames
<1> DEFINE a == NFrames - MinFree + 1
           b == NFrames - 1
<1>4. a \in Int /\ b \in Int /\ b - a + 1 = MinFree - 1 /\ (a > b => MinFree - 1 = 0)
  BY <1>1
<1> HIDE DEF a, b
<1>5. IsFiniteSet(a..b) /\ Cardinality(a..b) = MinFree - 1
  BY <1>4, FS_Interval
<1> QED
  BY <1>2, <1>3, <1>5 DEF a, b

\* When a victim is sought, only those are free.
LEMMA OnlyHighFree ==
  ASSUME MinFree # 0, TypeInv, FrameInv, CountInv, pc = "victim"
  PROVE  FreeIn(memory_ffl) = Frames \ Low
<1>1. memory_ffl_size < MinFree /\ memory_ffl_size = Cardinality(FreeIn(memory_ffl))
      /\ Frames \ Low \subseteq FreeIn(memory_ffl)
  BY DEF FrameInv, CountInv, FreeFramesCounted
<1>2. IsFiniteSet(FreeIn(memory_ffl)) /\ Cardinality(FreeIn(memory_ffl)) \in Nat
  BY Ranges, FreeSets DEF TypeInv, StoreOK
<1>3. Cardinality(Frames \ Low) <= Cardinality(FreeIn(memory_ffl))
  BY <1>1, <1>2, FS_Subset
<1>4. Cardinality(Frames \ Low) = Cardinality(FreeIn(memory_ffl))
  BY <1>1, <1>2, <1>3, LowFrames, Ranges
<1> QED
  BY <1>1, <1>2, <1>4, FS_Subset

\* When a frame is searched, one of the others is free, and the first one is found.
LEMMA LowFound ==
  ASSUME MinFree # 0, TypeInv, FrameInv, CountInv, pc = "lookup"
  PROVE  /\ search_frame(memory_ffl) \in FreeIn(memory_ffl)
         /\ search_frame(memory_ffl) \in Low
         /\ \A f \in FreeIn(memory_ffl) : search_frame(memory_ffl) <= f
<1>1. /\ memory_ffl_size >= MinFree /\ FreeIn(memory_ffl) # {}
      /\ memory_ffl_size = Cardinality(FreeIn(memory_ffl))
      /\ Frames \ Low \subseteq FreeIn(memory_ffl) /\ FreeIn(memory_ffl) \subseteq Frames
  BY DEF FrameInv, CountInv, FreeFramesCounted, FreeIn, TypeInv, StoreOK
<1>2. /\ search_frame(memory_ffl) \in FreeIn(memory_ffl)
      /\ \A f \in FreeIn(memory_ffl) : search_frame(memory_ffl) <= f
  BY <1>1, FrameSearched, Ranges DEF TypeInv, StoreOK, Frames
<1>3. FreeIn(memory_ffl) # Frames \ Low
  <2>1. Cardinality(Frames \ Low) = MinFree - 1 /\ MinFree \in Int /\ memory_ffl_size \in Int
    BY LowFrames, Ranges DEF TypeInv, StoreOK
  <2> QED
    BY <1>1, <2>1
<1>4. PICK f \in FreeIn(memory_ffl) : f \in Low
  BY <1>1, <1>3
<1>5. search_frame(memory_ffl) <= f
  BY <1>2
<1> QED
  BY <1>1, <1>2, <1>4, <1>5, LowFrames

LEMMA InitCount ==
  ASSUME MinFree # 0, Init
  PROVE  CountInv
<1>1. FreeIn(memory_ffl) = Frames /\ swap_pn = 0 /\ memory_ffl_size = NFrames
  BY DEF Init, FreeIn
<1>2. FreeFramesCounted
  BY <1>1, Finite DEF FreeFramesCounted
<1>3. \A f \in Frames : 0 <= f
  BY DEF Frames
<1>4. EntriesLow /\ TlbLow
  BY DEF Init, EntriesLow, TlbLow, TlbEntries
<1>5. fifo \in QueueOf(LowNodes) /\ pc = "idle"
  BY DEF Init, QueueOf, createQueue
<1>6. VictimInUse
  BY Ranges DEF Init, VictimInUse
<1> QED
  BY <1>1, <1>2, <1>3, <1>4, <1>5, <1>6 DEF CountInv

\* A page mapped to a frame that is used, and the TLB filled with one.
LEMMA MapLow ==
  ASSUME TypeInv, EntriesLow, NEW f \in Low, MapTo(f)
  PROVE  EntriesLow'
<1>1. ptbl1[idx][va[1]].tn \in Tables /\ va[2] \in 0..(Level2 - 1)
  BY LookupTypes
<1>2. \A t \in Tables, j \in 0..(Level2 - 1) :
        ptbl2'[t][j].fn = f \/ ptbl2'[t][j] = ptbl2[t][j]
  BY <1>1 DEF MapTo, TypeInv, MapsOK
<1> QED
  BY <1>2 DEF EntriesLow

LEMMA FillLow ==
  ASSUME TypeInv, TlbLow, NEW f \in Low, FillTlb(f)
  PROVE  TlbLow'
<1>1. TlbIndex(va) \in TlbEntries
  BY LookupTypes, PageInRange
<1>2. \A i \in TlbEntries : tlb'[i].value = f \/ tlb'[i] = tlb[i]
  BY <1>1 DEF FillTlb, TypeInv, TlbOK
<1> QED
  BY <1>2 DEF TlbLow

\* A page leaves a frame that is used: it becomes the first free one.
LEMMA SwapOutCount ==
  ASSUME MinFree # 0, TypeInv, FrameInv, CountInv, pc = "victim",
         NEW f \in Low, SwapOut(f), fifo' \in QueueOf(LowNodes)
  PROVE  CountInv'
<1>1. /\ memory_ffl' = [memory_ffl EXCEPT ![f] = FREE]
      /\ memory_ffl_size' = memory_ffl_size + 1 /\ pc' = "lookup"
      /\ swap_pn' = f /\ evicted' = memory_ffl[f] /\ tlb' = tlb
      /\ MarkSwapped(Tags(memory_ffl[f]), search_frame(disk_ffl))
  BY DEF SwapOut
<1>2. /\ memory_ffl \in [Frames -> TagSet \cup {FREE}] /\ f \in Frames
      /\ memory_ffl_size = Cardinality(FreeIn(memory_ffl))
  BY LowFrames DEF TypeInv, StoreOK, CountInv, FreeFramesCounted
<1>3. FreeIn(memory_ffl) = Frames \ Low
  BY OnlyHighFree
<1>4. f \notin FreeIn(memory_ffl) /\ memory_ffl[f] # FREE
  BY <1>2, <1>3 DEF FreeIn
<1>5. /\ FreeIn(memory_ffl') = FreeIn(memory_ffl) \cup {f}
      /\ FreeIn(memory_ffl') = (Frames \ Low) \cup {f}
  BY <1>1, <1>2, <1>3, FreeSets
<1>6. Cardinality(FreeIn(memory_ffl')) = Cardinality(FreeIn(memory_ffl)) + 1
  <2>1. Cardinality(FreeIn(memory_ffl) \cup {f}) = Cardinality(FreeIn(memory_ffl)) + 1
    BY <1>2, <1>4, FreeSets
  <2> QED
    BY <1>5, <2>1
<1>7. \A g \in FreeIn(memory_ffl') : f <= g
  <2>1. f \in Int /\ \A g \in Frames : g \in Int
    BY <1>2 DEF Frames
  <2>2. \A g \in Frames \ Low : f < g
    BY LowFrames
  <2> QED
    BY <1>5, <2>1, <2>2
<1>8. EntriesLow'
  <2>1. Tags(memory_ffl[f]) \in TagSet /\ search_frame(disk_ffl) \in DiskFrames
    BY <1>2, LookupTypes, Ranges DEF Tags
  <2>2. \A t \in Tables, j \in 0..(Level2 - 1) :
          ptbl2'[t][j].present \/ ptbl2'[t][j] = ptbl2[t][j]
    BY <1>1, <2>1, MarkedEntries
  <2> QED
    BY <2>2 DEF CountInv, EntriesLow
<1>9. TlbLow' /\ VictimInUse'
  BY <1>1, <1>4 DEF CountInv, TlbLow, VictimInUse
<1>10. FreeIn(memory_ffl)' = FreeIn(memory_ffl')
  BY DEF FreeIn
<1> QED
  BY <1>1, <1>2, <1>5, <1>6, <1>7, <1>8, <1>9, <1>10 DEF CountInv, FreeFramesCounted

\* The frame from which the scan starts, and the frames that can replace it, are used.
LEMMA ScannedLow ==
  ASSUME MinFree # 0, TypeInv, FrameInv, CountInv, pc = "victim"
  PROVE  Scanned \in Low /\ Scanned \in InUse
<1>1. FreeIn(memory_ffl) = Frames \ Low /\ Low \subseteq Frames /\ 0 \in Low
  BY OnlyHighFree, LowFrames
<1>2. InUse = Low
  BY <1>1 DEF InUse
<1> DEFINE better == {f \in InUse : Better(f, 0)}
           best == {f \in better : \A g \in better : ~Better(g, f)}
<1>3. CASE best = {}
  BY <1>1, <1>2, <1>3 DEF Scanned
<1>4. CASE best # {}
  <2>1. best \subseteq Low /\ Low \subseteq Nat
    BY <1>1, <1>2 DEF Frames
  <2>2. Least(best) \in best
    BY <1>4, <2>1, LeastExists
  <2>3. Scanned = Least(best)
    BY <1>4 DEF Scanned
  <2> QED
    BY <1>2, <2>1, <2>2, <2>3
<1> QED
  BY <1>3, <1>4

LEMMA ScannedCount ==
  ASSUME MinFree # 0, set_replacement # RANDOM, TypeInv, FrameInv, CountInv,
         NEW f \in Frames, SwapOutScanned(f)
  PROVE  CountInv'
<1>1. /\ SwapOut(f) /\ pc = "victim" /\ fifo' = fifo /\ f = Scanned
  BY DEF SwapOutScanned, Victims
<1>2. f \in Low
  BY <1>1, ScannedLow
<1>3. fifo' \in QueueOf(LowNodes)
  BY <1>1 DEF CountInv
<1> QED
  BY <1>1, <1>2, <1>3, SwapOutCount

LEMMA QueuedCount ==
  ASSUME MinFree # 0, TypeInv, FrameInv, CountInv, SwapOutQueued
  PROVE  CountInv'
<1>1. PICK node : node = Dequeued(fifo)
  OBVIOUS
<1>2. /\ pc = "victim" /\ ~DequeueFaults(fifo) /\ node # NONE /\ SwapOut(node.fn)
      /\ fifo' = dequeue(fifo)
  BY <1>1 DEF SwapOutQueued
<1>3. fifo \in QueueOf(LowNodes)
  BY DEF CountInv
<1>4. ~isEmpty(fifo)
  BY <1>1, <1>2 DEF Dequeued
<1>5. node \in LowNodes
  BY <1>1, <1>2, <1>3, <1>4, DequeuedNode
<1>6. node.fn \in Low
  BY <1>5 DEF LowNodes
<1>7. fifo' \in QueueOf(LowNodes)
  BY <1>2, <1>3, QueueKept
<1> QED
  BY <1>2, <1>6, <1>7, SwapOutCount

\* Steps that leave frames and tables alone.
LEMMA SameCount ==
  ASSUME TypeInv, CountInv, fifo' \in QueueOf(LowNodes), pc' = "perform" => fn' \in Low, TlbLow',
         UNCHANGED <<memory_ffl, memory_ffl_size, ptbl2, evicted>>,
         swap_pn' = swap_pn \/ swap_pn' = 0
  PROVE  CountInv'
<1>1. FreeFramesCounted' /\ FreeIn(memory_ffl)' = FreeIn(memory_ffl)
      /\ EntriesLow' /\ VictimInUse'
  BY DEF CountInv, FreeFramesCounted, FreeIn, EntriesLow, VictimInUse
<1>2. \A f \in FreeIn(memory_ffl) : 0 <= f
  BY DEF TypeInv, StoreOK, FreeIn, Frames
<1> QED
  BY <1>1, <1>2 DEF CountInv

\* The first free frame is taken: it is the one of swap_pn, if that one is free.
LEMMA TakenCount ==
  ASSUME MinFree # 0, TypeInv, FrameInv, CountInv, pc = "lookup",
         fn' = search_frame(memory_ffl),
         FreeIn(memory_ffl') = FreeIn(memory_ffl) \ {fn'},
         memory_ffl_size' = memory_ffl_size - 1, MapTo(fn'), FillTlb(fn'),
         UNCHANGED <<fifo, swap_pn, evicted>>
  PROVE  CountInv'
<1>1. fn' \in FreeIn(memory_ffl) /\ fn' \in Low /\ \A f \in FreeIn(memory_ffl) : fn' <= f
  BY LowFound
<1>2. /\ memory_ffl \in [Frames -> TagSet \cup {FREE}] /\ fn' \in Frames /\ Frames \subseteq Nat
      /\ FreeIn(memory_ffl) \subseteq Frames
  BY <1>1, LowFrames DEF TypeInv, StoreOK, FreeIn, Frames
<1>3. Cardinality(FreeIn(memory_ffl')) = Cardinality(FreeIn(memory_ffl)) - 1
  BY <1>1, <1>2, FreeSets
<1>4. Frames \ Low \subseteq FreeIn(memory_ffl')
  BY <1>1 DEF CountInv
<1>5. ASSUME swap_pn \in FreeIn(memory_ffl') PROVE FALSE
  <2>1. swap_pn \in FreeIn(memory_ffl) /\ swap_pn # fn'
    BY <1>5
  <2>2. swap_pn <= fn' /\ fn' <= swap_pn
    BY <1>1, <2>1 DEF CountInv
  <2>3. swap_pn \in Nat /\ fn' \in Nat
    BY <1>1, <1>2, <2>1
  <2> QED
    BY <2>1, <2>2, <2>3
<1>6. EntriesLow' /\ TlbLow'
  <2>1. EntriesLow /\ TlbLow
    BY DEF CountInv
  <2> QED
    BY <1>1, <2>1, MapLow, FillLow
<1>7. FreeIn(memory_ffl)' = FreeIn(memory_ffl') /\ VictimInUse'
  BY DEF FreeIn, CountInv, VictimInUse
<1> QED
  BY <1>1, <1>3, <1>4, <1>5, <1>6, <1>7 DEF CountInv, FreeFramesCounted

LEMMA Level2Count ==
  ASSUME MinFree # 0, TypeInv, FrameInv, CountInv, Level2Fault
  PROVE  CountInv'
<1>1. /\ pc = "lookup" /\ fn' = search_frame(memory_ffl)
      /\ MapTo(fn') /\ FillTlb(fn')
      /\ UNCHANGED <<fifo, swap_pn, evicted>>
  BY DEF Level2Fault, AtLevel2, policy, history
<1>2. FreeIn(memory_ffl') = FreeIn(memory_ffl) \ {fn'} /\ memory_ffl_size' = memory_ffl_size - 1
  BY FrameTaken
<1> QED
  BY <1>1, <1>2, TakenCount

\* Frame swap_pn is the frame that is taken, or it was in use.
LEMMA SwapInCount ==
  ASSUME MinFree # 0, TypeInv, FrameInv, CountInv, SwapIn
  PROVE  CountInv'
<1>1. /\ pc = "lookup" /\ fn' = search_frame(memory_ffl)
      /\ memory_ffl' = [memory_ffl EXCEPT ![swap_pn] = Bare, ![fn'] = Mine]
      /\ memory_ffl_size' = memory_ffl_size - 1
      /\ MapTo(fn') /\ FillTlb(fn')
      /\ UNCHANGED <<fifo, swap_pn, evicted>>
  BY DEF SwapIn, AtLevel2, policy
<1>2. fn' \in FreeIn(memory_ffl) /\ \A f \in FreeIn(memory_ffl) : fn' <= f
  BY <1>1, LowFound
<1>3. /\ memory_ffl \in [Frames -> TagSet \cup {FREE}] /\ fn' \in Frames /\ swap_pn \in Frames
      /\ Mine \in TagSet /\ Bare \in TagSet /\ FREE \notin TagSet
  BY <1>1, LookupTypes, Ranges DEF TypeInv, StoreOK, CallOK
<1>4. FreeIn(memory_ffl') = FreeIn(memory_ffl) \ {swap_pn, fn'}
  BY <1>1, <1>3 DEF FreeIn
<1>5. swap_pn \in FreeIn(memory_ffl) => swap_pn = fn'
  <2>1. swap_pn \in Int /\ fn' \in Int
    BY <1>3 DEF Frames
  <2> QED
    BY <1>2, <2>1 DEF CountInv
<1>6. FreeIn(memory_ffl') = FreeIn(memory_ffl) \ {fn'}
  BY <1>4, <1>5
<1> QED
  BY <1>1, <1>6, TakenCount

LEMMA StepCount ==
  ASSUME MinFree # 0, set_replacement # RANDOM, TypeInv, FrameInv, CountInv, [Next]_vars
  PROVE  CountInv'
<1>0. fifo \in QueueOf(LowNodes) /\ TlbLow /\ EntriesLow /\ (pc = "perform" => fn \in Low)
  BY DEF CountInv
<1>1. ASSUME NEW p \in Procs, Call(p)
      PROVE  CountInv'
  <2>1. /\ pc' = "access" /\ swap_pn' = 0
        /\ UNCHANGED <<memory_ffl, memory_ffl_size, ptbl2, tlb, fifo, evicted>>
    BY <1>1 DEF Call, store, maps, policy, history
  <2>2. TlbLow'
    BY <1>0, <2>1 DEF TlbLow
  <2> QED
    BY <1>0, <2>1, <2>2, SameCount
<1>2. ASSUME pc' # "perform" \/ fn' \in Low,
             UNCHANGED <<memory_ffl, memory_ffl_size, ptbl2, tlb, fifo, evicted, swap_pn>>
      PROVE  CountInv'
  <2>1. TlbLow'
    BY <1>0, <1>2 DEF TlbLow
  <2> QED
    BY <1>0, <1>2, <2>1, SameCount
<1>3. ASSUME NEW v \in Pages, NextAddress(v)
      PROVE  CountInv'
  BY <1>2, <1>3 DEF NextAddress, store, maps, policy, history
<1>4. ASSUME NEW f \in Frames, SwapOutScanned(f)
      PROVE  CountInv'
  BY <1>4, ScannedCount
<1>5. CASE SwapOutQueued
  BY <1>5, QueuedCount
<1>6. CASE SecondChance
  <2>1. PICK node : node = Dequeued(fifo)
    OBVIOUS
  <2>2. /\ ~DequeueFaults(fifo) /\ node # NONE /\ node.chances > 0 /\ pc = "victim"
        /\ fifo' = enqueue(dequeue(fifo), [node EXCEPT !.chances = @ - 1])
        /\ UNCHANGED <<memory_ffl, memory_ffl_size, ptbl2, tlb, pc, evicted, swap_pn>>
    BY <1>6, <2>1 DEF SecondChance, store, maps, history
  <2>3. ~isEmpty(fifo)
    BY <2>1, <2>2 DEF Dequeued
  <2>4. node \in LowNodes
    BY <1>0, <2>1, <2>2, <2>3, DequeuedNode
  <2>5. [node EXCEPT !.chances = @ - 1] \in LowNodes
    BY <2>2, <2>4 DEF LowNodes
  <2>6. fifo' \in QueueOf(LowNodes)
    BY <1>0, <2>2, <2>5, QueueKept
  <2>7. TlbLow'
    BY <1>0, <2>2 DEF TlbLow
  <2> QED
    BY <2>2, <2>6, <2>7, SameCount
<1>7. CASE NoVictim
  BY <1>2, <1>7 DEF NoVictim, store, maps, policy, history
<1>8. CASE TlbHit
  <2>1. /\ tlb[TlbIndex(va)].valid /\ fn' = tlb[TlbIndex(va)].value
        /\ UNCHANGED <<memory_ffl, memory_ffl_size, ptbl2, tlb, fifo, evicted, swap_pn>>
    BY <1>8 DEF TlbHit, TlbHolds, store, maps, policy, history
  <2>2. TlbIndex(va) \in TlbEntries
    BY LookupTypes, PageInRange
  <2>3. fn' \in Low
    BY <1>0, <2>1, <2>2 DEF TlbLow
  <2> QED
    BY <1>2, <2>1, <2>3
<1>9. CASE Level1Fault
  BY <1>2, <1>9 DEF Level1Fault, store, policy, history
<1>10. CASE Level2Fault
  BY <1>10, Level2Count
<1>11. CASE SwapIn
  BY <1>11, SwapInCount
<1>12. CASE Level2Hit
  <2>1. /\ Entry2.valid /\ ~Entry2.present /\ fn' = Entry2.fn /\ FillTlb(fn')
        /\ UNCHANGED <<memory_ffl, memory_ffl_size, ptbl2, fifo, evicted, swap_pn>>
    BY <1>12 DEF Level2Hit, AtLevel2, store, policy, history
  <2>2. fn' \in Low
    BY <1>0, <2>1, LookupTypes DEF EntriesLow, Entry2
  <2>3. TlbLow'
    BY <1>0, <2>1, <2>2, FillLow
  <2> QED
    BY <1>0, <2>1, <2>2, <2>3, SameCount
<1>13. CASE Perform
  <2>1. /\ pc = "perform" /\ Touch /\ pc' # "perform"
        /\ UNCHANGED <<memory_ffl, memory_ffl_size, ptbl2, tlb, evicted, swap_pn>>
    BY <1>13 DEF Perform, maps
  <2>2. [fn |-> fn, chances |-> Chances] \in LowNodes
    BY <1>0, <2>1 DEF LowNodes, Chances
  <2>3. searchQueue(fifo, [fn : {fn}, chances : 0..3]) \in QueueOf(LowNodes)
    BY <1>0, QueueKept
  <2>4. fifo' \in QueueOf(LowNodes)
    BY <1>0, <2>1, <2>2, <2>3, QueueKept DEF Touch
  <2>5. TlbLow'
    BY <1>0, <2>1 DEF TlbLow
  <2> QED
    BY <2>1, <2>4, <2>5, SameCount
<1>14. CASE UNCHANGED vars
  BY <1>0, <1>2, <1>14, SameCount DEF vars, store, maps, policy, history, TlbLow
<1> QED
  BY <1>1, <1>3, <1>4, <1>5, <1>6, <1>7, <1>8, <1>9, <1>10, <1>11, <1>12, <1>13, <1>14
     DEF Next

LEMMA CountInvariance ==
  ASSUME MinFree # 0, set_replacement # RANDOM
  PROVE  Spec => []CountInv
<1>1. Init => CountInv
  BY InitCount
<1>2. TypeInv /\ FrameInv /\ CountInv /\ [Next]_vars => CountInv'
  BY StepCount
<1> QED
  BY <1>1, <1>2, TypeInvariance, FrameInvariance, PTL DEF Spec

\* Under every policy but RANDOM, whatever the sizes, with swapping and with the TLB,
\* also after a page has been misplaced: memory_ffl_size is the number of free
\* frames, and no free frame is swapped out (search_lru, search_lfu, search_mfu and
\* the queue of frames, memory.c).
THEOREM FramesStayCounted ==
  ASSUME MinFree # 0, set_replacement # RANDOM
  PROVE  Spec => [](VictimInUse /\ FreeFramesCounted)
<1>1. CountInv => VictimInUse /\ FreeFramesCounted
  BY DEF CountInv
<1> QED
  BY <1>1, CountInvariance, PTL

-----------------------------------------------------------------------------
(* No word is lost *)

OnDisk(p, v) == IsMapped(p, v) /\ Entry(p, v).present

\* The frames in use, and they alone, have the tags of the page that they hold.
Placed ==
  \A p \in Procs, v \in Pages, f \in Frames :
    Resident(p, v) /\ Entry(p, v).fn = f <=> memory_ffl[f] = [proc |-> p, page |-> v]

\* The disk frames taken hold one page each.
OnDiskApart ==
  /\ \A p, q \in Procs : \A v, w \in Pages :
       OnDisk(p, v) /\ OnDisk(q, w) /\ Entry(p, v).fn = Entry(q, w).fn => p = q /\ v = w
  /\ \A d \in DiskFrames :
       disk_ffl[d] # FREE <=> \E p \in Procs, v \in Pages : OnDisk(p, v) /\ Entry(p, v).fn = d

\* What a process knows of a page is in its frame, in memory or on the disk.
WordsInv ==
  ~UseTlb =>
    \A p \in Procs, v \in Pages :
      known[p][v] # BLANK =>
        /\ IsMapped(p, v)
        /\ Resident(p, v) => known[p][v] = memory[Entry(p, v).fn]
        /\ OnDisk(p, v) => known[p][v] = disk[Entry(p, v).fn]

\* The frame about to be accessed is the one mapped, if it was not the TLB that said so.
FoundResident ==
  ~UseTlb /\ pc = "perform" => Resident(idx, va) /\ fn = Entry(idx, va).fn

\* All this, until a page is swapped in to a frame that is not its own.
KeptInv == ~misplaced => Placed /\ OnDiskApart /\ WordsInv /\ FoundResident

\* The disk has a frame for the victim.
DiskFree == pc = "victim" /\ ~misplaced => FreeIn(disk_ffl) # {}

\* A page that is mapped is in one place, of one entry.
LEMMA PageTypes ==
  ASSUME TypeInv, NEW p \in Procs, NEW v \in Pages
  PROVE  /\ [proc |-> p, page |-> v] \in TagSet
         /\ Resident(p, v) => IsMapped(p, v) /\ ~OnDisk(p, v) /\ Entry(p, v).fn \in Frames
         /\ OnDisk(p, v) => IsMapped(p, v) /\ ~Resident(p, v) /\ Entry(p, v).fn \in DiskFrames
         /\ IsMapped(p, v) => Resident(p, v) \/ OnDisk(p, v)
<1>1. [proc |-> p, page |-> v] \in TagSet
  BY DEF TagSet
<1>2. /\ Entry(p, v).present => Entry(p, v).fn \in DiskFrames
      /\ Entry(p, v).valid /\ ~Entry(p, v).present => Entry(p, v).fn \in Frames
  BY EntryTypes
<1> QED
  BY <1>1, <1>2 DEF Resident, OnDisk, IsMapped

LEMMA InitKept == Init => KeptInv
<1> SUFFICES ASSUME Init PROVE KeptInv
  OBVIOUS
<1>1. /\ memory_ffl = [f \in Frames |-> FREE] /\ disk_ffl = [d \in DiskFrames |-> FREE]
      /\ known = [p \in Procs |-> [v \in Pages |-> BLANK]] /\ pc = "idle"
      /\ \A p \in Procs, i \in 0..(Level1 - 1) : ~ptbl1[p][i].valid
  BY DEF Init
<1>2. \A p \in Procs, v \in Pages : ~IsMapped(p, v)
  BY <1>1 DEF IsMapped, Pages
<1>3. \A p \in Procs, v \in Pages : [proc |-> p, page |-> v] # FREE
  BY Ranges DEF TagSet
<1>4. Placed /\ OnDiskApart
  BY <1>1, <1>2, <1>3 DEF Placed, OnDiskApart, Resident, OnDisk
<1>5. WordsInv /\ FoundResident
  BY <1>1 DEF WordsInv, FoundResident
<1> QED
  BY <1>4, <1>5 DEF KeptInv

\* Steps that map no page, nor move one.
LEMMA SameKept ==
  ASSUME TypeInv, KeptInv,
         UNCHANGED <<memory, disk, memory_ffl, disk_ffl, known, misplaced>>,
         \A p \in Procs, v \in Pages :
           /\ IsMapped(p, v)' <=> IsMapped(p, v)
           /\ IsMapped(p, v) => Entry(p, v)' = Entry(p, v),
         ~misplaced => FoundResident'
  PROVE  KeptInv'
<1> SUFFICES ASSUME ~misplaced PROVE KeptInv'
  BY DEF KeptInv
<1>1. Placed /\ OnDiskApart /\ WordsInv
  BY DEF KeptInv
<1>2. \A p \in Procs, v \in Pages :
        /\ Resident(p, v)' <=> Resident(p, v)
        /\ OnDisk(p, v)' <=> OnDisk(p, v)
  BY DEF Resident, OnDisk
<1>3. Placed'
  <2>1. \A p \in Procs, v \in Pages : Resident(p, v) => Entry(p, v)' = Entry(p, v)
    BY DEF Resident
  <2>2. ASSUME NEW p \in Procs, NEW v \in Pages, NEW f \in Frames
        PROVE  (Resident(p, v) /\ Entry(p, v).fn = f)'
                 <=> memory_ffl'[f] = [proc |-> p, page |-> v]
    <3>1. (Resident(p, v) /\ Entry(p, v).fn = f)' <=> Resident(p, v) /\ Entry(p, v).fn = f
      BY <1>2, <2>1
    <3> QED
      BY <1>1, <3>1 DEF Placed
  <2> QED
    BY <2>2 DEF Placed
<1>4. OnDiskApart'
  <2>1. \A p \in Procs, v \in Pages : OnDisk(p, v) => Entry(p, v)' = Entry(p, v)
    BY DEF OnDisk
  <2>2. \A p, q \in Procs : \A v, w \in Pages :
          (OnDisk(p, v) /\ OnDisk(q, w) /\ Entry(p, v).fn = Entry(q, w).fn)'
            => p = q /\ v = w
    BY <1>1, <1>2, <2>1 DEF OnDiskApart
  <2>3. \A d \in DiskFrames :
          (disk_ffl[d] # FREE)' <=>
            \E p \in Procs, v \in Pages : (OnDisk(p, v) /\ Entry(p, v).fn = d)'
    BY <1>1, <1>2, <2>1 DEF OnDiskApart
  <2> QED
    BY <2>2, <2>3 DEF OnDiskApart
<1>5. WordsInv'
  BY <1>1, <1>2 DEF WordsInv, Resident, OnDisk
<1> QED
  BY <1>3, <1>4, <1>5 DEF KeptInv

\* The page swapped out is on the disk, and no other page changes.
LEMMA SwappedEntries ==
  ASSUME TypeInv, NEW p0 \in Procs, NEW v0 \in Pages, NEW d \in DiskFrames,
         MarkSwapped([proc |-> p0, page |-> v0], d), IsMapped(p0, v0), ptbl1' = ptbl1
  PROVE  /\ OnDisk(p0, v0)' /\ Entry(p0, v0)'.fn = d
         /\ \A p \in Procs, v \in Pages : ~(p = p0 /\ v = v0) =>
              /\ IsMapped(p, v)' <=> IsMapped(p, v)
              /\ IsMapped(p, v) => Entry(p, v)' = Entry(p, v)
<1>1. PICK tags \in TagSet : tags = [proc |-> p0, page |-> v0]
  BY DEF TagSet
<1>2. PICK tn : tn = ptbl1[p0][v0[1]].tn
  OBVIOUS
<1>3. TableOf(tags) = tn /\ tags.page[2] = v0[2]
  BY <1>1, <1>2 DEF TableOf
<1>4. \A t \in Tables, j \in 0..(Level2 - 1) :
        IF t = tn /\ j = v0[2]
        THEN ptbl2'[t][j].fn = d /\ ptbl2'[t][j].present /\ ptbl2'[t][j].valid = ptbl2[t][j].valid
        ELSE ptbl2'[t][j] = ptbl2[t][j]
  BY <1>1, <1>3, MarkedEntries
<1>5. /\ tn \in Tables /\ v0[1] \in 0..(Level1 - 1) /\ v0[2] \in 0..(Level2 - 1)
      /\ ptbl1[p0][v0[1]].valid /\ ptbl2[tn][v0[2]].valid
  BY <1>2, EntryTypes DEF IsMapped, Entry
<1>6. OnDisk(p0, v0)' /\ Entry(p0, v0)'.fn = d
  BY <1>2, <1>4, <1>5 DEF OnDisk, IsMapped, Entry
<1>7. ASSUME NEW p \in Procs, NEW v \in Pages, ~(p = p0 /\ v = v0)
      PROVE  /\ IsMapped(p, v)' <=> IsMapped(p, v)
             /\ IsMapped(p, v) => Entry(p, v)' = Entry(p, v)
  <2>1. CASE ~ptbl1[p][v[1]].valid
    BY <2>1 DEF IsMapped
  <2>2. CASE ptbl1[p][v[1]].valid
    <3>1. ptbl1[p][v[1]].tn \in Tables /\ v[1] \in 0..(Level1 - 1) /\ v[2] \in 0..(Level2 - 1)
      BY EntryTypes
    <3>2. ~(ptbl1[p][v[1]].tn = tn /\ v[2] = v0[2])
      <4>1. ptbl1[p][v[1]].tn = ptbl1[p0][v0[1]].tn => p = p0 /\ v[1] = v0[1]
        BY <1>5, <2>2, <3>1 DEF TypeInv, TablesInv, TablesPrivate
      <4>2. ~(p = p0 /\ v[1] = v0[1] /\ v[2] = v0[2])
        BY <1>7, SamePage
      <4> QED
        BY <1>2, <4>1, <4>2
    <3>3. Entry(p, v)' = Entry(p, v)
      BY <1>4, <3>1, <3>2 DEF Entry
    <3> QED
      BY <3>3 DEF IsMapped
  <2> QED
    BY <2>1, <2>2
<1> QED
  BY <1>6, <1>7

\* The victim's page goes to a free frame of the disk, and takes its word along.
LEMMA SwapOutKept ==
  ASSUME TypeInv, KeptInv, DiskFree, pc = "victim",
         NEW f \in Frames, memory_ffl[f] # FREE, SwapOut(f)
  PROVE  KeptInv'
<1> SUFFICES ASSUME ~misplaced PROVE KeptInv'
  BY DEF KeptInv, SwapOut
<1>1. Placed /\ OnDiskApart /\ WordsInv
  BY DEF KeptInv
<1>2. PICK d : d = search_frame(disk_ffl)
  OBVIOUS
<1>3. d \in DiskFrames /\ disk_ffl[d] = FREE
  <2>1. FreeIn(disk_ffl) # {} /\ DOMAIN disk_ffl = 0..(NDisk - 1)
    BY DEF DiskFree, TypeInv, StoreOK, DiskFrames
  <2>2. d \in FreeIn(disk_ffl)
    BY <1>2, <2>1, FrameSearched, Ranges
  <2> QED
    BY <2>1, <2>2 DEF FreeIn, DiskFrames
<1>4. PICK p0 \in Procs, v0 \in Pages : memory_ffl[f] = [proc |-> p0, page |-> v0]
  BY TagTypes
<1>5. Resident(p0, v0) /\ Entry(p0, v0).fn = f /\ IsMapped(p0, v0)
  BY <1>1, <1>4 DEF Placed, Resident
<1>6. /\ MarkSwapped([proc |-> p0, page |-> v0], d)
      /\ disk' = [disk EXCEPT ![d] = memory[f]]
      /\ disk_ffl' = [disk_ffl EXCEPT ![d] = Bare]
      /\ memory' = [memory EXCEPT ![f] = BLANK]
      /\ memory_ffl' = [memory_ffl EXCEPT ![f] = FREE]
      /\ pc' = "lookup" /\ ptbl1' = ptbl1 /\ known' = known
  BY <1>2, <1>4 DEF SwapOut, Tags
<1>7. /\ OnDisk(p0, v0)' /\ Entry(p0, v0)'.fn = d /\ ~Resident(p0, v0)'
      /\ \A p \in Procs, v \in Pages : ~(p = p0 /\ v = v0) =>
           /\ IsMapped(p, v)' <=> IsMapped(p, v)
           /\ IsMapped(p, v) => Entry(p, v)' = Entry(p, v)
  BY <1>3, <1>5, <1>6, SwappedEntries DEF OnDisk, Resident
<1>8. \A p \in Procs, v \in Pages : ~(p = p0 /\ v = v0) =>
        /\ Resident(p, v)' <=> Resident(p, v)
        /\ OnDisk(p, v)' <=> OnDisk(p, v)
        /\ Resident(p, v) => Entry(p, v)' = Entry(p, v) /\ Entry(p, v).fn # f
        /\ OnDisk(p, v) => Entry(p, v)' = Entry(p, v) /\ Entry(p, v).fn # d
  <2>1. \A p \in Procs, v \in Pages : ~(p = p0 /\ v = v0) =>
          /\ Resident(p, v)' <=> Resident(p, v)
          /\ OnDisk(p, v)' <=> OnDisk(p, v)
          /\ Resident(p, v) => Entry(p, v)' = Entry(p, v)
          /\ OnDisk(p, v) => Entry(p, v)' = Entry(p, v)
    BY <1>7 DEF Resident, OnDisk
  <2>2. ASSUME NEW p \in Procs, NEW v \in Pages, Resident(p, v) /\ Entry(p, v).fn = f
        PROVE  p = p0 /\ v = v0
    <3>1. [proc |-> p, page |-> v] = [proc |-> p0, page |-> v0]
      BY <1>1, <1>4, <2>2 DEF Placed
    <3>2. [proc |-> p, page |-> v].proc = [proc |-> p0, page |-> v0].proc
          /\ [proc |-> p, page |-> v].page = [proc |-> p0, page |-> v0].page
      BY <3>1
    <3> QED
      BY <3>2
  <2>3. \A p \in Procs, v \in Pages : OnDisk(p, v) => Entry(p, v).fn # d
    BY <1>1, <1>3 DEF OnDiskApart
  <2> QED
    BY <2>1, <2>2, <2>3
<1>9. /\ \A e \in DiskFrames : disk'[e] = IF e = d THEN memory[f] ELSE disk[e]
      /\ \A e \in DiskFrames : disk_ffl'[e] = IF e = d THEN Bare ELSE disk_ffl[e]
      /\ \A g \in Frames : memory'[g] = IF g = f THEN BLANK ELSE memory[g]
      /\ \A g \in Frames : memory_ffl'[g] = IF g = f THEN FREE ELSE memory_ffl[g]
  BY <1>6 DEF TypeInv, StoreOK
<1>10. Placed'
  <2>1. ASSUME NEW p \in Procs, NEW v \in Pages, NEW g \in Frames
        PROVE  (Resident(p, v) /\ Entry(p, v).fn = g)'
                 <=> memory_ffl'[g] = [proc |-> p, page |-> v]
    <3>1. [proc |-> p, page |-> v] # FREE
      BY PageTypes, Ranges
    <3>2. CASE p = p0 /\ v = v0
      BY <1>1, <1>5, <1>7, <1>9, <3>1, <3>2 DEF Placed
    <3>3. CASE ~(p = p0 /\ v = v0)
      BY <1>1, <1>8, <1>9, <3>1, <3>3 DEF Placed
    <3> QED
      BY <3>2, <3>3
  <2> QED
    BY <2>1 DEF Placed
<1>11. OnDiskApart'
  <2>1. ASSUME NEW p \in Procs, NEW q \in Procs, NEW v \in Pages, NEW w \in Pages,
               (OnDisk(p, v) /\ OnDisk(q, w) /\ Entry(p, v).fn = Entry(q, w).fn)'
        PROVE  p = q /\ v = w
    BY <1>1, <1>7, <1>8, <2>1 DEF OnDiskApart
  <2>2. ASSUME NEW e \in DiskFrames
        PROVE  disk_ffl'[e] # FREE <=>
                 \E p \in Procs, v \in Pages : (OnDisk(p, v) /\ Entry(p, v).fn = e)'
    <3>1. CASE e = d
      BY <1>7, <1>9, <3>1, Ranges
    <3>2. CASE e # d
      <4>1. disk_ffl[e] # FREE <=>
              \E p \in Procs, v \in Pages : OnDisk(p, v) /\ Entry(p, v).fn = e
        BY <1>1 DEF OnDiskApart
      <4>2. ~OnDisk(p0, v0)
        BY <1>5 DEF Resident, OnDisk
      <4> QED
        BY <1>7, <1>8, <1>9, <3>2, <4>1, <4>2
    <3> QED
      BY <3>1, <3>2
  <2> QED
    BY <2>1, <2>2 DEF OnDiskApart
<1>12. WordsInv'
  <2> SUFFICES ASSUME ~UseTlb PROVE WordsInv'
    BY DEF WordsInv
  <2>1. ASSUME NEW p \in Procs, NEW v \in Pages, known[p][v] # BLANK
        PROVE  /\ IsMapped(p, v)'
               /\ Resident(p, v)' => known[p][v] = memory'[Entry(p, v)'.fn]
               /\ OnDisk(p, v)' => known[p][v] = disk'[Entry(p, v)'.fn]
    <3>1. /\ IsMapped(p, v)
          /\ Resident(p, v) => known[p][v] = memory[Entry(p, v).fn]
          /\ OnDisk(p, v) => known[p][v] = disk[Entry(p, v).fn]
      BY <1>1, <2>1 DEF WordsInv
    <3>2. CASE p = p0 /\ v = v0
      BY <1>3, <1>5, <1>7, <1>9, <3>1, <3>2 DEF OnDisk
    <3>3. CASE ~(p = p0 /\ v = v0)
      <4>1. /\ Resident(p, v) => Entry(p, v).fn \in Frames
            /\ OnDisk(p, v) => Entry(p, v).fn \in DiskFrames
        BY PageTypes
      <4> QED
        BY <1>7, <1>8, <1>9, <3>1, <3>3, <4>1
    <3> QED
      BY <3>2, <3>3
  <2> QED
    BY <1>6, <2>1 DEF WordsInv
<1>13. FoundResident'
  BY <1>6 DEF FoundResident
<1> QED
  BY <1>10, <1>11, <1>12, <1>13 DEF KeptInv

\* The page looked up is mapped to frame f: only it is placed anew.
LEMMA MappedPages ==
  ASSUME TypeInv, NEW f \in Frames, MapTo(f), Mapped1, UNCHANGED <<ptbl1, idx, va>>
  PROVE  /\ Resident(idx, va)' /\ Entry(idx, va)'.fn = f /\ ~OnDisk(idx, va)'
         /\ \A p \in Procs, v \in Pages : ~(p = idx /\ v = va) =>
              /\ IsMapped(p, v)' <=> IsMapped(p, v)
              /\ Resident(p, v)' <=> Resident(p, v)
              /\ OnDisk(p, v)' <=> OnDisk(p, v)
              /\ IsMapped(p, v) => Entry(p, v)' = Entry(p, v)
<1>1. /\ IsMapped(idx, va)'
      /\ Entry(idx, va)' = [fn |-> f, valid |-> TRUE, present |-> FALSE]
      /\ \A p \in Procs, v \in Pages : ~(p = idx /\ v = va) =>
           /\ IsMapped(p, v)' <=> IsMapped(p, v)
           /\ IsMapped(p, v) => Entry(p, v)' = Entry(p, v)
  BY MapToEntries
<1> QED
  BY <1>1 DEF Resident, OnDisk

\* A page that gets a free frame: the frames of the others are not that one.
LEMMA TakenPlaced ==
  ASSUME TypeInv, Placed, NEW f \in Frames, memory_ffl[f] = FREE, ~Resident(idx, va),
         MapTo(f), Mapped1, UNCHANGED <<ptbl1, idx, va>>,
         \A g \in Frames : memory_ffl'[g] = IF g = f THEN Mine ELSE memory_ffl[g]
  PROVE  /\ Placed'
         /\ \A p \in Procs, v \in Pages : Resident(p, v) => Entry(p, v).fn # f
<1>1. idx \in Procs /\ va \in Pages
  BY LookupTypes
<1>2. \A p \in Procs, v \in Pages : [proc |-> p, page |-> v] # FREE
  BY PageTypes, Ranges
<1>3. \A p \in Procs, v \in Pages : Resident(p, v) => Entry(p, v).fn # f
  <2>1. ASSUME NEW p \in Procs, NEW v \in Pages, Resident(p, v)
        PROVE  Entry(p, v).fn # f
    <3>1. PICK g \in Frames : g = Entry(p, v).fn
      BY <2>1, PageTypes
    <3>2. memory_ffl[g] = [proc |-> p, page |-> v]
      BY <2>1, <3>1 DEF Placed
    <3> QED
      BY <1>2, <3>1, <3>2
  <2> QED
    BY <2>1
<1>4. ASSUME NEW p \in Procs, NEW v \in Pages, NEW g \in Frames
      PROVE  (Resident(p, v) /\ Entry(p, v).fn = g)'
               <=> memory_ffl'[g] = [proc |-> p, page |-> v]
  <2>1. CASE p = idx /\ v = va
    <3>1. memory_ffl[g] # [proc |-> p, page |-> v]
      BY <2>1 DEF Placed
    <3> QED
      BY <2>1, <3>1, MappedPages DEF Mine
  <2>2. CASE ~(p = idx /\ v = va)
    <3>1. /\ Resident(p, v)' <=> Resident(p, v)
          /\ Resident(p, v) => Entry(p, v)' = Entry(p, v)
      BY <2>2, MappedPages DEF Resident
    <3>2. Mine # [proc |-> p, page |-> v]
      <4>1. Mine.proc = idx /\ Mine.page = va
        BY DEF Mine
      <4>2. [proc |-> p, page |-> v].proc = p /\ [proc |-> p, page |-> v].page = v
        OBVIOUS
      <4> QED
        BY <2>2, <4>1, <4>2
    <3> QED
      BY <1>3, <3>1, <3>2 DEF Placed
  <2> QED
    BY <2>1, <2>2
<1>5. Placed'
  BY <1>4 DEF Placed
<1> QED
  BY <1>3, <1>5

\* A first access takes a free frame, in which there is no word of any page.
LEMMA Level2Kept ==
  ASSUME TypeInv, FrameInv, KeptInv, Level2Fault
  PROVE  KeptInv'
<1> SUFFICES ASSUME ~misplaced PROVE KeptInv'
  BY DEF KeptInv, Level2Fault, history
<1>1. Placed /\ OnDiskApart /\ WordsInv
  BY DEF KeptInv
<1>2. PICK f : f = fn'
  OBVIOUS
<1>3. /\ memory_ffl' = [memory_ffl EXCEPT ![f] = Mine] /\ MapTo(f) /\ Mapped1 /\ ~Entry2.valid
      /\ UNCHANGED <<memory, disk, disk_ffl, ptbl1, idx, va, known>>
  BY <1>2 DEF Level2Fault, AtLevel2, call, history
<1>4. f \in Frames /\ memory_ffl[f] = FREE
  BY <1>2, FrameTaken DEF FreeIn, TypeInv, StoreOK
<1>5. idx \in Procs /\ va \in Pages
  BY LookupTypes
<1>6. ~IsMapped(idx, va) /\ ~Resident(idx, va) /\ ~OnDisk(idx, va)
  BY <1>3 DEF IsMapped, Resident, OnDisk, Entry, Entry2
<1>7. \A g \in Frames : memory_ffl'[g] = IF g = f THEN Mine ELSE memory_ffl[g]
  BY <1>3 DEF TypeInv, StoreOK
<1>8. Placed' /\ \A p \in Procs, v \in Pages : Resident(p, v) => Entry(p, v).fn # f
  BY <1>1, <1>3, <1>4, <1>6, <1>7, TakenPlaced
<1>9. /\ Resident(idx, va)' /\ Entry(idx, va)'.fn = f /\ ~OnDisk(idx, va)'
      /\ \A p \in Procs, v \in Pages : ~(p = idx /\ v = va) =>
           /\ IsMapped(p, v)' <=> IsMapped(p, v)
           /\ Resident(p, v)' <=> Resident(p, v)
           /\ OnDisk(p, v)' <=> OnDisk(p, v)
           /\ IsMapped(p, v) => Entry(p, v)' = Entry(p, v)
  BY <1>3, <1>4, MappedPages
<1>10. OnDiskApart'
  <2>1. ASSUME NEW p \in Procs, NEW v \in Pages
        PROVE  /\ OnDisk(p, v)' <=> OnDisk(p, v)
               /\ OnDisk(p, v) => Entry(p, v)' = Entry(p, v)
    <3>1. CASE p = idx /\ v = va
      BY <1>3, <1>6, <1>9, <3>1
    <3>2. CASE ~(p = idx /\ v = va)
      <4>1. OnDisk(p, v) => IsMapped(p, v)
        BY DEF OnDisk
      <4> QED
        BY <1>9, <3>2, <4>1
    <3> QED
      BY <3>1, <3>2
  <2>2. ASSUME NEW p \in Procs, NEW q \in Procs, NEW v \in Pages, NEW w \in Pages,
               (OnDisk(p, v) /\ OnDisk(q, w) /\ Entry(p, v).fn = Entry(q, w).fn)'
        PROVE  p = q /\ v = w
    BY <1>1, <2>1, <2>2 DEF OnDiskApart
  <2>3. ASSUME NEW e \in DiskFrames
        PROVE  disk_ffl'[e] # FREE <=>
                 \E p \in Procs, v \in Pages : (OnDisk(p, v) /\ Entry(p, v).fn = e)'
    BY <1>1, <1>3, <2>1 DEF OnDiskApart
  <2> QED
    BY <2>2, <2>3 DEF OnDiskApart
<1>11. WordsInv'
  <2> SUFFICES ASSUME ~UseTlb PROVE WordsInv'
    BY DEF WordsInv
  <2>1. ASSUME NEW p \in Procs, NEW v \in Pages, known[p][v] # BLANK
        PROVE  /\ IsMapped(p, v)'
               /\ Resident(p, v)' => known[p][v] = memory[Entry(p, v)'.fn]
               /\ OnDisk(p, v)' => known[p][v] = disk[Entry(p, v)'.fn]
    <3>1. /\ IsMapped(p, v)
          /\ Resident(p, v) => known[p][v] = memory[Entry(p, v).fn]
          /\ OnDisk(p, v) => known[p][v] = disk[Entry(p, v).fn]
      BY <1>1, <2>1 DEF WordsInv
    <3>2. ~(p = idx /\ v = va)
      BY <1>6, <3>1
    <3> QED
      BY <1>9, <3>1, <3>2
  <2> QED
    BY <1>3, <2>1 DEF WordsInv
<1>12. FoundResident'
  BY <1>2, <1>3, <1>9 DEF FoundResident
<1> QED
  BY <1>8, <1>10, <1>11, <1>12 DEF KeptInv

\* A page comes back to the frame that is mapped for it, and with it its word.
LEMMA SwapInKept ==
  ASSUME MinFree # 0, TypeInv, FrameInv, CountInv, KeptInv, SwapIn
  PROVE  KeptInv'
<1> SUFFICES ASSUME ~misplaced, fn' = swap_pn PROVE KeptInv'
  BY DEF KeptInv, SwapIn
<1>1. Placed /\ OnDiskApart /\ WordsInv
  BY DEF KeptInv
<1>2. PICK f : f = fn'
  OBVIOUS
<1>3. PICK d : d = Entry2.fn
  OBVIOUS
<1>4. /\ pc = "lookup" /\ f = search_frame(memory_ffl) /\ swap_pn = f
      /\ memory_ffl' = [memory_ffl EXCEPT ![f] = Bare, ![f] = Mine]
      /\ memory' = [memory EXCEPT ![f] = disk[d]]
      /\ disk' = [disk EXCEPT ![d] = BLANK]
      /\ disk_ffl' = [disk_ffl EXCEPT ![d] = FREE]
      /\ MapTo(f) /\ Mapped1 /\ Entry2.valid /\ Entry2.present
      /\ UNCHANGED <<ptbl1, idx, va, known>>
  BY <1>2, <1>3 DEF SwapIn, AtLevel2, call
<1>5. f \in Frames /\ memory_ffl[f] = FREE
  BY <1>4, LowFound DEF FreeIn, TypeInv, StoreOK
<1>6. idx \in Procs /\ va \in Pages /\ d \in DiskFrames
  BY <1>3, <1>4, LookupTypes
<1>7. /\ IsMapped(idx, va) /\ ~Resident(idx, va) /\ OnDisk(idx, va) /\ Entry(idx, va).fn = d
  BY <1>3, <1>4 DEF IsMapped, Resident, OnDisk, Entry, Entry2, Mapped1
<1>8. /\ \A g \in Frames : memory_ffl'[g] = IF g = f THEN Mine ELSE memory_ffl[g]
      /\ \A g \in Frames : memory'[g] = IF g = f THEN disk[d] ELSE memory[g]
      /\ \A e \in DiskFrames : disk'[e] = IF e = d THEN BLANK ELSE disk[e]
      /\ \A e \in DiskFrames : disk_ffl'[e] = IF e = d THEN FREE ELSE disk_ffl[e]
  BY <1>4 DEF TypeInv, StoreOK
<1>9. Placed' /\ \A p \in Procs, v \in Pages : Resident(p, v) => Entry(p, v).fn # f
  BY <1>1, <1>4, <1>5, <1>7, <1>8, TakenPlaced
<1>10. /\ Resident(idx, va)' /\ IsMapped(idx, va)' /\ Entry(idx, va)'.fn = f
       /\ ~OnDisk(idx, va)'
       /\ \A p \in Procs, v \in Pages : ~(p = idx /\ v = va) =>
            /\ IsMapped(p, v)' <=> IsMapped(p, v)
            /\ Resident(p, v)' <=> Resident(p, v)
            /\ OnDisk(p, v)' <=> OnDisk(p, v)
            /\ IsMapped(p, v) => Entry(p, v)' = Entry(p, v)
            /\ OnDisk(p, v) => Entry(p, v).fn # d
  <2>1. \A p \in Procs, v \in Pages : OnDisk(p, v) /\ Entry(p, v).fn = d => p = idx /\ v = va
    BY <1>1, <1>6, <1>7 DEF OnDiskApart
  <2> QED
    BY <1>4, <1>5, <2>1, MappedPages DEF Resident
<1>11. OnDiskApart'
  <2>1. ASSUME NEW p \in Procs, NEW v \in Pages
        PROVE  /\ OnDisk(p, v)' <=> OnDisk(p, v) /\ ~(p = idx /\ v = va)
               /\ OnDisk(p, v)' => Entry(p, v)' = Entry(p, v) /\ Entry(p, v).fn # d
    <3>1. CASE p = idx /\ v = va
      BY <1>4, <1>10, <3>1
    <3>2. CASE ~(p = idx /\ v = va)
      <4>1. OnDisk(p, v) => IsMapped(p, v)
        BY DEF OnDisk
      <4> QED
        BY <1>10, <3>2, <4>1
    <3> QED
      BY <3>1, <3>2
  <2>2. ASSUME NEW p \in Procs, NEW q \in Procs, NEW v \in Pages, NEW w \in Pages,
               (OnDisk(p, v) /\ OnDisk(q, w) /\ Entry(p, v).fn = Entry(q, w).fn)'
        PROVE  p = q /\ v = w
    BY <1>1, <2>1, <2>2 DEF OnDiskApart
  <2>3. ASSUME NEW e \in DiskFrames
        PROVE  disk_ffl'[e] # FREE <=>
                 \E p \in Procs, v \in Pages : (OnDisk(p, v) /\ Entry(p, v).fn = e)'
    <3>1. disk_ffl[e] # FREE <=>
            \E p \in Procs, v \in Pages : OnDisk(p, v) /\ Entry(p, v).fn = e
      BY <1>1 DEF OnDiskApart
    <3> QED
      BY <1>7, <1>8, <2>1, <3>1
  <2> QED
    BY <2>2, <2>3 DEF OnDiskApart
<1>12. WordsInv'
  <2> SUFFICES ASSUME ~UseTlb PROVE WordsInv'
    BY DEF WordsInv
  <2>1. ASSUME NEW p \in Procs, NEW v \in Pages, known[p][v] # BLANK
        PROVE  /\ IsMapped(p, v)'
               /\ Resident(p, v)' => known[p][v] = memory'[Entry(p, v)'.fn]
               /\ OnDisk(p, v)' => known[p][v] = disk'[Entry(p, v)'.fn]
    <3>1. /\ IsMapped(p, v)
          /\ Resident(p, v) => known[p][v] = memory[Entry(p, v).fn]
          /\ OnDisk(p, v) => known[p][v] = disk[Entry(p, v).fn]
      BY <1>1, <2>1 DEF WordsInv
    <3>2. CASE p = idx /\ v = va
      BY <1>4, <1>5, <1>7, <1>8, <1>10, <3>1, <3>2
    <3>3. CASE ~(p = idx /\ v = va)
      <4>1. /\ Resident(p, v) => Entry(p, v).fn \in Frames
            /\ OnDisk(p, v) => Entry(p, v).fn \in DiskFrames
        BY PageTypes
      <4> QED
        BY <1>8, <1>9, <1>10, <3>1, <3>3, <4>1
    <3> QED
      BY <3>2, <3>3
  <2> QED
    BY <1>4, <2>1 DEF WordsInv
<1>13. FoundResident'
  BY <1>2, <1>4, <1>10 DEF FoundResident
<1> QED
  BY <1>9, <1>11, <1>12, <1>13 DEF KeptInv

\* A word is read or written in the frame of its page, which is nobody else's.
LEMMA PerformKept ==
  ASSUME TypeInv, KeptInv, Perform
  PROVE  KeptInv'
<1> SUFFICES ASSUME ~misplaced PROVE KeptInv'
  BY DEF KeptInv, Perform
<1>1. Placed /\ OnDiskApart /\ WordsInv
      /\ (~UseTlb => Resident(idx, va) /\ fn = Entry(idx, va).fn)
  BY DEF KeptInv, FoundResident, Perform
<1>2. PICK word : word = IF memory[fn] = BLANK THEN Owned(idx, va) ELSE memory[fn]
  OBVIOUS
<1>3. /\ memory' = [memory EXCEPT ![fn] = word]
      /\ known' = [known EXCEPT ![idx][va] = word]
      /\ pc' # "perform"
      /\ UNCHANGED <<disk, memory_ffl, disk_ffl, ptbl1, ptbl2>>
  BY <1>2 DEF Perform, maps
<1>4. idx \in Procs /\ va \in Pages /\ fn \in Frames
  BY LookupTypes DEF TypeInv, CallOK
<1>5. \A p \in Procs, v \in Pages :
        /\ IsMapped(p, v)' <=> IsMapped(p, v)
        /\ Entry(p, v)' = Entry(p, v)
        /\ Resident(p, v)' <=> Resident(p, v)
        /\ OnDisk(p, v)' <=> OnDisk(p, v)
  BY <1>3, SameEntries DEF OnDisk
<1>6. ASSUME ~UseTlb, NEW p \in Procs, NEW v \in Pages, Resident(p, v), Entry(p, v).fn = fn
      PROVE  p = idx /\ v = va
  <2>1. [proc |-> p, page |-> v] = [proc |-> idx, page |-> va]
    BY <1>1, <1>4, <1>6 DEF Placed
  <2>2. [proc |-> p, page |-> v].proc = [proc |-> idx, page |-> va].proc
        /\ [proc |-> p, page |-> v].page = [proc |-> idx, page |-> va].page
    BY <2>1
  <2> QED
    BY <2>2
<1>7. Placed'
  <2>1. ASSUME NEW p \in Procs, NEW v \in Pages, NEW f \in Frames
        PROVE  (Resident(p, v) /\ Entry(p, v).fn = f)'
                 <=> memory_ffl'[f] = [proc |-> p, page |-> v]
    <3>1. (Resident(p, v) /\ Entry(p, v).fn = f)' <=> Resident(p, v) /\ Entry(p, v).fn = f
      BY <1>5
    <3> QED
      BY <1>1, <1>3, <3>1 DEF Placed
  <2> QED
    BY <2>1 DEF Placed
<1>8. OnDiskApart'
  <2>1. ASSUME NEW p \in Procs, NEW q \in Procs, NEW v \in Pages, NEW w \in Pages,
               (OnDisk(p, v) /\ OnDisk(q, w) /\ Entry(p, v).fn = Entry(q, w).fn)'
        PROVE  p = q /\ v = w
    BY <1>1, <1>5, <2>1 DEF OnDiskApart
  <2>2. ASSUME NEW e \in DiskFrames
        PROVE  disk_ffl'[e] # FREE <=>
                 \E p \in Procs, v \in Pages : (OnDisk(p, v) /\ Entry(p, v).fn = e)'
    BY <1>1, <1>3, <1>5 DEF OnDiskApart
  <2> QED
    BY <2>1, <2>2 DEF OnDiskApart
<1>9. /\ \A g \in Frames : memory'[g] = IF g = fn THEN word ELSE memory[g]
      /\ \A p \in Procs, v \in Pages :
           known'[p][v] = IF p = idx /\ v = va THEN word ELSE known[p][v]
  BY <1>3, <1>4 DEF TypeInv, StoreOK, HistoryOK
<1>10. WordsInv'
  <2> SUFFICES ASSUME ~UseTlb PROVE WordsInv'
    BY DEF WordsInv
  <2>1. ASSUME NEW p \in Procs, NEW v \in Pages, known'[p][v] # BLANK
        PROVE  /\ IsMapped(p, v)
               /\ Resident(p, v) => known'[p][v] = memory'[Entry(p, v).fn]
               /\ OnDisk(p, v) => known'[p][v] = disk[Entry(p, v).fn]
    <3>1. CASE p = idx /\ v = va
      BY <1>1, <1>4, <1>9, <3>1 DEF Resident, OnDisk
    <3>2. CASE ~(p = idx /\ v = va)
      <4>1. Resident(p, v) => Entry(p, v).fn \in Frames /\ Entry(p, v).fn # fn
        BY <1>6, <3>2, PageTypes
      <4> QED
        BY <1>1, <1>9, <2>1, <3>2, <4>1 DEF WordsInv
    <3> QED
      BY <3>1, <3>2
  <2> QED
    BY <1>3, <1>5, <2>1 DEF WordsInv
<1>11. FoundResident'
  BY <1>3 DEF FoundResident
<1> QED
  BY <1>7, <1>8, <1>10, <1>11 DEF KeptInv

LEMMA StepKept ==
  ASSUME MinFree # 0, set_replacement # RANDOM,
         TypeInv, FrameInv, CountInv, KeptInv, DiskFree, [Next]_vars
  PROVE  KeptInv'
<1>1. ASSUME UNCHANGED <<memory, disk, memory_ffl, disk_ffl, known, misplaced, ptbl1, ptbl2>>,
             ~misplaced => FoundResident'
      PROVE  KeptInv'
  BY <1>1, SameKept, SameEntries
<1>2. ASSUME pc' # "perform",
             UNCHANGED <<memory, disk, memory_ffl, disk_ffl, known, misplaced, ptbl1, ptbl2>>
      PROVE  KeptInv'
  BY <1>1, <1>2 DEF FoundResident
<1>3. ASSUME NEW p \in Procs, Call(p)
      PROVE  KeptInv'
  BY <1>2, <1>3 DEF Call, store, maps, history
<1>4. ASSUME NEW v \in Pages, NextAddress(v)
      PROVE  KeptInv'
  BY <1>2, <1>4 DEF NextAddress, store, maps, history
<1>5. ASSUME NEW f \in Low, SwapOut(f), pc = "victim"
      PROVE  KeptInv'
  <2>1. f \in Frames /\ memory_ffl[f] # FREE
    BY <1>5, OnlyHighFree, LowFrames DEF FreeIn, TypeInv, StoreOK
  <2> QED
    BY <1>5, <2>1, SwapOutKept
<1>6. ASSUME NEW f \in Frames, SwapOutScanned(f)
      PROVE  KeptInv'
  BY <1>5, <1>6, ScannedLow DEF SwapOutScanned, Victims
<1>7. CASE SwapOutQueued
  <2>1. PICK node : node = Dequeued(fifo)
    OBVIOUS
  <2>2. pc = "victim" /\ ~DequeueFaults(fifo) /\ node # NONE /\ SwapOut(node.fn)
    BY <1>7, <2>1 DEF SwapOutQueued
  <2>3. node \in LowNodes
    BY <2>1, <2>2, DequeuedNode DEF CountInv, Dequeued
  <2>4. node.fn \in Low
    BY <2>3 DEF LowNodes
  <2> QED
    BY <1>5, <2>2, <2>4
<1>8. CASE SecondChance \/ NoVictim
  BY <1>2, <1>8 DEF SecondChance, NoVictim, store, maps, history
<1>9. CASE TlbHit
  <2>1. UseTlb
    BY <1>9 DEF TlbHit, TlbHolds
  <2>2. UNCHANGED <<memory, disk, memory_ffl, disk_ffl, known, misplaced, ptbl1, ptbl2>>
    BY <1>9 DEF TlbHit, store, maps, history
  <2>3. FoundResident'
    BY <2>1 DEF FoundResident
  <2> QED
    BY <1>1, <2>2, <2>3
<1>10. CASE Level1Fault
  <2>1. /\ UNCHANGED <<memory, disk, memory_ffl, disk_ffl, known, misplaced, pc>>
        /\ pc = "lookup"
    BY <1>10 DEF Level1Fault, store, history
  <2>2. FoundResident'
    BY <2>1 DEF FoundResident
  <2> QED
    BY <1>10, <2>1, <2>2, Level1Entries, SameKept
<1>11. CASE Level2Fault
  BY <1>11, Level2Kept
<1>12. CASE SwapIn
  BY <1>12, SwapInKept
<1>13. CASE Level2Hit
  <2>1. /\ Mapped1 /\ Entry2.valid /\ ~Entry2.present /\ fn' = Entry2.fn
        /\ UNCHANGED <<memory, disk, memory_ffl, disk_ffl, known, misplaced, ptbl1, ptbl2>>
        /\ UNCHANGED <<idx, va>>
    BY <1>13 DEF Level2Hit, AtLevel2, store, call, history
  <2>2. FoundResident'
    BY <2>1 DEF FoundResident, Resident, IsMapped, Entry, Entry2, Mapped1
  <2> QED
    BY <1>1, <2>1, <2>2
<1>14. CASE Perform
  BY <1>14, PerformKept
<1>15. CASE UNCHANGED vars
  <2>1. /\ UNCHANGED <<memory, disk, memory_ffl, disk_ffl, known, misplaced, ptbl1, ptbl2>>
        /\ UNCHANGED <<pc, idx, va, fn>>
    BY <1>15 DEF vars, store, maps, call, history
  <2>2. ~misplaced => FoundResident'
    BY <2>1 DEF KeptInv, FoundResident, Resident, IsMapped, Entry
  <2> QED
    BY <1>1, <2>1, <2>2
<1> QED
  BY <1>3, <1>4, <1>6, <1>7, <1>8, <1>9, <1>10, <1>11, <1>12, <1>13, <1>14, <1>15 DEF Next

LEMMA KeptInvariance ==
  ASSUME MinFree # 0, set_replacement # RANDOM
  PROVE  Spec /\ []DiskFree => []KeptInv
<1>1. Init => KeptInv
  BY InitKept
<1>2. TypeInv /\ FrameInv /\ CountInv /\ KeptInv /\ DiskFree /\ [Next]_vars => KeptInv'
  BY StepKept
<1> QED
  BY <1>1, <1>2, TypeInvariance, FrameInvariance, CountInvariance, PTL DEF Spec

\* The tags that are there, and those that should be.
LEMMA KeptTags ==
  ASSUME TypeInv, KeptInv
  PROVE  TagsInvertTables
<1> SUFFICES ASSUME ~misplaced PROVE TagsInvertTables
  BY DEF TagsInvertTables
<1>1. Placed
  BY DEF KeptInv
<1>2. ASSUME NEW p \in Procs, NEW v \in Pages, Resident(p, v)
      PROVE  memory_ffl[Entry(p, v).fn] = [proc |-> p, page |-> v]
  BY <1>1, <1>2, PageTypes DEF Placed
<1>3. ASSUME NEW f \in InUse
      PROVE  /\ Resident(memory_ffl[f].proc, memory_ffl[f].page)
             /\ Entry(memory_ffl[f].proc, memory_ffl[f].page).fn = f
  <2>1. f \in Frames /\ memory_ffl[f] # FREE
    BY DEF InUse, FreeIn, TypeInv, StoreOK
  <2>2. PICK p \in Procs, v \in Pages :
          memory_ffl[f] = [proc |-> p, page |-> v]
    BY <2>1, TagTypes
  <2>3. Resident(p, v) /\ Entry(p, v).fn = f
    BY <1>1, <2>1, <2>2 DEF Placed
  <2>4. memory_ffl[f].proc = p /\ memory_ffl[f].page = v
    BY <2>2
  <2> QED
    BY <2>3, <2>4
<1> QED
  BY <1>2, <1>3 DEF TagsInvertTables

\* What a process knows, and where it is.
LEMMA KeptWords ==
  ASSUME TypeInv, KeptInv, ~UseTlb
  PROVE  WordsKept
<1> SUFFICES ASSUME ~misplaced, NEW p \in Procs, NEW v \in Pages, known[p][v] # BLANK
             PROVE  /\ IsMapped(p, v)
                    /\ known[p][v] = IF Resident(p, v) THEN memory[Entry(p, v).fn]
                                                       ELSE disk[Entry(p, v).fn]
  BY DEF WordsKept
<1>1. WordsInv
  BY DEF KeptInv
<1> QED
  BY <1>1, PageTypes DEF WordsInv

\* With swapping, with TLB or without, under every policy but RANDOM and for all
\* sizes, as long as the disk has a frame for the victim: the tags of the frames are
\* the page tables read backwards, until a page is swapped in to a frame that is not
\* its own (MMU of memory.c).
THEOREM TagsStayInverse ==
  ASSUME MinFree # 0, set_replacement # RANDOM
  PROVE  Spec /\ []DiskFree => []TagsInvertTables
<1>1. TypeInv /\ KeptInv => TagsInvertTables
  BY KeptTags
<1> QED
  BY <1>1, TypeInvariance, KeptInvariance, PTL

\* Under the same hypotheses, and without TLB, no word is lost: it is in the frame
\* that the tables give for its page, in memory or on the disk (copy_page of memory.c).
THEOREM NoWordIsLost ==
  ASSUME MinFree # 0, set_replacement # RANDOM, ~UseTlb
  PROVE  Spec /\ []DiskFree => []WordsKept
<1>1. TypeInv /\ KeptInv => WordsKept
  BY KeptWords
<1> QED
  BY <1>1, TypeInvariance, KeptInvariance, PTL

\* The disk frames taken are fewer than the pages while one is in memory.
LEMMA DiskSuffices ==
  ASSUME MinFree # 0, Cardinality(TagSet) <= NDisk, TypeInv, FrameInv, CountInv, KeptInv
  PROVE  DiskFree
<1> SUFFICES ASSUME pc = "victim", ~misplaced, FreeIn(disk_ffl) = {} PROVE FALSE
  BY DEF DiskFree
<1>1. Placed /\ OnDiskApart
  BY DEF KeptInv
<1>2. PICK p0 \in Procs, v0 \in Pages : Resident(p0, v0)
  <2>1. 0 \in Frames /\ memory_ffl[0] # FREE
    BY OnlyHighFree, LowFrames DEF FreeIn, TypeInv, StoreOK
  <2>2. PICK p \in Procs, v \in Pages : memory_ffl[0] = [proc |-> p, page |-> v]
    BY <2>1, TagTypes
  <2> QED
    BY <1>1, <2>1, <2>2 DEF Placed
<1> DEFINE t0 == [proc |-> p0, page |-> v0]
           others == TagSet \ {t0}
           Holds(d, t) == OnDisk(t.proc, t.page) /\ Entry(t.proc, t.page).fn = d
           page == [d \in DiskFrames |-> CHOOSE t \in others : Holds(d, t)]
<1>3. \A d \in DiskFrames : page[d] \in others /\ Holds(d, page[d])
  <2> SUFFICES ASSUME NEW d \in DiskFrames PROVE \E t \in others : Holds(d, t)
    OBVIOUS
  <2>1. disk_ffl[d] # FREE
    BY DEF FreeIn, TypeInv, StoreOK
  <2>2. PICK p \in Procs, v \in Pages : OnDisk(p, v) /\ Entry(p, v).fn = d
    BY <1>1, <2>1 DEF OnDiskApart
  <2>3. ~(p = p0 /\ v = v0)
    BY <1>2, <2>2 DEF Resident, OnDisk
  <2>4. PICK t \in TagSet : t = [proc |-> p, page |-> v]
    BY PageTypes
  <2>5. t.proc = p /\ t.page = v /\ t0.proc = p0 /\ t0.page = v0
    BY <2>4
  <2> QED
    BY <2>2, <2>3, <2>5
<1>4. \A d, e \in DiskFrames : page[d] = page[e] => d = e
  BY <1>3
<1> HIDE DEF page
<1>5. page \in Injection(DiskFrames, others)
  <2>1. page \in [DiskFrames -> others]
    BY <1>3 DEF page
  <2> QED
    BY <1>4, <2>1 DEF Injection, IsInjective
<1>6. t0 \in TagSet /\ IsFiniteSet(others) /\ Cardinality(others) = Cardinality(TagSet) - 1
  BY Finite, PageTypes, FS_RemoveElement
<1>7. Cardinality(DiskFrames) <= Cardinality(others)
  BY <1>5, <1>6, FS_Injection
<1>8. Cardinality(DiskFrames) = NDisk
  BY Ranges, FS_Interval DEF DiskFrames
<1> QED
  BY <1>6, <1>7, <1>8, Finite, Ranges

\* A disk with a frame for every page of every process is never full when a page is
\* swapped out, so that no hypothesis on the behaviour is left (search_frame with
\* disk_ffl, memory.c).
THEOREM DiskNeverFull ==
  ASSUME MinFree # 0, set_replacement # RANDOM, Cardinality(TagSet) <= NDisk
  PROVE  Spec => []DiskFree
<1>1. Init => KeptInv
  BY InitKept
<1>2. TypeInv /\ FrameInv /\ CountInv /\ KeptInv => DiskFree
  BY DiskSuffices
<1>3. TypeInv /\ FrameInv /\ CountInv /\ KeptInv /\ [Next]_vars => KeptInv'
  BY <1>2, StepKept
<1> QED
  BY <1>1, <1>2, <1>3, TypeInvariance, FrameInvariance, CountInvariance, PTL DEF Spec

-----------------------------------------------------------------------------
(* LRU *)

\* The counter of a frame in use is the time of the last access to its page.
UseInv ==
  ~misplaced =>
    \A p \in Procs, v \in Pages :
      Resident(p, v) /\ ~(pc = "perform" /\ p = idx /\ v = va) =>
        usage[Entry(p, v).fn] = lastUse[p][v]

LEMMA InitUse == Init => UseInv
<1> SUFFICES ASSUME Init PROVE UseInv
  OBVIOUS
<1>1. \A p \in Procs, i \in 0..(Level1 - 1) : ~ptbl1[p][i].valid
  BY DEF Init
<1>2. \A p \in Procs, v \in Pages : ~Resident(p, v)
  BY <1>1 DEF Resident, IsMapped, Pages
<1> QED
  BY <1>2 DEF UseInv

\* The scan of search_lru ends with a frame whose counter is the least of all in use.
LEMMA ScannedLeast ==
  ASSUME MinFree # 0, set_replacement = LRU, TypeInv, FrameInv, CountInv, pc = "victim"
  PROVE  \A g \in InUse : usage[Scanned] <= usage[g]
<1> DEFINE better == {f \in InUse : Better(f, 0)}
           best == {f \in better : \A g \in better : ~Better(g, f)}
<1>1. \A f, g \in Frames : Better(f, g) <=> usage[f] < usage[g]
  BY DEF Better, LRU, MFU
<1>2. InUse \subseteq Frames /\ 0 \in Frames /\ \A f \in Frames : usage[f] \in Nat
  BY Ranges DEF InUse, TypeInv, PolicyOK
<1>3. \A f \in InUse : f \in better <=> usage[f] < usage[0]
  BY <1>1, <1>2
<1>4. \A f \in better : f \in InUse
  OBVIOUS
<1>5. \A f \in better : f \in best <=> \A g \in better : ~(usage[g] < usage[f])
  BY <1>1, <1>2, <1>4
<1>6. \A f \in best : f \in better
  OBVIOUS
<1>7. Scanned = IF best = {} THEN 0 ELSE Least(best)
  BY DEF Scanned
<1> HIDE DEF better, best
<1>8. CASE better = {}
  <2>1. Scanned = 0
    BY <1>6, <1>7, <1>8
  <2>2. ASSUME NEW g \in InUse PROVE usage[0] <= usage[g]
    <3>1. ~(usage[g] < usage[0])
      BY <1>3, <1>8
    <3> QED
      BY <1>2, <3>1
  <2> QED
    BY <2>1, <2>2
<1>9. CASE better # {}
  <2> DEFINE times == {usage[f] : f \in better}
  <2>1. times \subseteq Nat /\ times # {}
    BY <1>2, <1>4, <1>9
  <2>2. Least(times) \in times /\ \A y \in times : Least(times) <= y
    BY <2>1, LeastExists
  <2>3. PICK b \in better : usage[b] = Least(times)
    BY <2>2
  <2>4. \A g \in better : usage[b] <= usage[g]
    BY <2>2, <2>3
  <2>5. b \in best
    BY <1>2, <1>4, <1>5, <2>3, <2>4
  <2>6. best \subseteq Nat
    <3>1. \A f \in best : f \in Frames
      BY <1>2, <1>4, <1>6
    <3> QED
      BY <3>1 DEF Frames
  <2>7. Scanned \in best
    BY <1>7, <2>5, <2>6, LeastExists
  <2>8. Scanned \in better /\ Scanned \in Frames /\ usage[Scanned] < usage[0]
    BY <1>2, <1>3, <1>4, <1>6, <2>7
  <2>9. ASSUME NEW g \in InUse PROVE usage[Scanned] <= usage[g]
    <3>1. CASE g \in better
      <4>1. ~(usage[g] < usage[Scanned])
        BY <1>5, <2>7, <2>8, <3>1
      <4> QED
        BY <1>2, <2>8, <4>1
    <3>2. CASE g \notin better
      <4>1. ~(usage[g] < usage[0])
        BY <1>3, <3>2
      <4> QED
        BY <1>2, <2>8, <4>1
    <3> QED
      BY <3>1, <3>2
  <2> QED
    BY <2>9
<1> QED
  BY <1>8, <1>9

\* Steps after which no page is in memory that was not, the one looked up aside.
LEMMA SameUse ==
  ASSUME UseInv, ~misplaced, pc # "perform", UNCHANGED <<usage, lastUse>>,
         \A p \in Procs, v \in Pages :
           Resident(p, v)' /\ ~(pc' = "perform" /\ p = idx' /\ v = va') =>
             Resident(p, v) /\ Entry(p, v)' = Entry(p, v)
  PROVE  UseInv'
<1>1. ASSUME NEW p \in Procs, NEW v \in Pages,
             Resident(p, v)' /\ ~(pc' = "perform" /\ p = idx' /\ v = va')
      PROVE  usage'[Entry(p, v)'.fn] = lastUse'[p][v]
  <2>1. Resident(p, v) /\ Entry(p, v)' = Entry(p, v)
    BY <1>1
  <2> QED
    BY <2>1 DEF UseInv
<1> QED
  BY <1>1 DEF UseInv

\* The page accessed and its frame are stamped with the time.
LEMMA PerformUse ==
  ASSUME set_replacement = LRU, ~UseTlb, TypeInv, KeptInv, UseInv, Perform
  PROVE  UseInv'
<1> SUFFICES ASSUME ~misplaced PROVE UseInv'
  BY DEF UseInv, Perform
<1>1. Placed /\ Resident(idx, va) /\ fn = Entry(idx, va).fn
  BY DEF KeptInv, FoundResident, Perform
<1>2. /\ usage' = [usage EXCEPT ![fn] = time]
      /\ lastUse' = [lastUse EXCEPT ![idx][va] = time]
      /\ pc = "perform" /\ pc' # "perform"
      /\ UNCHANGED <<ptbl1, ptbl2>>
  <2>1. set_replacement \notin {LFU, MFU}
    BY DEF LRU, LFU, MFU
  <2>2. usage' = [usage EXCEPT ![fn] = time]
    BY <2>1 DEF Perform, Touch
  <2> QED
    BY <2>2 DEF Perform, maps
<1>3. idx \in Procs /\ va \in Pages /\ fn \in Frames
  BY LookupTypes DEF TypeInv, CallOK
<1>4. /\ \A f \in Frames : usage'[f] = IF f = fn THEN time ELSE usage[f]
      /\ \A p \in Procs, v \in Pages :
           lastUse'[p][v] = IF p = idx /\ v = va THEN time ELSE lastUse[p][v]
  BY <1>2, <1>3 DEF TypeInv, PolicyOK, HistoryOK
<1>5. ASSUME NEW p \in Procs, NEW v \in Pages, Resident(p, v)
      PROVE  usage'[Entry(p, v).fn] = lastUse'[p][v]
  <2>1. Entry(p, v).fn \in Frames
    BY <1>5, PageTypes
  <2>2. CASE p = idx /\ v = va
    BY <1>1, <1>3, <1>4, <2>2
  <2>3. CASE ~(p = idx /\ v = va)
    <3>1. Entry(p, v).fn # fn
      <4> SUFFICES ASSUME Entry(p, v).fn = fn PROVE FALSE
        OBVIOUS
      <4>1. [proc |-> p, page |-> v] = [proc |-> idx, page |-> va]
        BY <1>1, <1>3, <1>5 DEF Placed
      <4>2. [proc |-> p, page |-> v].proc = [proc |-> idx, page |-> va].proc
            /\ [proc |-> p, page |-> v].page = [proc |-> idx, page |-> va].page
        BY <4>1
      <4> QED
        BY <2>3, <4>2
    <3> QED
      BY <1>4, <1>5, <2>1, <2>3, <3>1 DEF UseInv
  <2> QED
    BY <2>2, <2>3
<1>6. \A p \in Procs, v \in Pages :
        (Resident(p, v)' <=> Resident(p, v)) /\ Entry(p, v)' = Entry(p, v)
  BY <1>2, SameEntries
<1> QED
  BY <1>5, <1>6 DEF UseInv

\* Nothing is put back in place.
LEMMA StaysMisplaced ==
  ASSUME misplaced, [Next]_vars
  PROVE  misplaced'
<1>1. ASSUME UNCHANGED misplaced PROVE misplaced'
  BY <1>1
<1>2. CASE SwapIn
  BY <1>2 DEF SwapIn
<1>3. CASE \/ \E p \in Procs : Call(p)
           \/ \E v \in Pages : NextAddress(v)
  BY <1>1, <1>3 DEF Call, NextAddress, history
<1>4. CASE \/ \E f \in Frames : SwapOutScanned(f)
           \/ SwapOutQueued
  BY <1>1, <1>4 DEF SwapOutScanned, SwapOutQueued, SwapOut
<1>5. CASE SecondChance \/ NoVictim \/ TlbHit \/ Level1Fault
  BY <1>1, <1>5 DEF SecondChance, NoVictim, TlbHit, Level1Fault, history
<1>6. CASE Level2Fault \/ Level2Hit \/ Perform
  BY <1>1, <1>6 DEF Level2Fault, Level2Hit, Perform, history
<1>7. CASE UNCHANGED vars
  BY <1>1, <1>7 DEF vars, history
<1> QED
  BY <1>2, <1>3, <1>4, <1>5, <1>6, <1>7 DEF Next

LEMMA StepUse ==
  ASSUME MinFree # 0, set_replacement = LRU, ~UseTlb,
         TypeInv, FrameInv, CountInv, KeptInv, UseInv, [Next]_vars
  PROVE  UseInv'
<1> SUFFICES ASSUME ~misplaced PROVE UseInv'
  BY StaysMisplaced DEF UseInv
<1>0. set_replacement \notin {LFU, MFU} /\ set_replacement \notin QueuePolicies
      /\ set_replacement \notin {SCA, ESCA}
  BY DEF LRU, LFU, MFU, FIFO, SCA, ESCA, QueuePolicies
<1>1. ASSUME pc # "perform", UNCHANGED <<usage, lastUse, ptbl1, ptbl2>>
      PROVE  UseInv'
  <2>1. \A p \in Procs, v \in Pages :
          (Resident(p, v)' <=> Resident(p, v)) /\ Entry(p, v)' = Entry(p, v)
    BY <1>1, SameEntries
  <2> QED
    BY <1>1, <2>1, SameUse
<1>2. ASSUME NEW p \in Procs, Call(p)
      PROVE  UseInv'
  BY <1>1, <1>2 DEF Call, maps, policy, history
<1>3. ASSUME NEW v \in Pages, NextAddress(v)
      PROVE  UseInv'
  BY <1>1, <1>3 DEF NextAddress, maps, policy, history
<1>4. ASSUME NEW f \in Frames, SwapOutScanned(f)
      PROVE  UseInv'
  <2>1. /\ pc = "victim" /\ f = Scanned /\ SwapOut(f) /\ usage' = usage
        /\ lastUse' = lastUse /\ pc' = "lookup" /\ ptbl1' = ptbl1
    BY <1>0, <1>4 DEF SwapOutScanned, SwapOut, Victims, LRU, RANDOM
  <2>2. memory_ffl[f] # FREE
    BY <2>1, ScannedLow DEF InUse, FreeIn, TypeInv, StoreOK
  <2>3. PICK p0 \in Procs, v0 \in Pages : memory_ffl[f] = [proc |-> p0, page |-> v0]
    BY <2>2, TagTypes
  <2>4. Resident(p0, v0) /\ IsMapped(p0, v0)
    BY <2>3 DEF KeptInv, Placed, Resident
  <2>5. PICK d \in DiskFrames : MarkSwapped([proc |-> p0, page |-> v0], d)
    BY <2>1, <2>2, <2>3, LookupTypes DEF SwapOut, Tags
  <2>6. /\ OnDisk(p0, v0)'
        /\ \A p \in Procs, v \in Pages : ~(p = p0 /\ v = v0) =>
             /\ IsMapped(p, v)' <=> IsMapped(p, v)
             /\ IsMapped(p, v) => Entry(p, v)' = Entry(p, v)
    BY <2>1, <2>4, <2>5, SwappedEntries
  <2>7. \A p \in Procs, v \in Pages :
          Resident(p, v)' => Resident(p, v) /\ Entry(p, v)' = Entry(p, v)
    BY <2>6 DEF Resident, OnDisk
  <2> QED
    BY <2>1, <2>7, SameUse
<1>5. CASE SwapOutQueued \/ SecondChance \/ NoVictim
  BY <1>0, <1>5 DEF SwapOutQueued, SecondChance, NoVictim
<1>6. CASE TlbHit
  BY <1>6 DEF TlbHit, TlbHolds
<1>7. CASE Level1Fault
  <2>1. pc = "lookup" /\ UNCHANGED <<usage, lastUse>>
    BY <1>7 DEF Level1Fault, policy, history
  <2>2. \A p \in Procs, v \in Pages :
          Resident(p, v)' => Resident(p, v) /\ Entry(p, v)' = Entry(p, v)
    BY <1>7, Level1Entries DEF Resident
  <2> QED
    BY <2>1, <2>2, SameUse
<1>8. CASE Level2Fault \/ SwapIn
  <2>1. /\ pc = "lookup" /\ pc' = "perform" /\ UNCHANGED <<usage, lastUse, ptbl1, idx, va>>
        /\ MapTo(fn') /\ Mapped1 /\ fn' = search_frame(memory_ffl)
    BY <1>8 DEF Level2Fault, SwapIn, AtLevel2, policy, call, history
  <2>2. PICK f \in Frames : f = fn'
    BY <2>1, LookupTypes
  <2>3. \A p \in Procs, v \in Pages : ~(p = idx /\ v = va) =>
          /\ Resident(p, v)' <=> Resident(p, v)
          /\ IsMapped(p, v) => Entry(p, v)' = Entry(p, v)
    BY <2>1, <2>2, MappedPages
  <2>4. \A p \in Procs, v \in Pages : ~(p = idx /\ v = va) =>
          (Resident(p, v)' => Resident(p, v) /\ Entry(p, v)' = Entry(p, v))
    BY <2>3 DEF Resident
  <2> QED
    BY <2>1, <2>4, SameUse
<1>9. CASE Level2Hit
  BY <1>1, <1>9 DEF Level2Hit, AtLevel2, policy, history
<1>10. CASE Perform
  BY <1>10, PerformUse
<1>11. CASE UNCHANGED vars
  <2>1. UNCHANGED <<usage, lastUse, ptbl1, ptbl2, pc, idx, va>>
    BY <1>11 DEF vars, policy, history, maps, call
  <2>2. \A p \in Procs, v \in Pages :
          (Resident(p, v)' <=> Resident(p, v)) /\ Entry(p, v)' = Entry(p, v)
    BY <2>1, SameEntries
  <2> QED
    BY <2>1, <2>2 DEF UseInv
<1> QED
  BY <1>2, <1>3, <1>4, <1>5, <1>6, <1>7, <1>8, <1>9, <1>10, <1>11 DEF Next

\* A page swapped out under LRU was accessed no later than any other in memory.
LEMMA VictimLeastRecent ==
  ASSUME MinFree # 0, set_replacement = LRU, ~UseTlb,
         TypeInv, FrameInv, CountInv, KeptInv, UseInv, [Next]_vars
  PROVE  LeastRecentEvicted
<1> SUFFICES ASSUME pc = "victim", pc' = "lookup", ~misplaced,
                    NEW p \in Procs, NEW v \in Pages, Resident(p, v)
             PROVE  lastUse[memory_ffl[swap_pn'].proc][memory_ffl[swap_pn'].page]
                      <= lastUse[p][v]
  BY DEF LeastRecentEvicted
<1>0. Placed
  BY DEF KeptInv
<1>1. PICK f \in Frames : SwapOutScanned(f)
  <2>1. set_replacement \notin QueuePolicies
    BY DEF LRU, FIFO, SCA, ESCA, QueuePolicies
  <2>2. /\ \A q \in Procs : ~Call(q)
        /\ \A w \in Pages : ~NextAddress(w)
        /\ ~SecondChance /\ ~SwapOutQueued /\ ~NoVictim /\ ~TlbHit /\ ~Level1Fault
        /\ ~Level2Fault /\ ~SwapIn /\ ~Level2Hit /\ ~Perform /\ ~UNCHANGED vars
    BY <2>1 DEF Call, NextAddress, SecondChance, SwapOutQueued, NoVictim, TlbHit, Level1Fault,
                Level2Fault, SwapIn, Level2Hit, AtLevel2, Perform, vars
  <2> QED
    BY <2>2 DEF Next
<1>2. f = Scanned /\ swap_pn' = f
  BY <1>1 DEF SwapOutScanned, SwapOut, Victims, LRU, RANDOM
<1>3. f \in InUse /\ memory_ffl[f] # FREE
  BY <1>2, ScannedLow DEF InUse, FreeIn, TypeInv, StoreOK
<1>4. PICK p0 \in Procs, v0 \in Pages : memory_ffl[f] = [proc |-> p0, page |-> v0]
  BY <1>3, TagTypes
<1>5. memory_ffl[f].proc = p0 /\ memory_ffl[f].page = v0
  BY <1>4
<1>6. Resident(p0, v0) /\ Entry(p0, v0).fn = f
  BY <1>0, <1>4 DEF Placed
<1>7. PICK g \in Frames : g = Entry(p, v).fn
  BY PageTypes
<1>8. g \in InUse
  <2>1. memory_ffl[g] = [proc |-> p, page |-> v]
    BY <1>0, <1>7 DEF Placed
  <2>2. [proc |-> p, page |-> v] # FREE
    BY PageTypes, Ranges
  <2> QED
    BY <2>1, <2>2 DEF InUse, FreeIn
<1>9. usage[f] <= usage[g]
  BY <1>2, <1>8, ScannedLeast
<1>10. usage[f] = lastUse[p0][v0] /\ usage[g] = lastUse[p][v]
  BY <1>6, <1>7 DEF UseInv
<1> QED
  BY <1>2, <1>5, <1>9, <1>10

\* The victim of LRU is, among the pages in memory, one that was accessed no later
\* than any other, for all sizes, as long as the disk has a frame for it and no page
\* was swapped in to a frame that is not its own (search_lru of memory.c).
THEOREM LruEvictsOldest ==
  ASSUME MinFree # 0, set_replacement = LRU, ~UseTlb
  PROVE  Spec /\ []DiskFree => LeastRecentlyUsed
<1>0. set_replacement # RANDOM
  BY DEF LRU, RANDOM
<1>1. Init => UseInv
  BY InitUse
<1>2. TypeInv /\ FrameInv /\ CountInv /\ KeptInv /\ UseInv /\ [Next]_vars => UseInv'
  BY StepUse
<1>3. TypeInv /\ FrameInv /\ CountInv /\ KeptInv /\ UseInv /\ [Next]_vars => LeastRecentEvicted
  BY VictimLeastRecent
<1>4. Spec /\ []DiskFree => []KeptInv
  BY <1>0, KeptInvariance
<1>5. Spec => []TypeInv /\ []FrameInv /\ []CountInv
  BY <1>0, TypeInvariance, FrameInvariance, CountInvariance, PTL
<1> QED
  BY <1>1, <1>2, <1>3, <1>4, <1>5, PTL DEF Spec, LeastRecentlyUsed
=============================================================================
