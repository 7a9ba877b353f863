--------------------------------- MODULE MMU ---------------------------------
(***************************************************************************)
(* The memory management unit of                                           *)
(* src/proj2-virtual memory/virtual_memory/memory.c.                       *)
(*                                                                         *)
(* The parent calls MMU once for each unit of a cpu burst, with a batch of *)
(* addresses of one process.  For each address it swaps a page out when    *)
(* few frames are free, looks the page up in the TLB or in two levels of   *)
(* page tables, allocates a frame or swaps the page in, and reads or       *)
(* writes the word.  Each of these steps is an action here.                *)
(*                                                                         *)
(* One word stands for the 256 of a page; a word that has been written is  *)
(* labelled with who wrote it where the code stores the time.  Frames,     *)
(* disk frames and tables are numbered from 0, as in the code.             *)
(***************************************************************************)
EXTENDS QueueOps

CONSTANTS NProcs,         \* processes (10)
          Level1, Level2, \* entries of a page table (64 and 64)
          NFrames,        \* frames of the memory (0x1000)
          NDisk,          \* frames of the disk (0x1000)
          MinFree,        \* with fewer free frames a page is swapped out (0x100)
          BATCH,          \* addresses of one call (10)
          set_replacement,
          UseTlb,         \* tlb_size # 0
          TlbReach,       \* pages that share a TLB entry: 2^(12 - tlb_size)
          ProgramFrames,  \* frames memory_init fills from input4.bin
          BLANK, PROGRAM, \* words: high bit clear; high bit set in input4.bin
          FREE,           \* entry 0 of a free-frame list
          MaxCalls        \* bound on the calls of MMU

RANDOM == 1
FIFO == 2
LRU == 3
LFU == 4
MFU == 5
SCA == 6
ESCA == 7

Policies == RANDOM..ESCA
QueuePolicies == {FIFO, SCA, ESCA}

ASSUME MMUAssumption ==
  /\ NProcs \in Nat \ {0}
  /\ Level1 \in Nat \ {0} /\ Level2 \in Nat \ {0}
  /\ NFrames \in Nat \ {0} /\ NDisk \in Nat \ {0}
  /\ MinFree \in 0..NFrames
  /\ BATCH \in Nat \ {0}
  /\ set_replacement \in Policies
  /\ UseTlb \in BOOLEAN
  /\ TlbReach \in Nat \ {0}
  /\ ProgramFrames \in 0..NFrames
  /\ MaxCalls \in Nat

Procs == 0..(NProcs - 1)
Pages == (0..(Level1 - 1)) \X (0..(Level2 - 1))
Frames == 0..(NFrames - 1)
DiskFrames == 0..(NDisk - 1)
Tables == 0..(NProcs * Level1 - 1)

\* A free entry is not a tag, and words that nobody wrote are told from the others.
ASSUME MMUWords ==
  /\ FREE \notin [proc : Procs, page : Pages]
  /\ PROGRAM # BLANK
  /\ {BLANK, PROGRAM} \cap (Procs \X Pages) = {}

VARIABLES
  memory, disk,            \* a word per frame
  memory_ffl, disk_ffl,    \* free-frame lists; the memory's name the page
  memory_ffl_size,
  ptbl1,                   \* ptbl1[p][pn1] = [tn, valid]
  ptbl2,                   \* ptbl2[t][pn2] = [fn, valid, present]
  tables,                  \* number of level 2 tables taken, the state bits
  tlb,                     \* tlb[i] = [key, value, valid]
  usage,                   \* lru, lfu or mfu, whichever the policy reads
  fifo,                    \* queue of [fn, chances]
  pc, time,                \* next step of MMU; number of the call
  idx, left, va,           \* process, addresses left, page of the current one
  swap_pn, fn,             \* locals of MMU
  access,                  \* history: the last access
  known,                   \* history: what each process last saw in each page
  lastUse,                 \* history: time of the last access to each page
  evicted,                 \* history: free-frame entry of the last victim
  misplaced                \* history: a page was swapped in to another's frame

store == <<memory, disk, memory_ffl, disk_ffl, memory_ffl_size>>
maps == <<ptbl1, ptbl2, tables, tlb>>
policy == <<usage, fifo>>
call == <<time, idx, left>>
history == <<access, known, lastUse, evicted, misplaced>>
vars == <<store, maps, policy, pc, call, va, swap_pn, fn, history>>

-----------------------------------------------------------------------------
(* Free frames *)

\* The tags of an entry: page and process.  An entry that is free, or that was
\* set to 1 and nothing more, reads as page 0, 0 of process 0.
Bare == [proc |-> 0, page |-> <<0, 0>>]
Tags(entry) == IF entry = FREE THEN Bare ELSE entry

FreeIn(ffl) == {f \in DOMAIN ffl : ffl[f] = FREE}

Least(S) == CHOOSE x \in S : \A y \in S : x <= y

\* search_frame: the first free frame; 0 when there is none (for the memory
\* FrameWhenNeeded says that there is one).
search_frame(ffl) == IF FreeIn(ffl) = {} THEN 0 ELSE Least(FreeIn(ffl))

-----------------------------------------------------------------------------
(* Replacement policies that look at every frame *)

\* A bug to be caught: the state bit of a frame is not looked at.
InUse_all == Frames

InUse == Frames \ FreeIn(memory_ffl)

\* A bug to be caught: the most recent one.
Better_reversed(f, g) == usage[f] > usage[g]

\* search_lru and search_lfu keep the smallest, search_mfu the largest.
Better(f, g) ==
  IF set_replacement = MFU THEN usage[f] > usage[g] ELSE usage[f] < usage[g]

\* They start from frame 0, whether it is in use or not, and replace it by a
\* frame in use that is strictly better.
Scanned ==
  LET better == {f \in InUse : Better(f, 0)}
      best == {f \in better : \A g \in better : ~Better(g, f)}
  IN  IF best = {} THEN 0 ELSE Least(best)

Victims == IF set_replacement = RANDOM THEN Frames ELSE {Scanned}

-----------------------------------------------------------------------------
Init ==
  /\ memory \in {m \in [Frames -> {BLANK, PROGRAM}] :
                   \A f \in Frames : f >= ProgramFrames => m[f] = BLANK}
  /\ disk = [d \in DiskFrames |-> BLANK]
  /\ memory_ffl = [f \in Frames |-> FREE]
  /\ disk_ffl = [d \in DiskFrames |-> FREE]
  /\ memory_ffl_size = NFrames
  /\ ptbl1 = [p \in Procs |-> [i \in 0..(Level1 - 1) |-> [tn |-> 0, valid |-> FALSE]]]
  /\ ptbl2 = [t \in Tables |-> [j \in 0..(Level2 - 1) |->
                                  [fn |-> 0, valid |-> FALSE, present |-> FALSE]]]
  /\ tables = 0
  /\ tlb = [i \in 0..((Level1 * Level2 - 1) \div TlbReach) |->
              [key |-> 0, value |-> 0, valid |-> FALSE]]
  /\ usage = [f \in Frames |-> 0]
  /\ fifo = createQueue
  /\ pc = "idle"
  /\ time = 0
  /\ idx = 0
  /\ left = 0
  /\ va = <<0, 0>>
  /\ swap_pn = 0
  /\ fn = 0
  /\ access = [proc |-> BLANK, page |-> BLANK, wrote |-> FALSE, word |-> BLANK]
  /\ known = [p \in Procs |-> [v \in Pages |-> BLANK]]
  /\ lastUse = [p \in Procs |-> [v \in Pages |-> 0]]
  /\ evicted = Bare
  /\ misplaced = FALSE

\* A signal handler calls MMU with the addresses of process p.
Call(p) ==
  /\ pc = "idle"
  /\ time < MaxCalls
  /\ pc' = "access"
  /\ time' = time + 1
  /\ idx' = p
  /\ left' = BATCH
  /\ swap_pn' = 0
  /\ UNCHANGED <<store, maps, policy, va, fn, history>>

\* The next address of the batch.  Enough frames are free, or a victim is sought.
NextAddress(v) ==
  /\ pc = "access"
  /\ va' = v
  /\ pc' = IF memory_ffl_size < MinFree THEN "victim" ELSE "lookup"
  /\ UNCHANGED <<store, maps, policy, call, swap_pn, fn, history>>

-----------------------------------------------------------------------------
(* Swap out *)

TableOf(tags) == ptbl1[tags.proc][tags.page[1]].tn

\* A bug to be caught: the page table is not told where the page went.
MarkSwapped_nowhere(tags, d) ==
  ptbl2' = [ptbl2 EXCEPT ![TableOf(tags)][tags.page[2]].present = TRUE]

\* The page table entry of the victim says: on disk, at d.
MarkSwapped(tags, d) ==
  ptbl2' = [ptbl2 EXCEPT ![TableOf(tags)][tags.page[2]].present = TRUE,
                         ![TableOf(tags)][tags.page[2]].fn = d]

\* The page in frame f goes to the first free frame of the disk, whatever f is.
SwapOut(f) ==
  /\ swap_pn' = f
  /\ evicted' = memory_ffl[f]
  /\ LET d == search_frame(disk_ffl)
     IN  /\ MarkSwapped(Tags(memory_ffl[f]), d)
         /\ disk' = [disk EXCEPT ![d] = memory[f]]
         /\ disk_ffl' = [disk_ffl EXCEPT ![d] = Bare]
  /\ memory' = [memory EXCEPT ![f] = BLANK]
  /\ memory_ffl' = [memory_ffl EXCEPT ![f] = FREE]
  /\ memory_ffl_size' = memory_ffl_size + 1
  /\ pc' = "lookup"
  /\ UNCHANGED <<ptbl1, tables, tlb, call, va, fn, access, known, lastUse, misplaced>>

\* search_random, search_lru, search_lfu or search_mfu; the last two reset the
\* counter of the frame they choose.
SwapOutScanned(f) ==
  /\ pc = "victim"
  /\ set_replacement \notin QueuePolicies
  /\ f \in Victims
  /\ SwapOut(f)
  /\ usage' = IF set_replacement \in {LFU, MFU} THEN [usage EXCEPT ![f] = 0] ELSE usage
  /\ UNCHANGED fifo

\* One turn of the loop of search_sca or search_esca: the node has a chance left.
SecondChance ==
  /\ pc = "victim"
  /\ set_replacement \in {SCA, ESCA}
  /\ ~DequeueFaults(fifo)
  /\ LET node == Dequeued(fifo)
     IN  /\ node # NONE
         /\ node.chances > 0
         /\ fifo' = enqueue(dequeue(fifo), [node EXCEPT !.chances = @ - 1])
  /\ UNCHANGED <<store, maps, usage, pc, call, va, swap_pn, fn, history>>

\* search_fifo, or the end of the loop of search_sca or search_esca.
SwapOutQueued ==
  /\ pc = "victim"
  /\ set_replacement \in QueuePolicies
  /\ ~DequeueFaults(fifo)
  /\ LET node == Dequeued(fifo)
     IN  /\ node # NONE
         /\ set_replacement = FIFO \/ node.chances = 0
         /\ SwapOut(node.fn)
  /\ fifo' = dequeue(fifo)
  /\ UNCHANGED usage

\* The queue says it is empty, and fn is -1, which is used as an index; or dequeue
\* follows a null pointer.  The model goes no further.
NoVictim ==
  /\ pc = "victim"
  /\ set_replacement \in QueuePolicies
  /\ DequeueFaults(fifo) \/ isEmpty(fifo)
  /\ pc' = "lost"
  /\ UNCHANGED <<store, maps, policy, call, va, swap_pn, fn, history>>

-----------------------------------------------------------------------------
(* Translation *)

\* A bug to be caught: pages that share an entry are not told apart.
PageKey_entry(v) == (v[1] * Level2 + v[2]) \div TlbReach

\* key and tlb_idx: the page number, without the process, and its high bits.
PageKey(v) == v[1] * Level2 + v[2]
TlbIndex(v) == (v[1] * Level2 + v[2]) \div TlbReach

TlbHolds(v) ==
  UseTlb /\ tlb[TlbIndex(v)].valid /\ tlb[TlbIndex(v)].key = PageKey(v)

\* A bug to be caught: the entry gets the frame of the access before.
FillTlb_early(f) ==
  tlb' = IF UseTlb
         THEN [tlb EXCEPT ![TlbIndex(va)] =
                 [key |-> PageKey(va), value |-> fn, valid |-> TRUE]]
         ELSE tlb

FillTlb(f) ==
  tlb' = IF UseTlb
         THEN [tlb EXCEPT ![TlbIndex(va)] =
                 [key |-> PageKey(va), value |-> f, valid |-> TRUE]]
         ELSE tlb

TlbHit ==
  /\ pc = "lookup"
  /\ TlbHolds(va)
  /\ fn' = tlb[TlbIndex(va)].value
  /\ pc' = "perform"
  /\ UNCHANGED <<store, maps, policy, call, va, swap_pn, history>>

Mapped1 == ptbl1[idx][va[1]].valid
Entry2 == ptbl2[ptbl1[idx][va[1]].tn][va[2]]

\* A bug to be caught: the table is not marked as taken.
Level1Fault_shared ==
  /\ pc = "lookup"
  /\ ~TlbHolds(va)
  /\ ~Mapped1
  /\ ptbl1' = [ptbl1 EXCEPT ![idx][va[1]] = [tn |-> tables, valid |-> TRUE]]
  /\ UNCHANGED <<store, ptbl2, tables, tlb, policy, pc, call, va, swap_pn, fn, history>>

\* search_table: the first level 2 table that is not taken.  There is one for
\* every entry of level 1, so one is always found.
Level1Fault ==
  /\ pc = "lookup"
  /\ ~TlbHolds(va)
  /\ ~Mapped1
  /\ ptbl1' = [ptbl1 EXCEPT ![idx][va[1]] = [tn |-> tables, valid |-> TRUE]]
  /\ tables' = tables + 1
  /\ UNCHANGED <<store, ptbl2, tlb, policy, pc, call, va, swap_pn, fn, history>>

AtLevel2 == pc = "lookup" /\ ~TlbHolds(va) /\ Mapped1

\* A bug to be caught: the process is left out of the tags.
Mine_anybody == [proc |-> 0, page |-> va]

\* The tags of the page looked up.
Mine == [proc |-> idx, page |-> va]

MapTo(f) ==
  ptbl2' = [ptbl2 EXCEPT ![ptbl1[idx][va[1]].tn][va[2]] =
              [fn |-> f, valid |-> TRUE, present |-> FALSE]]

\* The page is accessed for the first time and gets a frame.
Level2Fault ==
  /\ AtLevel2
  /\ ~Entry2.valid
  /\ fn' = search_frame(memory_ffl)
  /\ memory_ffl' = [memory_ffl EXCEPT ![fn'] = Mine]
  /\ memory_ffl_size' = memory_ffl_size - 1
  /\ MapTo(fn')
  /\ FillTlb(fn')
  /\ pc' = "perform"
  /\ UNCHANGED <<memory, disk, disk_ffl, ptbl1, tables, policy, call, va, swap_pn, history>>

\* A bug to be caught: the size of the list is not decreased.
SwapIn_uncounted ==
  /\ AtLevel2
  /\ Entry2.valid /\ Entry2.present
  /\ fn' = search_frame(memory_ffl)
  /\ LET d == Entry2.fn
     IN  /\ memory' = [memory EXCEPT ![swap_pn] = disk[d]]
         /\ disk' = [disk EXCEPT ![d] = BLANK]
         /\ disk_ffl' = [disk_ffl EXCEPT ![d] = FREE]
  /\ memory_ffl' = [memory_ffl EXCEPT ![swap_pn] = Bare, ![fn'] = Mine]
  /\ MapTo(fn')
  /\ FillTlb(fn')
  /\ misplaced' = (misplaced \/ fn' # swap_pn)
  /\ pc' = "perform"
  /\ UNCHANGED <<memory_ffl_size, ptbl1, tables, policy, call, va, swap_pn,
                 access, known, lastUse, evicted>>

\* The page is on disk.  A free frame is searched for it, and taken; the page is
\* copied to frame swap_pn, the one last swapped out by this call of MMU, or 0.
SwapIn ==
  /\ AtLevel2
  /\ Entry2.valid /\ Entry2.present
  /\ fn' = search_frame(memory_ffl)
  /\ memory_ffl_size' = memory_ffl_size - 1
  /\ LET d == Entry2.fn
     IN  /\ memory' = [memory EXCEPT ![swap_pn] = disk[d]]
         /\ disk' = [disk EXCEPT ![d] = BLANK]
         /\ disk_ffl' = [disk_ffl EXCEPT ![d] = FREE]
  /\ memory_ffl' = [memory_ffl EXCEPT ![swap_pn] = Bare, ![fn'] = Mine]
  /\ MapTo(fn')
  /\ FillTlb(fn')
  /\ misplaced' = (misplaced \/ fn' # swap_pn)
  /\ pc' = "perform"
  /\ UNCHANGED <<ptbl1, tables, policy, call, va, swap_pn, access, known, lastUse, evicted>>

Level2Hit ==
  /\ AtLevel2
  /\ Entry2.valid /\ ~Entry2.present
  /\ fn' = Entry2.fn
  /\ FillTlb(fn')
  /\ pc' = "perform"
  /\ UNCHANGED <<store, ptbl1, ptbl2, tables, policy, call, va, swap_pn, history>>

-----------------------------------------------------------------------------
(* The access *)

Owned(p, v) == <<p, v>>

Chances == IF set_replacement = FIFO THEN 0 ELSE IF set_replacement = SCA THEN 1 ELSE 3

\* The policy is told; the queue of frames is kept up only where it is read.
Touch ==
  /\ usage' = CASE set_replacement = LRU -> [usage EXCEPT ![fn] = time]
                [] set_replacement \in {LFU, MFU} -> [usage EXCEPT ![fn] = @ + 1]
                [] OTHER -> usage
  /\ fifo' = IF set_replacement \in QueuePolicies
             THEN enqueue(searchQueue(fifo, [fn : {fn}, chances : 0..3]),
                          [fn |-> fn, chances |-> Chances])
             ELSE fifo

BatchOver == left = 1

\* A word whose high bit is clear is written, any other is read.
Perform ==
  /\ pc = "perform"
  /\ Touch
  /\ LET blank == memory[fn] = BLANK
         word == IF blank THEN Owned(idx, va) ELSE memory[fn]
     IN  /\ memory' = [memory EXCEPT ![fn] = word]
         /\ access' = [proc |-> idx, page |-> va, wrote |-> blank, word |-> word]
         /\ known' = [known EXCEPT ![idx][va] = word]
  /\ lastUse' = [lastUse EXCEPT ![idx][va] = time]
  /\ left' = left - 1
  /\ pc' = IF BatchOver THEN "idle" ELSE "access"
  /\ UNCHANGED <<disk, memory_ffl, disk_ffl, memory_ffl_size, maps, time, idx, va,
                 swap_pn, fn, evicted, misplaced>>

Next ==
  \/ \E p \in Procs : Call(p)
  \/ \E v \in Pages : NextAddress(v)
  \/ \E f \in Frames : SwapOutScanned(f)
  \/ SecondChance \/ SwapOutQueued \/ NoVictim
  \/ TlbHit \/ Level1Fault \/ Level2Fault \/ SwapIn \/ Level2Hit
  \/ Perform

Spec == Init /\ [][Next]_vars

-----------------------------------------------------------------------------
(* Properties *)

Words == {BLANK, PROGRAM} \cup (Procs \X Pages)
TagSet == [proc : Procs, page : Pages]

\* Type invariant.
TypeOK ==
  /\ memory \in [Frames -> Words]
  /\ disk \in [DiskFrames -> Words]
  /\ memory_ffl \in [Frames -> TagSet \cup {FREE}]
  /\ disk_ffl \in [DiskFrames -> {Bare, FREE}]
  /\ memory_ffl_size \in Int
  /\ ptbl1 \in [Procs -> [0..(Level1 - 1) -> [tn : Tables, valid : BOOLEAN]]]
  /\ ptbl2 \in [Tables -> [0..(Level2 - 1) ->
                  [fn : Frames \cup DiskFrames, valid : BOOLEAN, present : BOOLEAN]]]
  /\ tables \in 0..(NProcs * Level1)
  /\ \A i \in DOMAIN tlb : tlb[i] \in [key : 0..(Level1 * Level2 - 1), value : Frames,
                                       valid : BOOLEAN]
  /\ usage \in [Frames -> Nat]
  /\ fifo.list \in Seq([fn : Frames, chances : 0..3])
  /\ pc \in {"idle", "access", "victim", "lookup", "perform", "lost"}
  /\ time \in 0..MaxCalls
  /\ idx \in Procs
  /\ left \in 0..BATCH
  /\ va \in Pages
  /\ swap_pn \in Frames
  /\ fn \in Frames
  /\ known \in [Procs -> [Pages -> Words]]
  /\ lastUse \in [Procs -> [Pages -> 0..MaxCalls]]
  /\ evicted \in TagSet \cup {FREE}
  /\ misplaced \in BOOLEAN

PrivateMemory == INSTANCE ProcessMemory WITH store <- known

\* A process reads from a page what it wrote there, and nothing that another
\* process wrote: kept without TLB, and with it by a single process, as long as
\* nothing is swapped.
ImplementsProcessMemory == PrivateMemory!Spec

Entry(p, v) == ptbl2[ptbl1[p][v[1]].tn][v[2]]
IsMapped(p, v) == ptbl1[p][v[1]].valid /\ Entry(p, v).valid
Resident(p, v) == IsMapped(p, v) /\ ~Entry(p, v).present

\* Swapping out and in loses no word, wherever the page has been, until a page is
\* swapped in to a frame that is not the one mapped: that step is the only one to
\* lose anything.
WordsKept ==
  ~misplaced =>
    \A p \in Procs, v \in Pages :
      known[p][v] # BLANK =>
        /\ IsMapped(p, v)
        /\ known[p][v] = IF Resident(p, v) THEN memory[Entry(p, v).fn]
                                           ELSE disk[Entry(p, v).fn]

\* The tags in the free-frame list, by which a victim is swapped out, are the
\* page tables read backwards: every page in memory is the page its frame names,
\* so no two pages share a frame.
TagsInvertTables ==
  ~misplaced =>
    /\ \A p \in Procs, v \in Pages :
         Resident(p, v) => memory_ffl[Entry(p, v).fn] = [proc |-> p, page |-> v]
    /\ \A f \in InUse : LET t == memory_ffl[f]
                        IN  Resident(t.proc, t.page) /\ Entry(t.proc, t.page).fn = f

\* memory_ffl_size, which decides on swapping, is the number of free frames, also
\* after pages have been misplaced.
FreeFramesCounted == memory_ffl_size = Cardinality(FreeIn(memory_ffl))

\* A victim is a frame in use, though the policies that look at every frame start
\* from frame 0 without looking whether it is.
VictimInUse == evicted # FREE

LeastRecentEvicted ==
  pc = "victim" /\ pc' = "lookup" /\ ~misplaced =>
    LET victim == memory_ffl[swap_pn']
    IN  \A p \in Procs, v \in Pages :
          Resident(p, v) => lastUse[victim.proc][victim.page] <= lastUse[p][v]

\* LRU evicts, among the pages in memory, one that was accessed no later than any
\* other, by the time of the calls.
LeastRecentlyUsed == [][LeastRecentEvicted]_vars

\* Every level 2 table belongs to one entry of one level 1 table, under every
\* policy and whatever else goes wrong.
TablesPrivate ==
  \A p, q \in Procs : \A i, j \in 0..(Level1 - 1) :
    ptbl1[p][i].valid /\ ptbl1[q][j].valid /\ ptbl1[p][i].tn = ptbl1[q][j].tn
      => p = q /\ i = j

\* A TLB entry gives the frame that the tables of some process give for the page:
\* kept as long as nothing is swapped, and no more than that, since an entry does
\* not know whose it is.
TlbAgrees ==
  \A i \in DOMAIN tlb :
    tlb[i].valid =>
      \E p \in Procs, v \in Pages :
        PageKey(v) = tlb[i].key /\ Resident(p, v) /\ Entry(p, v).fn = tlb[i].value

\* search_frame, whose answer for a full memory is frame 0, is never asked when
\* the memory is full: not even under RANDOM, where memory_ffl_size grows larger
\* than the number of free frames.
FrameWhenNeeded == pc = "lookup" => FreeIn(memory_ffl) # {}

\* search_fifo, search_sca and search_esca "select the page to be replaced": there
\* is one in the queue whenever one is sought.
VictimFound == pc # "lost"

\* copy_page: "swaps the pages between the memory and the disk".  A page that has
\* been swapped in is in the frame that is mapped.
SwapInRestores ==
  [][ pc = "lookup" /\ Resident(idx, va)' /\ ~Resident(idx, va) /\ IsMapped(idx, va) =>
        memory'[fn'] = disk[Entry(idx, va).fn] ]_vars
=============================================================================
