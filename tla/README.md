# TLA+ models of 2022-os-projects

Models, model-checking runs and proofs for the five C programs of this
repository. `PROJECT.json` says, definition by definition, which lines a model
stands for, and lists runs, findings, hazards and theorems. This file explains
them.

## 1. The system

Five programs, each for itself; the second and third share files by copying.

| Program | Parts | State | Operations |
|---|---|---|---|
| `src/proj1-scheduling/scheduler` | parent and children (`main.c`, `u_signal.c`), message queues (`msg.c`), PCB queue (`queue.c`), ready heap (`heap.c`) | `cur_ready`, `readyq`, `waitq`, `counter`, `run_time`, statistics; each child's `c_cpu`; pending signals, handlers in progress | fork loop, child loop, `signal_io`, `signal_fcfs`/`signal_sjf`/`signal_rr`, `signal_count`, shutdown |
| `src/hw2-multithreading/src` | `no_work_prod`, `no_work_cons` of `main.c`; `producer`, `consumer` of `prod_cons.c` | ring `line[512]`, `p_idx`, `c_idx`, semaphores `empty`, `full`, one mutex, one `FILE` | read a block, store it, take it; end of file |
| `src/proj2-virtual memory/virtual_memory` | the scheduler again, an MMU (`memory.c`), a queue with search (`queue.c`) | TLB, two levels of page tables, free-frame lists of memory and disk, replacement history | ten accesses per message, swap out, swap in, seven replacement policies |
| `src/hw1-shell/src` | command loop (`SiSH.c`), `execute.c`, history list (`list.c`), parser | saved descriptors, history list and cursor, line buffer | read a line, cd, run a command, run a pipe, complete |
| `src/proj3-file system/src` | `file_system.c`, `hash_set.c` | inode table, tree of names | mount, read a directory or file, insert and find a name |

### How the parts interact, and what is hard about it

**Scheduler.** The parent forks ten children that stop themselves. An interval
timer sends the parent SIGALRM every millisecond; `signal_count` charges the tick
to `cur_ready`, takes one unit off every process in the wait queue and sends
SIGCONT to the current child. The child burns one unit of its burst, sends
SIGUSR1, or, at the end of the burst, a message with its next bursts followed by
SIGUSR2, and stops again. The handlers of those two signals choose the next
`cur_ready`. Everything the parent does it does in signal handlers, installed
with an empty `sa_mask`: any handler may be interrupted by the other two. Signals
of a kind coalesce; a SIGCONT to a child that has not stopped yet is lost;
`msgrcv` blocks, and fails when a signal interrupts it. It is correct if no PCB
is lost or duplicated, parent and child agree on the bursts, one child runs at a
time, the algorithm chosen is the one dispatched by, the numbers printed are what
they are called, and the program ends.

**Word count.** Producers wait for `empty`, lock, read the next block, store it
at `p_idx`, unlock, post `full`; consumers mirror them. The end of the file is a
NULL left at `p_idx`, and a token of `full` each consumer returns before it ends.
It is correct if every block is taken once and in order, nobody ends early, and
everybody ends.

**Virtual memory.** The scheduler above, with a second message for each unit of a
burst: ten addresses, which the parent performs in the name of `cur_ready`. Hard:
a handler may be interrupted between the receive and the access; swap, TLB, page
tables and free-frame lists are updated in different places and must agree; the
queue of frames has an operation that unlinks from the middle. It is correct if
every batch is performed once and for its sender, a process reads what it wrote,
the frame lists describe the tables, and the victim is the one the policy names.

**Shell.** `sish_loop` reads keys, keeps the line, a cursor into the history and
the screen, duplicates stdin and stdout for each line and puts them back after
it; `execute` forks, waits, copies a pipe to a file, forks again. Hard: the order
of fork, wait and read around a pipe of bounded capacity; descriptors and the
stream stdin after every way a line can end; four accounts of one line. It is
correct if every line gives way to the next, the right program gets what the
left one wrote, a failure stops a script, the prompt reads the terminal, and the
line run is the line shown.

**File system.** Sequential, read-only. Hard: the boundaries of two nested loops
over blocks and over entries that are told apart only by position, and a tree
keyed by a hash. It is correct if every name is listed once, what is read lies in
the partition, every call ends, and a name finds the inode it was inserted with.

## 2. Modules

| Module | Models | Role |
|---|---|---|
| `HeapOps` | `heap.c` | the algorithms of the array heap, as operators and recursive functions |
| `PriorityQueue` | – | abstract: a set of PCBs, a delete returns one with the smallest burst |
| `ReadyHeap` | `heap.c` as a component | calls in any order; implements `PriorityQueue` |
| `Scheduler` | `main.c`, `u_signal.c`, `msg.c` of proj1 | extends `HeapOps`; parent, children, kernel |
| `QueueOps` | `queue.c` of proj1 and proj2 | the queue operations as operators on a list, with what `searchQueue` leaves broken |
| `TornQueue` | – | abstract: calls of the operators of `QueueOps` in any order |
| `LinkedQueue` | `queue.c` of proj1 and proj2 | pointers, one assignment per step, calls that interrupt each other; implements `TornQueue` |
| `ProcessMemory` | – | abstract: every process has pages of its own |
| `MMU` | `memory.c` | extends `QueueOps`; implements `ProcessMemory` where nothing is swapped |
| `VMScheduler` | `main.c`, `signal.c`, `msg.c` of proj2 | extends `Scheduler` with address messages and calls of MMU |
| `BlockStream` | – | abstract: a bounded FIFO queue of blocks |
| `ProdCons` | `main.c`, `prod_cons.c` of hw2 | threads, semaphores, ring; implements `BlockStream` |
| `ShellLine` | `SiSH.c`, `execute.c` | what a line is, for the next two |
| `Script` | `sish_file_mode`, `execute` | shell, child and pipe |
| `Shell` | `sish_loop` | the descriptor table, keys and ways a line ends |
| `LineEditor` | `sish_loop`, history | letters, arrows, history in memory and in its file |
| `StringList` | `list.c` | nodes, dangling `tail`, reuse of freed nodes; implements a sequence |
| `NameDictionary` | – | abstract: names and inodes, the first inode of a name stays |
| `NameTree` | `hash_set.c` | the tree; implements `NameDictionary` |
| `BlockReader` | `file_system.c` | `mount`, `read_block` |
| `HeapProofs`, `ReadyHeapProofs`, `SchedulerProofs`, `VMSchedulerProofs`, `ProdConsProofs`, `TornQueueProofs`, `LinkedQueueProofs`, `MMUProofs` | – | theorems |
| `MCScheduler`, `MCProdCons`, `MCVMScheduler`, `MCBlockReader` | – | instances for TLC of the modules they are named after |
| `MCMMU`, `MCMMUFit` | – | instances of `MMU`, with swapping and without |
| `MCStructures` | – | instances of `LinkedQueue` (twice), `ReadyHeap`, `StringList`, `NameTree` |
| `MCShell` | – | instances of `Shell` (twice), `LineEditor`, `Script` |

Several MC modules put instances side by side that have nothing to do with each
other: a variable (`part`, `chosen`, `alone`, `late`, `large`), set at the beginning
of a behaviour and never changed, says which of them takes the steps, while the
variables of the others keep their initial values. Such a run checks each instance
as a run of its own would, and its specification has the fairness of each.

An operator whose comment begins "A bug to be caught" is a broken variant of the
definition that follows it. No specification uses it; substituted for that
definition it makes a property fail, which shows that the property depends on it.

### Scheduler: state and actions

`frames` is the stack of signal handlers in progress. Each entry is a signal and
the next statement of its handler; a step is a statement of the topmost one, and
`Deliver(sig)` pushes a frame whenever a signal is pending whose handler is not
already in progress. That is what an empty `sa_mask` allows.

| Code | Actions |
|---|---|
| `main`, fork loop and start of the timer | `Fork`, `ForkFails`, `StartTimer` |
| child branch of `main`, `cmsgsnd` | `ChildStop`, `ChildBurst`, `ChildSend`, `ChildNotify` |
| timer and kernel | `Tick`, `Deliver` |
| `signal_io`, `pmsgrcv` | `IoReceive`, `IoSleep`, `IoInterrupted`, `IoRequeue`, `IoDispatch` |
| `signal_fcfs`, `signal_sjf`, `signal_rr` | `BurstStep`, `BurstRequeue`, `BurstDispatch` |
| `signal_count` | `CountAccount`, `CountIo`, `CountIoDone`, `CountCont`, `CountTimer` |
| shutdown in `signal_count` | `ShutdownStart`, `ShutdownRmid`, `ShutdownKill`, `ShutdownExit` |
| a null `cur_ready` followed | `Segfault` |

Abstractions, and why they lose nothing the properties see:

* Bursts are drawn once at the start, as in the code; all values are tried.
* `enqueue`, `dequeue`, `insertHeap`, `deleteHeap` are not interrupted halfway.
  (`LinkedQueue` interrupts the first two if its `MaxDepth` is 2; see section 5.)
  Statements that touch no shared state are merged with a neighbour.
* The algorithm, `argv[1]`, is the variable `set_scheduler`, which takes any value of
  the constant `Schedulers` and keeps it.
* `msgget` and the following `msgsnd` or `msgrcv` are one step.
* Children act only while the parent lives; what they do to a dead parent is not
  seen by anything.
* With the idle node, `service_time[-1]` is incremented. The arrays are tentative
  definitions; in the build (`gcc -fcommon`, checked with `nm`) that word is
  alignment padding, so the step changes nothing. Its `cpu_burst` is -1 and never
  1, so the statistics are not touched either.
* `dump_data` dequeues and enqueues the whole wait queue: an identity.
* Under the constant `InTime` a tick is sent only when the previous one has been
  dealt with. A millisecond is ample for the few system calls in between, and it
  is the condition under which the program was run; with `InTime = FALSE` ticks
  come at any time.

### ProdCons: state and actions

`pc` is each thread's next statement. `Lock`, `WaitEmpty`, `Read`, `Store`,
`UnlockProducer`, `PostFull` are the statements of a producer, `Lock`,
`WaitFull`, `Take`, `UnlockConsumer`, `RepostFull`, `PostEmpty` of a consumer.
`producer` and `consumer` of `prod_cons.c` run the same protocol and add only
work on private data. A block is its number; an uninitialised slot holds NULL or
`Garbage`, as `malloc` may leave either. `taken` is a history variable.

### LinkedQueue: state and actions

`calls` is the stack of calls in progress, each with its statement. `CallEnqueue`
to `EnqueueCount` and `CallDequeue` to `DequeueFree` are the assignments of the
two operations in their order; `Search` is `searchQueue`, which only the MMU
calls and which is never interrupted by another call of the MMU; `Remove` is
`removeQueue`. `malloc` may return any node that is not in use, at once the one
just freed.

### MMU: state and actions

| Code of `MMU` | Actions |
|---|---|
| the call; the next address of the batch | `Call`, `NextAddress` |
| swap out, with `search_random`, `search_lru`, `search_lfu`, `search_mfu` | `SwapOutScanned` |
| swap out, with `search_fifo`, `search_sca`, `search_esca` | `SecondChance`, `SwapOutQueued`, `NoVictim` |
| TLB, level 1, level 2 | `TlbHit`, `Level1Fault`, `Level2Fault`, `SwapIn`, `Level2Hit` |
| the access, and what the policy is told | `Perform` |

A page is one word; where the code stores the time, the model stores who wrote
it, so that a word of another process shows. Of the arrays `lru`, `lfu` and `mfu`
only the one the policy reads is kept, as `usage`; the queue of frames likewise.
`srand(time)` before `rand` makes draws of one second equal; the model lets each
draw be any frame. The model stops where the code would follow a null victim
(`NoVictim`). Calls of MMU are not interrupted here. Of the page tables the code
initialises 10 of 64 columns and leaves the rest as `malloc` returned them;
the model takes them as zero, which is what fresh memory holds.

### VMScheduler: state and actions

Every action of `Scheduler` is taken over, conjoined with what it does to the
queues of addresses, or replaced where proj2's handlers differ: `MemoryReceive`,
`MemorySleep` and `CallMMU` come between the count of a burst and the dispatch. A
call of MMU is one step. After `pmsgrcv_memory` for the idle node the index is -1,
and the program crashes, as in `Segfault`.

### Script: state and actions

`ReadLine` and `EndOfScript` are `sish_file_mode`; `Fork`, `WaitLeft`,
`CopyLine`, `CopyEnd`, `ForkRight`, `Wait`, `ForkFails` are `execute` in the shell,
`Exec` and `ExecFails` its two children, `Write` and `Exit` what a program does.
The shell has one child at a time. What a program writes is counted in lines.
The directory and a failing `fopen` are left out. `StickyEof` says whether the C
library remembers that the stream stdin has ended, as the C standard has it (and glibc
does since 2.28), or asks the descriptor again. `execute` reads the pipe through that
stream and never clears its end.

### Shell, LineEditor, StringList

`Shell` has the descriptor table, in which `dup` and `pipe` take the lowest free
number, and what the shell's stdin is: `Type` and `Tab` are keys, `Skip`, `Quit`,
`Execute` the ways a line ends, `PipeDone` and its neighbours the ways `execute`
ends. `StickyEof` decides whether `getch` reads on after the end of a pipe; for the
descriptor table a library that forgets is the general case, since one that remembers
only takes keys away. `MaxFds` is 10 for the system's 1024.

`LineEditor` has the letters: `buffer` with its NULs, `idx`, the cursor, the
history in memory and in the file, and `screen`. `Up`, `Down`, `Type`, `Backspace`,
`Complete`, `Enter`, `EnterNothing` and `Restart` are the branches of the loop. The
code erases more columns than the line has; what that does to the prompt is left
out.

`StringList` has `l_insert`, `l_remove` and `l_get` on nodes that are reused as
soon as they are freed. The shell removes at index 0 only (`Indices`).

### NameTree and BlockReader

`NameTree` numbers the nodes as they are linked; `insert_node`, `find_inode` and
the exit at a hash collision are its actions. The hash is computed as in the code,
in a word that wraps around, with a table size small enough that hashes meet.

`BlockReader` has the image as rows of 16 bytes and a position: `ReadDirectory`,
`NextBlock`, `AtEntry`, `SkipRow`, `ReadEntry`, `ReadNothing`, `BlockDone`,
`DirectoryDone` and `ReadFile`. A read at the end of the image changes nothing,
and the locals it should have filled hold any value: `SkipNothing` if they are zero,
else `ReadNothing`. Neither gives way to the other. Where the data blocks end
(`FINISH`) is set by the shell that is not in the repository. An overflow of the
product that tests an entry for zero is left out. A directory ignores the block
numbers of its inode, a file uses the first one, as in the code.

## 3. Runs

| Run | Instances and bounds | Shows |
|---|---|---|
| `sched` | FCFS, SJF, RR; 3 processes, bursts 1..3, quantum 2, 11 ticks, in time | the scheduling properties below, in every workload |
| `late` | FCFS and RR; 2 processes, bursts 1..2, quantum 1, 3 ticks at any time | handlers nested in every order |
| `prodcons` | 2 producers, 3 consumers, 2 slots, 5 blocks, fair | order, nothing left, refinement, termination |
| `structures` | queue of 3 nodes and 2 items with and without `searchQueue`; heap of 5 processes, bursts 1..3; list of 3 nodes; tree of 5 names, two with the same hash, and 2 inodes | pointers and arrays do what the abstract structures say, for calls in every order |
| `mmu_fit` | 2 processes of 2 tables of 2 pages without TLB; 1 of them with a TLB of 2 pages per entry; 8 frames beside the one kept free; 3 calls of 2 addresses | the process memory |
| `mmu_policies` | 2 processes of 3 pages; 4 frames, 2 kept free; 4 calls of 2 addresses under LRU, LFU, MFU, 3 under the others; FIFO with 3 frames; a shared TLB with 7 frames | swapping, victims, frame lists |
| `vm` | 3 processes, all algorithms, bursts 1..2, quantum 2, 9 ticks in time; 2 processes, SJF, quantum 1, 2 ticks at any time | two messages per burst unit |
| `shell` | 10 descriptors, lines of 3 keys, with and without tab; lines of 2 letters, history of 2, file of 3; scripts of 3 lines, 3 lines of output, pipe of 3, under both kinds of C library | descriptors, the line and the history, execution and pipes |
| `files` | blocks of 4 rows; directories and files of 1 or 2 blocks, directories as large as the image, with data or zeros at its end, with a list of 3 names | what `read_block` reads |

`rr_end`, `mmu_lost` and `script_fill` expect a violation; section 5 explains them.

Why the bounds are enough. Three processes give a current one, a ready one and a
waiting one at once; bursts 1..3 with a quantum of 2 give bursts shorter than,
equal to and longer than a slice; eleven ticks take every process through a cpu
burst, an i/o burst and into the next cpu burst, and end in the shutdown with
processes in every place. Five heap elements make three levels, and four of them
an only child. Two slots and five blocks take the ring round twice; three consumers
outnumber the producers, so the end must be passed on from one consumer to the
next. Three nodes make a first, a middle and a last one for `searchQueue`, and a node
freed is used again. Four frames of which two are kept free and six pages make a
page go out and in again, and a victim of either process; with three, the queue of
frames can seem empty while frames are in use. In the tree, five names make both
directions at two levels and one collision. A history of two and a file of three
make a line leave the one and stay in the other. Blocks of four rows hold names
that end with the block, before it and past it, and large directories reach the
block behind the partition; where they hold zeros at the end, the list has room left
when the end of the image is reached. Scripts of three lines have a pipe after a pipe.

The properties, by run. Several are conjunctions, of which each part can fail alone;
their mutants in `PROJECT.json` break the parts in different places.

* `sched`. `OneHome`: a process created is in exactly one of cpu, ready queue and
  wait queue at every statement of every handler. `BurstsAgree`: parent's and child's
  count of a burst agree between ticks, and with the service charged so far make
  up the burst. `CpuKept`: a child between SIGCONT and its signal is the current one
  (`OnlyCurrentRuns`); a slice begins at its dispatch (`SliceFromDispatch`); a handler
  waits for a message only when the shutdown has removed it (`SleepOnlyInShutdown`).
  `WaitersReturn`: a process in the wait queue has between one tick and its whole i/o
  burst left. `NoEarlyPreemption`: a slice ends only with the quantum or the burst.
  `DispatchOrder`: FCFS dispatches by arrival, SJF by what the child has left.
  `BurstChargedInFull`: a completed burst is charged as service to the unit.
  `TimeRunsOut`: every tick is answered, until the run time is used up.
* `late`. `LoopWithinQueue`: the loop of `signal_count` never runs out of the wait
  queue, whatever handlers nest. `NoCrash`: no handler follows a null `cur_ready`.
  `TypeOK`.
* `prodcons`. `InOrder`: blocks are taken once each and in file order.
  `DrainedAtExit`: a consumer that ends leaves nothing to take. `ImplementsStream`:
  the ring is a bounded FIFO queue. `Completes`: every thread ends.
* `structures`. `NothingFreedInList`: between calls the queue reaches no freed node.
  `WellFormed`: the list of strings neither, the heap is ordered after each call, and
  without `searchQueue` no PCB leaks and `count` is the length (`PcbsKept`).
  `ImplementsTornQueue`, `ImplementsPriorityQueue`, `ImplementsSequence`,
  `ImplementsDictionary`.
* `mmu_fit`. `ImplementsProcessMemory`: a process reads what it wrote, and nothing
  another one wrote. `TagsInvertTables`: tags and tables are inverse.
* `mmu_policies`. `NoWordLost`: what a process wrote is where the tables say
  (`WordsKept`), and tags and tables are inverse, up to the first page swapped in to a
  frame not its own. `FramesCounted`: the victim is in use (`VictimInUse`) and
  `memory_ffl_size` is the number of free frames (`FreeFramesCounted`). Neither is
  stated of RANDOM (section 5). `RecentlyUsedStay`: LRU evicts a least recently used
  page. `TlbShared`: a TLB shared by two processes names frames of its pages, while
  nothing is swapped. `TablesPrivate`: no level 2 table serves two entries.
  `FrameWhenNeeded`: `search_frame` is not asked when the memory is full, in which case
  it would answer 0.
* `vm`. `AccessesInTime`: every batch is performed in the name of its sender
  (`ServedInOwnName`), once for each unit of a burst (`AccessesMatchBursts`), and none
  is left between ticks (`NothingUnderWay`). `SchedulingKept`: `OneHome` and
  `BurstsAgree` survive the second message, and `LoopWithinQueue` survives late ticks.
  `TimeUsedUp`: the run time is used up.
* `shell`. `DescriptorsKept`: a line leaves the descriptors as it found them
  (`LineBalanced`) and, without tabs, descriptor 0 is the terminal again at the prompt
  (`TerminalBack`).
  `HistoryIsRecent`: the newest lines are kept, across restarts. `ShownIsRun`: the line
  run is the line shown, up to an arrow that finds nothing older, and the cursor of the
  history is at the line recalled (`CursorAgrees`). `PipeDelivers`: the right program
  gets all that the left one wrote, for every pipe of a script where the C library
  forgets the end of stdin and for the first one where it remembers it; there the later
  ones get an empty file. `.pipe_temp` does not outlast its line
  (`TempRemoved`). `FailureStops`: a script goes on just when its programs started.
  `Repetition`: every line gives way to the next.
* `files`. `ReadAsWritten`: all names once and in order, inserted with the right inode,
  files block by block; names first where the reader runs past a directory.
  `ReadEnds`: every call that stays within the image ends, and any other ends or comes
  to the end of the image, where it may stay.

`CHECK_DEADLOCK FALSE` is given where the program really stops: it exits, fails,
crashes or waits for ever; a bound on calls or lines is used up; the word count
ends. `Completes`, `TimeRunsOut`, `Repetition` and `ReadEnds` say more than the absence
of deadlock.

### Fairness

`Scheduler!FairSpec` and `VFairSpec` (in `MCVMScheduler` for the behaviours in time): the kernel goes on scheduling the parent and
each child (a step that stays possible is taken), and the timer goes on.
`ProdCons!FairSpec`: each thread that can go on does. Nothing is assumed of the
order in which waiters on a semaphore or the mutex are served; a weak condition on
each thread suffices because a waiter passed over once finds others waiting for it
later. `Script!FairSpec`: the shell and its child, if it can move, do; a program
that is run ends (its output is bounded), which is an assumption on programs,
not on the shell. `BlockReader!FairSpec`: the one thread goes on. Nothing is assumed of
what it finds in its uninitialised variables at the end of the image: fairness leaves
`ReadNothing` out, so that zeros may be found for ever.

## 4. Proofs

`ProdConsProofs` proves, for any finite sets of threads, any ring and any file,
under the one assumption `EnoughBlocks` (no more producers than slots):

* `Invariance`: `Spec => []IInv`
* `DeliveredInOrder`: `Spec => []InOrder`
* `NothingLeftBehind`: `Spec => []DrainedAtExit`

`InOrder` is not inductive. What makes a store safe is that the slot at `p_idx`
holds no block still to be taken; that is so because every thread's position says
which token it owes. `IInv` therefore accounts for every token: `EmptyTokens` (a
token of `empty` is in the semaphore, with a producer, in the ring as a block,
with a consumer, or gone with a thread that ended) and `FullTokens`. With them
`RoomForHolder` bounds the blocks in the ring while a producer holds a token, and
`TakeStep` shows that a consumer that finds NULL has an empty ring and the whole
file behind it. `RingInv` says which blocks are in the ring, `EndInv` what the
first producer at the end of the file establishes. The assumption is needed:
section 5 says how to see `InOrder` violated without it.

`SchedulerProofs` proves, under the three algorithms, for any number of processes, any
bursts, quantum and run time, with ticks in time or at any time:

* `TypeCorrect`: `Spec => []TypeOK`
* `LoopStaysWithinQueue`: `Spec => []LoopWithinQueue`
* `NeverNull`: `Spec => []NoCrash`, assuming `SJF \notin Schedulers`, for under SJF it
  is false (section 5)

The three need one another: the type of `waitq` rests on `Head` being applied to
a queue that is not empty, which is `LoopWithinQueue`; that rests on `loop`
belonging to one handler only, which is `OneFrameEach` (a signal has at most one
handler in progress); and a handler goes on only while `cur_ready` is a PCB.
`IInv` of `SchedulerProofs` is their conjunction. Under SJF the type of the ready
queue is what `HeapProofs` says of the heap.

`HeapProofs` is about the operators of `HeapOps`, for arrays of any length:

* `InsertKeepsHeap`, `DeleteKeepsHeap`: what `insertHeap` and `deleteHeap` return is a
  heap
* the lemmas `InsertAddsNode`, `DeleteTakesRoot`, `RootIsSmallest`: with the elements it
  should have, each once, and the smallest at the root

The loop and the recursion are recursive functions there (`Risen`, `Sunk`), which
stand for some function that satisfies their equation, and the library's theorems
that one exists take an operator as a parameter, which the provers cannot
instantiate. But both are tail recursions: `TailRecursion` builds a solution of any
such equation from the runs of the loop (`IsRun`), for whatever sets and functions it
is made of. Strong induction is `NatSets`, about sets of naturals, from the library's
theorem that a well-founded relation has minimal elements; the measures are the index
of the element that rises and the distance of the one that sinks from the end. The
loop invariants are `RisingOrder` (only the rising element may be smaller than its
parent) and `SinkingOrder`.

`ReadyHeapProofs` proves of the component, for any sequence of calls, `HeapOrderKept`,
`HeapTypeCorrect` and `HeapIsPriorityQueue`: `HeapSpec => ImplementsPriorityQueue`. The
abstract queue is the set of the elements; `DistinctIdx`, that each process is in the
heap once, makes a set enough.

The second half of `SchedulerProofs` proves of the scheduler with ticks in time, under the three algorithms
and for any number of processes and any bursts, all the safety properties of run
`sched`: `EachHasOneHome` (`OneHome`), `BurstsAlwaysAgree` (`BurstsAgree`), `CpuIsKept`
(`CpuKept`), `WaitersAlwaysReturn` (`WaitersReturn`), and the action properties
`NeverPreemptedEarly` (`NoEarlyPreemption`), `DispatchIsInOrder` (`DispatchOrder`) and
`ChargedInFull` (`BurstChargedInFull`). Their assumption is `InTime`; without it
`OneHome` is false (section 5).

None of them is inductive, and they have the inductive invariant `TimeInv` in common. A tick
that finds nothing going on starts one piece of work, which is at one place at a time: the
pending SIGALRM, a statement of `signal_count`, the child continued, the signal of
that child, a statement of its handler. `AtPlace(at, pc)` says what holds while the
work is there:

* `StackOK`: the handler where the work is on top, below it at most the rest of
  `signal_count` (`LateFrames`), which goes on when the child has been continued and
  which the handler of the child's signal may interrupt
* `ChildrenOK`: who is active, and when a child may be dead
* `HomesOK`: the processes created are on the cpu, in the ready or in the wait queue;
  during a dispatch on none of the cpu
* `CurOK`: by stage of the tick (`Stage`), how far the count of the parent, the count of
  the child, the service charged and the slice are apart
* `ReadyOK`, `WaitOK`, `FreshOK`: what holds of the processes that are not on the cpu
* `MailOK`: which message may be in which queue
* `OrderOK`: the ready queue is a heap under SJF, in order of arrival under FCFS

One lemma for each action says to which place it leads (`TickAtPlace`, `ForkAtPlace`,
... `KillAtPlace`). `StepAtPlace`, of the count of a burst, needs arithmetic on
remainders (`QuantumStep`); the shutdown is the reason for the stage "over", in which
nothing is said of the current process any more. `TimeInv` itself was checked with
TLC on the instance of run `sched`, with smaller bounds, before it was proved.

`VMSchedulerProofs` proves, for any number of processes, any bursts and the three
algorithms:

* `LoopStaysWithin`: `VSpec => []LoopWithinQueue`, with ticks at any time
* `InTimeMemory`: with ticks in time `ServedInOwnName`, `AccessesMatchBursts`,
  `NothingUnderWay`, `OneHome` and `BurstsAgree`; without `InTime` the first is false
  (section 5)
* `AccessesAreInTime` and `SchedulingIsKept`: `MCSpec => []AccessesInTime` and
  `MCSpec => []SchedulingKept`, the two invariants of run `vm`, of its two instances
  together

`LoopStaysWithin` says of each step which of four moves it is for the loop
(`LoopMove`: `Stays`, `EntersLoop`, `Loops`, `Closes`) and that none of them takes the loop
past the queue. The others reuse what is proved of `Scheduler`. A handler of proj2 is one
of proj1 with the memory calls put in: `Bar` is the stack without them, in which a handler
that has only to receive and perform its addresses (`Leaves`) has returned already and any
other is at its requeue. `S == INSTANCE SchedulerProofs WITH frames <- Bar`; `NextMapped`
says that each step is one of `S`, a stutter (the memory calls), or a step of the
shutdown, and so `S!TimeInv` is kept (`NextPromised`). It is no refinement, because the
shutdown of proj2 removes all queues before it kills the first child and that of proj1
goes from child to child: `S!RemoveStep` and `S!KillStep` are either, at any child, and
`SchedulerProofs` shows (`CloseTimeInv`) that `TimeInv` allows both. Back from `Bar`, `MemoryOK` says
that in a memory call nothing else is going on, so that the process whose addresses are
received stays current until MMU has returned (`Where`, `NextMemoryOK`).

`BatchInv` then follows the batch of the tick: its sender has sent it and waits for an
answer, or its signal is pending, or the handler has yet to take it (`Asking`), or has it and
has not called MMU (`Taken`). `BatchesOK` says that at any other time all that was sent was
performed and nothing is in the queues (`Agree`), in between all but the last, which is in
its queue or in the variable of the handler; and that the batches sent are the units of the
bursts used. Two things weaken it: in the last tick a second call of MMU does nothing
(`Over`), which happens only when the process continued answers before the shutdown has
begun, and the shutdown removes queues that are being read (`Closing`). Most steps have
nothing to do with batches: `Steady` says what that takes, `BatchesStay` that it is enough.
`BatchesOK` was checked with TLC on the instance of run `vm` before it was proved.

`ProdConsProofs` also proves `StreamImplemented`: under `EnoughBlocks`,
`Spec => ImplementsStream`. The blocks of the stream are the numbers in the ring
between `c_idx` and `p_idx`; the step of a producer that stores block `n` must append
exactly the next one, and a `Take` remove the oldest. The argument is over
segments of the file: `IInv` gives which numbers are in the ring, and arithmetic
on `Wrap` turns positions of the ring into positions of the file.

`TornQueueProofs` proves `SoundWithoutSearch`: without `searchQueue`, `count` is the
length of the list and `tail` stays attached to it, for any items and any number of
calls. With `searchQueue` this is false (section 5); it is the
reason MMU works on the operators of `QueueOps` and not on plain sequences.

`LinkedQueueProofs` is about the pointers, for any PCBs or frames, any set of
addresses and any number of calls. All its theorems assume that no call is
interrupted by another (`MaxDepth = 1`); with `MaxDepth = 2` PCBs are lost (section 5).

* `QueueImplemented`: `Spec => ImplementsTornQueue`, with `searchQueue` and without
* `QueueNotFreed`: `Spec => []NothingFreedInList`, likewise
* `PcbsCounted`: `Spec => []CountIsLength`, if `WithSearch = FALSE`
* `PcbsNotLeaked`: `Spec => []NothingLeaked`, likewise

Run `structures` checks the last two of the queues of PCBs (`PcbsKept`, in `WellFormed`).

`Chain`, the list, is what a walk of pointers from `head` meets, and the walk is a
recursive function. `WalkMeetsList` avoids induction over it: a sequence of different
nodes, each linked to the next and the last one to NIL (`IsList`), is a walk
(`AlongIsWalk`), and there is only one (`OneWalk`). So it is enough to exhibit the list
after each assignment: `ListAppend`, `ListTail` and `ListCut` say what one pointer does to
it. `Inv` says by the statement at which the call in progress is how far the list
has got: an enqueue may have linked its node and not yet moved `tail`; a dequeue has
advanced `head` and not yet counted down or freed the node. The call takes effect, for
the abstract queue, when it returns; `Shown` is what it saw until then, and `Seen` between
calls. `searchQueue` leaves `tail` on the node it unlinks, so that later enqueues link their
nodes where no walk from `head` finds them: `Placed` and `Added` allow that, and `Inv`
cannot say that every node is in the list. Without `searchQueue` every node is, but for that of
the call in progress (`Kept`), and `SoundWithoutSearch` carries over through the refinement
(`Torn == INSTANCE TornQueueProofs WITH q <- Shown`).

`MMUProofs` proves, for any sizes:

* `PrivateTables`: `Spec => []TablesPrivate`, under every policy, with TLB and
  swapping. `TablesInv` adds that tables are given out in order and those in use
  are below the number taken.
* `TypeCorrect`: `Spec => []TypeOK`, likewise. `TypeInv` adds where a page may be:
  nothing is mapped in a table that was not taken, and an entry names a disk frame if
  it is marked present, a frame otherwise. `TableFree` counts the tables taken against
  the entries of level 1, so that a fault always finds one.
* `FrameFound`: `Spec => []FrameWhenNeeded`, under every policy, RANDOM too, if
  `MinFree` is not 0 (it is 0x100 in the code). `FrameInv` says why: `memory_ffl_size`
  never falls below `MinFree - 1`; while it is above `MinFree` nothing was ever
  swapped, so it is the true number of free frames; and a victim is freed
  immediately before a frame is searched.
* `TlbNamesFrames`, `TagsNamePages`, `OwnMemory`: `Spec` implies `[]TlbAgrees`,
  `[]TagsInvertTables` and `ImplementsProcessMemory`, assuming `FramesEnough`: as many
  frames as pages of processes beside `MinFree`. With the code's 64 times 64 entries
  and ten processes there are more page numbers than frames, so these theorems speak
  of inputs that name few enough pages: the sizes of the tables are parameters, and
  entries that no address names stay empty. `OwnMemory` also assumes `OneView`, no
  TLB or a single process: an entry of the TLB does not know whose it is.

The last three rest on `MapInv` and `Contents`: tags and tables are each other's
inverse (`ReadBackwards`), and a frame holds what its owner knows, or nothing anybody
wrote. That nothing is ever swapped needs a count: `FreeFrames` injects the frames in
use into the tags, so `memory_ffl_size` stays at or above `MinFree`.

The second half of `MMUProofs` is about pages that are swapped, for any sizes with `MinFree` not 0, and
every policy but RANDOM, which evicts free frames (section 5):

* `FramesStayCounted`: `Spec => [](VictimInUse /\ FreeFramesCounted)`, with TLB or
  without, also after a page was misplaced.
* `TagsStayInverse`: `Spec /\ []DiskFree => []TagsInvertTables`, likewise
* `NoWordIsLost`: `Spec /\ []DiskFree => []WordsKept`, without TLB
* `LruEvictsOldest`: `Spec /\ []DiskFree => LeastRecentlyUsed`, without TLB, for LRU
* `DiskNeverFull`: `Spec => []DiskFree`, if the disk has as many frames as processes
  have pages, as in run `mmu_policies`

`DiskFree` says that the disk has a free frame when a victim is sought, until a page
has been misplaced: `search_frame` answers 0 for a full disk, and a page that is there
is overwritten. In the code disk and memory have 0x1000 frames each, fewer than there
are page numbers, so `DiskFree` is a hypothesis on the input. With the TLB, even for
one process, `WordsKept` and `LeastRecentlyUsed` are false: a swap out does not
invalidate the entry of its victim, so a word is written, and a counter set, in a
frame that belongs to another page. TLC shows it with `UseTlb = TRUE`, five pages of one
process and one address per call.

`FreeFramesCounted` is not inductive: the policies that look at every frame start from
frame 0, in use or not, and `SwapIn` writes tags at `swap_pn` besides the frame it
takes. `CountInv` is about `Low`, the frames below `NFrames - MinFree + 1`. The others
are always free, since the lowest frame is taken first and a page is swapped out when
only `MinFree - 1` are left. So a victim is sought when exactly the others are free
(`OnlyHighFree`), and frame 0 is in use then; and frame `swap_pn` is the first free
one or not free, so `SwapIn` takes that very frame or frees none.

`KeptInv` is behind the next three: a frame has the tags of the page that is in it and
no other frame has them (`Placed`), the pages on the disk have frames of their own,
which are the ones taken (`OnDiskApart`), and, without TLB, the word known is there
(`WordsInv`) and the frame about to be accessed is the one mapped (`FoundResident`).
All of it holds until a page is misplaced, as it may be (`mmu_lost`). `DiskSuffices`
injects the disk frames taken into the pages that are not in memory. For LRU, `UseInv`
says that the counter of a frame is the time of the last access to its page, but for
the page that is being accessed, and `ScannedLeast` that the scan, which keeps a frame
only if it is strictly better than frame 0, ends with a least one.

Only model-checked: liveness (`Completes`, `TimeRunsOut`, `Repetition`, `ReadEnds`),
which is out of the prover's reach; `LinkedQueue` where calls interrupt each other; the
list of strings and the tree with their refinements; and the properties of the shell and
the file system.

## 5. Where the code disagrees with its comments

Three runs expect a violation.

* `rr_end` (`Terminates`): the shutdown removes a message queue before it kills its
  child (`u_signal.c:142`); a SIGUSR2 in between makes `signal_io` create the queue
  again and wait in `msgrcv` for a message that is gone.
* `mmu_lost` (`SwapInRestores`): a page swapped in is mapped at the frame
  `search_frame` found and copied to the frame `swap_pn` (`memory.c:505`), the one last
  swapped out, or frame 0.
* `script_fill` (`Repetition`): `execute` waits for the left program before it reads the
  pipe (`execute.c:82`, `:99`); a program that fills the pipe waits for ever, and with it
  the shell.

The other disagreements met while modelling are stated by a definition each, false
as it stands. No run is kept for them. To see one, put the definition into the `.cfg`
file named, as the only INVARIANT or PROPERTY, with the change given.

| Definition | Where | What happens |
|---|---|---|
| `WorkConserving` | `MCsched.cfg` | Once the cpu is idle it stays idle: nothing dispatches when processes come back from i/o (`u_signal.c:21`, `:113`). |
| `NoCrash` | `MCsched.cfg` | Under SJF an empty heap yields a null `cur_ready` (`heap.c:133`), which the next tick follows. |
| `TurnaroundCoversWait` | `MCsched.cfg` | The sums of wait and turnaround time are exchanged (`u_signal.c:88`). |
| `OneHome` | `MClate.cfg` | With late ticks a process is queued twice, or is lost: handlers mask nothing (`main.c:67`). |
| `InOrder` | `MCprodcons.cfg`, `Producers = {p1, p2, p3}` | `empty` counts producers and not slots (`main.c:138`): with more producers than slots blocks are overwritten. |
| `CountIsLength` | `MCstructures.cfg` | `searchQueue` counts down what it does not unlink (`queue.c:64`). |
| `PcbsKept` | `MCstructures.cfg`, `MaxDepth = 2` | An enqueue interrupted halfway loses a PCB (`queue.c:117`). |
| `VictimFound` | `MCmmu_policies.cfg` | The queue of frames says it is empty while frames are in use, and the null result is followed (`memory.c:191`). |
| `FreeFramesCounted` | `MCmmu_policies.cfg` | RANDOM evicts free frames (`memory.c:177`), and their count is wrong from then on. |
| `ServedInOwnName` | `MCvm.cfg` | With late ticks a batch of addresses is performed for another process (`signal.c:15`). |
| `PromptReads` | `MCshell.cfg` | A completion closes the copies of the descriptors (`SiSH.c:291`); after further ones the prompt reads a drained pipe. |
| `PromptReads` | `MCshell.cfg`, `StickyEof = TRUE`, `Keys` without `TAB` | Where the C library remembers the end of stdin, a line with a pipe is the last one the shell reads: `getch` returns EOF from then on (`execute.c:99`). |
| `EveryPipeDelivers` | `MCshell.cfg` | Where the C library remembers the end of stdin, `fgets` returns null at once for the second pipe of a script, and its right program gets an empty file (`execute.c:99`). |
| `EndsOnlyByQuit` | `MCshell.cfg` | Empty lines and `cd` use descriptors up (`SiSH.c:325`), until a pipe fails and the shell exits. |
| `LineTaken` | `MCshell.cfg` | What is typed after an arrow that found nothing older is lost (`SiSH.c:246`). |
| `AllNamesListed` | `MCfiles.cfg` | Of a directory that fills its blocks one block more is read, and what it holds is taken for entries (`file_system.c:136`). |
| `EveryReadEnds` | `MCfiles.cfg`, as PROPERTY | At the end of the image the position stays; zeros left in the variables of the loop are skipped for ever (`file_system.c:161`). |
| `ReadsInside` | `MCfiles.cfg` | The block that starts where the partition ends is read (`file_system.c:139`). |
| `ListHasRoom` | `MCfiles.cfg` | A full list ends the loop over one block only; the next name is written behind it (`file_system.c:183`). |

## 6. Not modelled

* Printing, dumps and logs; the statistics of the word count, which each consumer
  keeps in memory of its own and nobody adds up; option parsing. They keep no
  state the rest reads.
* Allocation failures, which end the programs.
* The printed environment, colours, prompt and replacement of the home directory
  and of words with a dollar in the shell.
* The shell of proj3: a submodule that is not in the tree.
* Notebooks, figures and recorded results.

What would come next: MMU and VMScheduler in one module, so that a call of MMU can be
interrupted at each of its steps; proofs about the shell and the block reader.
