------------------------------ MODULE Scheduler ------------------------------
(***************************************************************************)
(* The user-level CPU scheduler of src/proj1-scheduling/scheduler.         *)
(*                                                                         *)
(* A parent process forks MAX_PROCESS children, each of which stops itself *)
(* at once.  A timer sends the parent SIGALRM; the handler signal_count    *)
(* continues the child whose PCB is cur_ready.  The child burns one unit   *)
(* of its cpu burst, tells the parent so, by SIGUSR1, or, when the burst   *)
(* is over, by a message with its next bursts followed by SIGUSR2, and     *)
(* stops again.  The handlers of SIGUSR1 (signal_fcfs, signal_sjf or       *)
(* signal_rr) and SIGUSR2 (signal_io) choose the next cur_ready.           *)
(*                                                                         *)
(* All of the parent's work is done in signal handlers installed with an   *)
(* empty sa_mask: a handler is interrupted by any signal but its own.      *)
(* frames is the stack of handlers in progress; a step is a statement of   *)
(* the topmost one, and calls of enqueue, dequeue, insertHeap and          *)
(* deleteHeap are not interrupted halfway.                                 *)
(***************************************************************************)
EXTENDS Integers, Sequences, FiniteSets, HeapOps

CONSTANTS MAX_PROCESS,    \* number of children (10)
          RUN_TIME,       \* ticks before the shutdown (10000)
          TIME_QUANTUM,   \* slice of the round robin (5)
          MaxLimit,       \* argv[2]: bursts are drawn from 1..MaxLimit
          Schedulers,     \* the values of argv[1] tried, of FCFS, SJF and RR
          InTime,         \* TRUE: a tick finds the previous one dealt with
          NULL            \* the null pointer deleteHeap returns

FCFS == 1
SJF == 2
RR == 3

ASSUME SchedulerAssumption ==
  /\ MAX_PROCESS \in Nat \ {0}
  /\ RUN_TIME \in Nat \ {0}
  /\ TIME_QUANTUM \in Nat \ {0}
  /\ MaxLimit \in Nat \ {0}
  /\ Schedulers \subseteq {FCFS, SJF, RR}
  /\ InTime \in BOOLEAN

Procs == 0..(MAX_PROCESS - 1)
Signals == {"USR1", "USR2", "ALRM"}

Pcb == [idx : Procs \cup {-1}, cpu_burst : Int, io_burst : Int]

\* The node createNode and a dequeue from an empty queue make up.
Idle == [idx |-> -1, cpu_burst |-> -1, io_burst |-> -1]

ASSUME NullAssumption == NULL \notin Pcb

VARIABLES
  set_scheduler,        \* argv[1]
  cpu_burst, io_burst,  \* the random bursts of each process
  forked,               \* children created so far, the i of the fork loop
  status,               \* of the parent: boot, running, exited, failed, crashed
  child,                \* where each child is in its loop
  c_cpu,                \* each child's own count of its cpu burst
  mq,                   \* message queue of each child
  pending,              \* signals pending for the parent (a set: they coalesce)
  frames,               \* stack of [sig, pc]: signal handlers in progress
  loop,                 \* loop counter of the signal_count in progress
  readyq, waitq,        \* the queues of PCBs (readyq is a heap under SJF)
  cur_ready,            \* PCB of the current process, Idle, or NULL
  counter,              \* ticks of the current time slice
  run_time,             \* ticks left
  proc_count,           \* cpu bursts completed
  wait_time, turnaround_time,
  arrival_time, service_time

workload == <<set_scheduler, cpu_burst, io_burst>>
children == <<child, c_cpu, mq>>
queues == <<readyq, waitq, cur_ready, counter>>
results == <<proc_count, wait_time, turnaround_time>>
times == <<arrival_time, service_time>>
vars == <<workload, forked, status, children, pending, frames, loop, queues,
          run_time, results, times>>

-----------------------------------------------------------------------------
(* Queues *)

\* Bugs to be caught: a stack in place of the queue; an unordered heap.
PutReady_front(q, pcb) == <<pcb>> \o q
PutReady_unordered(q, pcb) == Append(q, pcb)

\* Put a PCB into the ready queue: insertHeap or enqueue.
PutReady(q, pcb) ==
  IF set_scheduler = SJF THEN insertHeap(q, pcb) ELSE Append(q, pcb)

\* A bug to be caught: dequeue, like deleteHeap, returns null when it finds nothing.
FirstReady_null(q) == IF q # <<>> THEN Head(q) ELSE NULL

\* What deleteHeap or dequeue returns, and (RestReady) what it leaves.
FirstReady(q) ==
  IF q # <<>> THEN Head(q) ELSE IF set_scheduler = SJF THEN NULL ELSE Idle

\* A bug to be caught: the node is returned and not unlinked.
RestReady_kept(q) == q

RestReady(q) ==
  IF q = <<>> THEN q ELSE IF set_scheduler = SJF THEN RestOfHeap(q) ELSE Tail(q)

-----------------------------------------------------------------------------
(* Start *)

Init ==
  /\ set_scheduler \in Schedulers
  /\ cpu_burst \in [Procs -> 1..MaxLimit]
  /\ io_burst \in [Procs -> 1..MaxLimit]
  /\ forked = 0
  /\ status = "boot"
  /\ child = [p \in Procs |-> "none"]
  /\ c_cpu = cpu_burst
  /\ mq = [p \in Procs |-> <<>>]
  /\ pending = {}
  /\ frames = <<>>
  /\ loop = 0
  /\ readyq = <<>>
  /\ waitq = <<>>
  /\ cur_ready = Idle
  /\ counter = 0
  /\ run_time = RUN_TIME
  /\ proc_count = 0
  /\ wait_time = 0
  /\ turnaround_time = 0
  /\ arrival_time = [p \in Procs |-> 0]
  /\ service_time = [p \in Procs |-> 0]

\* One iteration of the fork loop of main.
Fork ==
  /\ status = "boot"
  /\ forked < MAX_PROCESS
  /\ forked' = forked + 1
  /\ child' = [child EXCEPT ![forked] = "start"]
  /\ arrival_time' = [arrival_time EXCEPT ![forked] = RUN_TIME - run_time]
  /\ readyq' = PutReady(readyq, [idx |-> forked, cpu_burst |-> cpu_burst[forked],
                                 io_burst |-> io_burst[forked]])
  /\ UNCHANGED <<workload, status, c_cpu, mq, pending, frames, loop, waitq,
                 cur_ready, counter, run_time, results, service_time>>

ForkFails ==
  /\ status = "boot"
  /\ forked < MAX_PROCESS
  /\ status' = "failed"
  /\ UNCHANGED <<workload, forked, children, pending, frames, loop, queues,
                 run_time, results, times>>

\* main takes the first process off the ready queue and arms the timer.
StartTimer ==
  /\ status = "boot"
  /\ forked = MAX_PROCESS
  /\ status' = "running"
  /\ cur_ready' = FirstReady(readyq)
  /\ readyq' = RestReady(readyq)
  /\ UNCHANGED <<workload, forked, children, pending, frames, loop, waitq,
                 counter, run_time, results, times>>

-----------------------------------------------------------------------------
(* Children: the loop of the child branch of main *)

Alive == status \in {"boot", "running"}

\* A bug to be caught: the child stops itself only at its start.
ChildStop_once(p) ==
  /\ Alive
  /\ child[p] \in {"start", "stop"}
  /\ child' = [child EXCEPT ![p] = IF @ = "start" THEN "stopped" ELSE "run"]
  /\ UNCHANGED <<workload, forked, status, c_cpu, mq, pending, frames, loop,
                 queues, run_time, results, times>>

\* kill(getpid(), SIGSTOP)
ChildStop(p) ==
  /\ Alive
  /\ child[p] \in {"start", "stop"}
  /\ child' = [child EXCEPT ![p] = "stopped"]
  /\ UNCHANGED <<workload, forked, status, c_cpu, mq, pending, frames, loop,
                 queues, run_time, results, times>>

\* A bug to be caught: the child does not reset its burst for the next round.
BurstLeft_noReset(p) == c_cpu[p] - 1

\* c_cpu after the decrement, and the reset when that ended the burst.
BurstLeft(p) == IF c_cpu[p] = 1 THEN cpu_burst[p] ELSE c_cpu[p] - 1

ChildBurst(p) ==
  /\ Alive
  /\ child[p] = "run"
  /\ c_cpu' = [c_cpu EXCEPT ![p] = BurstLeft(p)]
  /\ child' = [child EXCEPT ![p] = IF c_cpu[p] = 1 THEN "send" ELSE "usr1"]
  /\ UNCHANGED <<workload, forked, status, mq, pending, frames, loop, queues,
                 run_time, results, times>>

\* A bug to be caught: the child announces its i/o burst and does not send it.
Sent_lost(p) == mq[p]

\* A bug to be caught: the two fields of the message are exchanged.
Sent_swapped(p) == Append(mq[p], [cpu_time |-> io_burst[p], io_time |-> c_cpu[p]])

\* cmsgsnd: the message carries the next cpu burst and the i/o burst.
Sent(p) == Append(mq[p], [cpu_time |-> c_cpu[p], io_time |-> io_burst[p]])

ChildSend(p) ==
  /\ Alive
  /\ child[p] = "send"
  /\ mq' = [mq EXCEPT ![p] = Sent(p)]
  /\ child' = [child EXCEPT ![p] = "usr2"]
  /\ UNCHANGED <<workload, forked, status, c_cpu, pending, frames, loop,
                 queues, run_time, results, times>>

\* kill(ppid, SIGUSR1) after a unit of the burst, SIGUSR2 after the last one.
ChildNotify(p) ==
  /\ Alive
  /\ child[p] \in {"usr1", "usr2"}
  /\ pending' = pending \cup {IF child[p] = "usr1" THEN "USR1" ELSE "USR2"}
  /\ child' = [child EXCEPT ![p] = "stop"]
  /\ UNCHANGED <<workload, forked, status, c_cpu, mq, frames, loop, queues,
                 run_time, results, times>>

-----------------------------------------------------------------------------
(* Signals and the handler stack *)

Quiescent ==
  /\ frames = <<>>
  /\ pending = {}
  /\ \A p \in Procs : child[p] \in {"stopped", "dead"}

\* The interval timer expires.  With InTime it finds everything the last tick
\* started finished; without, it may come at any moment.
Tick ==
  /\ status = "running"
  /\ "ALRM" \notin pending
  /\ InTime => Quiescent
  /\ pending' = pending \cup {"ALRM"}
  /\ UNCHANGED <<workload, forked, status, children, frames, loop, queues,
                 run_time, results, times>>

Depth == Len(frames)
Top == frames[Depth]

\* The topmost handler is that of sig and its next statement is pc.
At(sig, pc) ==
  /\ status = "running"
  /\ Depth > 0
  /\ Top = [sig |-> sig, pc |-> pc]

Goto(pc) == frames' = [frames EXCEPT ![Depth].pc = pc]
Return == frames' = SubSeq(frames, 1, Depth - 1)

Entry(sig) ==
  IF sig = "ALRM" THEN "account" ELSE IF sig = "USR2" THEN "receive" ELSE "burst"

\* The kernel runs the handler of a pending signal that is not its own handler
\* in progress.  A msgrcv asleep in the interrupted handler will fail (EINTR).
Deliver(sig) ==
  /\ status = "running"
  /\ sig \in pending
  /\ \A i \in 1..Depth : frames[i].sig # sig
  /\ pending' = pending \ {sig}
  /\ LET interrupted == IF Depth > 0 /\ Top.pc = "asleep"
                        THEN [frames EXCEPT ![Depth].pc = "eintr"]
                        ELSE frames
     IN  frames' = Append(interrupted, [sig |-> sig, pc |-> Entry(sig)])
  /\ UNCHANGED <<workload, forked, status, children, loop, queues, run_time,
                 results, times>>

\* Every handler begins by following cur_ready; so does dump_data.
Segfault ==
  /\ status = "running"
  /\ Depth > 0
  /\ Top.pc \in {"receive", "requeue", "burst", "account", "cont"}
  /\ cur_ready = NULL
  /\ status' = "crashed"
  /\ UNCHANGED <<workload, forked, children, pending, frames, loop, queues,
                 run_time, results, times>>

-----------------------------------------------------------------------------
(* signal_io *)

\* The message queue pmsgrcv opens; for the idle PCB the key is 0, a new
\* private queue, in which nothing will ever be.
Inbox == IF cur_ready.idx = -1 THEN <<>> ELSE mq[cur_ready.idx]

\* A bug to be caught: the i/o burst in the message is not copied.
Received_noIo(node, msg) == [node EXCEPT !.cpu_burst = msg.cpu_time]

\* The end of pmsgrcv: the message goes into the node.
Received(node, msg) ==
  [node EXCEPT !.cpu_burst = msg.cpu_time, !.io_burst = msg.io_time]

\* pmsgrcv with a message there, or arriving while it sleeps.
IoReceive ==
  /\ At("USR2", "receive") \/ At("USR2", "asleep")
  /\ cur_ready # NULL
  /\ Inbox # <<>>
  /\ cur_ready' = Received(cur_ready, Head(Inbox))
  /\ mq' = [mq EXCEPT ![cur_ready.idx] = Tail(@)]
  /\ Goto("requeue")
  /\ UNCHANGED <<workload, forked, status, child, c_cpu, pending, loop, readyq,
                 waitq, counter, run_time, results, times>>

\* pmsgrcv goes to sleep on an empty message queue.
IoSleep ==
  /\ At("USR2", "receive")
  /\ cur_ready # NULL
  /\ Inbox = <<>>
  /\ Goto("asleep")
  /\ UNCHANGED <<workload, forked, status, children, pending, loop, queues,
                 run_time, results, times>>

\* msgrcv returned -1: perror and exit.
IoInterrupted ==
  /\ At("USR2", "eintr")
  /\ status' = "failed"
  /\ UNCHANGED <<workload, forked, children, pending, frames, loop, queues,
                 run_time, results, times>>

\* signal_io puts the process into the ready queue when it has no i/o burst,
\* into the wait queue otherwise.
IoRequeue ==
  /\ At("USR2", "requeue")
  /\ cur_ready # NULL
  /\ IF cur_ready.io_burst = 0
     THEN readyq' = PutReady(readyq, cur_ready) /\ UNCHANGED waitq
     ELSE waitq' = Append(waitq, cur_ready) /\ UNCHANGED readyq
  /\ Goto("dispatch")
  /\ UNCHANGED <<workload, forked, status, children, pending, loop, cur_ready,
                 counter, run_time, results, times>>

\* A bug to be caught: the time slice is not reset.
IoDispatch_noReset ==
  /\ At("USR2", "dispatch")
  /\ cur_ready' = FirstReady(readyq)
  /\ readyq' = RestReady(readyq)
  /\ Return
  /\ UNCHANGED <<workload, forked, status, children, pending, loop, waitq,
                 counter, run_time, results, times>>

IoDispatch ==
  /\ At("USR2", "dispatch")
  /\ cur_ready' = FirstReady(readyq)
  /\ readyq' = RestReady(readyq)
  /\ counter' = 0
  /\ Return
  /\ UNCHANGED <<workload, forked, status, children, pending, loop, waitq,
                 run_time, results, times>>

-----------------------------------------------------------------------------
(* signal_fcfs, signal_sjf, signal_rr *)

\* The process leaves the cpu when its PCB says the burst is over, under RR
\* when the time quantum is.
Preempt(cpu_left, ticks) ==
  IF set_scheduler = RR THEN ticks >= TIME_QUANTUM ELSE cpu_left = 0

BurstStep ==
  /\ At("USR1", "burst")
  /\ cur_ready # NULL
  /\ cur_ready' = [cur_ready EXCEPT !.cpu_burst = @ - 1]
  /\ counter' = IF set_scheduler = FCFS THEN counter ELSE counter + 1
  /\ IF Preempt(cur_ready'.cpu_burst, counter') THEN Goto("requeue") ELSE Return
  /\ UNCHANGED <<workload, forked, status, children, pending, loop, readyq,
                 waitq, run_time, results, times>>

BurstRequeue ==
  /\ At("USR1", "requeue")
  /\ cur_ready # NULL
  /\ readyq' = PutReady(readyq, cur_ready)
  /\ Goto("dispatch")
  /\ UNCHANGED <<workload, forked, status, children, pending, loop, waitq,
                 cur_ready, counter, run_time, results, times>>

BurstDispatch ==
  /\ At("USR1", "dispatch")
  /\ cur_ready' = FirstReady(readyq)
  /\ readyq' = RestReady(readyq)
  /\ counter' = IF set_scheduler = RR THEN 0 ELSE counter
  /\ Return
  /\ UNCHANGED <<workload, forked, status, children, pending, loop, waitq,
                 run_time, results, times>>

-----------------------------------------------------------------------------
(* signal_count *)

Now == RUN_TIME - run_time

\* A bug to be caught: the loop runs once too often.
IoIterations_extra == Len(waitq) + 1

\* length, the number of iterations of the loop over the wait queue.
IoIterations == Len(waitq)

\* The tick is charged to the current process; when it is the last of its
\* burst the times of the burst are added up.  service_time[-1], written when
\* the cpu is idle, is padding in front of the array and holds nothing.
CountAccount ==
  /\ At("ALRM", "account")
  /\ cur_ready # NULL
  /\ LET p == cur_ready.idx
         served == service_time[p] + 1
     IN  IF p = -1
         THEN UNCHANGED <<results, service_time>>
         ELSE /\ service_time' = [service_time EXCEPT ![p] = served]
              /\ IF cur_ready.cpu_burst = 1
                 THEN /\ proc_count' = proc_count + 1
                      /\ wait_time' = wait_time + (Now - arrival_time[p])
                      /\ turnaround_time' =
                           turnaround_time + (Now - served - arrival_time[p])
                 ELSE UNCHANGED results
  /\ loop' = IoIterations
  /\ Goto("iowait")
  /\ UNCHANGED <<workload, forked, status, children, pending, queues, run_time,
                 arrival_time>>

\* A bug to be caught: the process comes back from its i/o with the service
\* time of its last burst.
IoOver_noReset(pcb) ==
  /\ readyq' = PutReady(readyq, pcb)
  /\ waitq' = Tail(waitq)
  /\ arrival_time' = [arrival_time EXCEPT ![pcb.idx] = Now]
  /\ UNCHANGED service_time

\* A bug to be caught: the process goes to the ready queue and stays waiting.
IoOver_both(pcb) ==
  /\ readyq' = PutReady(readyq, pcb)
  /\ waitq' = Append(Tail(waitq), pcb)
  /\ arrival_time' = [arrival_time EXCEPT ![pcb.idx] = Now]
  /\ service_time' = [service_time EXCEPT ![pcb.idx] = 0]

\* The process at the head of the wait queue has done its i/o.
IoOver(pcb) ==
  /\ readyq' = PutReady(readyq, pcb)
  /\ waitq' = Tail(waitq)
  /\ arrival_time' = [arrival_time EXCEPT ![pcb.idx] = Now]
  /\ service_time' = [service_time EXCEPT ![pcb.idx] = 0]

\* One iteration over the wait queue: the process at its head has one tick of
\* i/o less to wait.
CountIo ==
  /\ At("ALRM", "iowait")
  /\ loop > 0
  /\ loop' = loop - 1
  /\ LET pcb == [Head(waitq) EXCEPT !.io_burst = @ - 1]
     IN  IF pcb.io_burst = 0
         THEN IoOver(pcb)
         ELSE waitq' = Append(Tail(waitq), pcb) /\ UNCHANGED <<readyq, times>>
  /\ UNCHANGED <<workload, forked, status, children, pending, frames, cur_ready,
                 counter, run_time, results>>

CountIoDone ==
  /\ At("ALRM", "iowait")
  /\ loop = 0
  /\ Goto("cont")
  /\ UNCHANGED <<workload, forked, status, children, pending, loop, queues,
                 run_time, results, times>>

\* kill(cpid[cur_ready->pcb.idx], SIGCONT): a child that has not stopped yet
\* does not notice.
CountCont ==
  /\ At("ALRM", "cont")
  /\ cur_ready # NULL
  /\ LET p == cur_ready.idx
     IN  child' = IF p # -1 /\ child[p] = "stopped"
                  THEN [child EXCEPT ![p] = "run"]
                  ELSE child
  /\ Goto("timer")
  /\ UNCHANGED <<workload, forked, status, c_cpu, mq, pending, loop, queues,
                 run_time, results, times>>

\* A bug to be caught: the run time is counted below zero.
CountTimer_unguarded ==
  /\ At("ALRM", "timer")
  /\ run_time' = run_time - 1
  /\ Return
  /\ UNCHANGED <<workload, forked, status, children, pending, loop, queues,
                 results, times>>

CountTimer ==
  /\ At("ALRM", "timer")
  /\ run_time # 0
  /\ run_time' = run_time - 1
  /\ Return
  /\ UNCHANGED <<workload, forked, status, children, pending, loop, queues,
                 results, times>>

\* The time is up: the results are printed and the loop over the children begins.
ShutdownStart ==
  /\ At("ALRM", "timer")
  /\ run_time = 0
  /\ loop' = 0
  /\ Goto("rmid")
  /\ UNCHANGED <<workload, forked, status, children, pending, queues, run_time,
                 results, times>>

\* msgctl(IPC_RMID) on the queue of child loop: its messages are gone.
ShutdownRmid ==
  /\ At("ALRM", "rmid")
  /\ mq' = [mq EXCEPT ![loop] = <<>>]
  /\ Goto("kill")
  /\ UNCHANGED <<workload, forked, status, child, c_cpu, pending, loop, queues,
                 run_time, results, times>>

ShutdownKill ==
  /\ At("ALRM", "kill")
  /\ child' = [child EXCEPT ![loop] = "dead"]
  /\ loop' = loop + 1
  /\ Goto(IF loop + 1 < MAX_PROCESS THEN "rmid" ELSE "exit")
  /\ UNCHANGED <<workload, forked, status, c_cpu, mq, pending, queues, run_time,
                 results, times>>

ShutdownExit ==
  /\ At("ALRM", "exit")
  /\ status' = "exited"
  /\ UNCHANGED <<workload, forked, children, pending, frames, loop, queues,
                 run_time, results, times>>

-----------------------------------------------------------------------------
ChildStep(p) == ChildStop(p) \/ ChildBurst(p) \/ ChildSend(p) \/ ChildNotify(p)

HandlerStep ==
  \/ Segfault
  \/ IoReceive \/ IoSleep \/ IoInterrupted \/ IoRequeue \/ IoDispatch
  \/ BurstStep \/ BurstRequeue \/ BurstDispatch
  \/ CountAccount \/ CountIo \/ CountIoDone \/ CountCont \/ CountTimer
  \/ ShutdownStart \/ ShutdownRmid \/ ShutdownKill \/ ShutdownExit

ParentStep ==
  \/ Fork \/ ForkFails \/ StartTimer
  \/ \E sig \in Signals : Deliver(sig)
  \/ HandlerStep

Next == Tick \/ ParentStep \/ \E p \in Procs : ChildStep(p)

Spec == Init /\ [][Next]_vars

\* The kernel schedules the parent and every child, and the timer goes on.
FairSpec ==
  /\ Spec
  /\ WF_vars(Tick)
  /\ WF_vars(ParentStep)
  /\ \A p \in Procs : WF_vars(ChildStep(p))

-----------------------------------------------------------------------------
(* Properties *)

Positions == {"none", "start", "stopped", "run", "send", "usr1", "usr2", "stop",
              "dead"}

HandlerPoints ==
  [sig : {"USR2"}, pc : {"receive", "asleep", "eintr", "requeue", "dispatch"}]
  \cup [sig : {"USR1"}, pc : {"burst", "requeue", "dispatch"}]
  \cup [sig : {"ALRM"}, pc : {"account", "iowait", "cont", "timer", "rmid",
                              "kill", "exit"}]

Message == [cpu_time : Int, io_time : Int]

\* Type invariant.
TypeOK ==
  /\ set_scheduler \in Schedulers
  /\ cpu_burst \in [Procs -> 1..MaxLimit]
  /\ io_burst \in [Procs -> 1..MaxLimit]
  /\ forked \in 0..MAX_PROCESS
  /\ status \in {"boot", "running", "exited", "failed", "crashed"}
  /\ child \in [Procs -> Positions]
  /\ c_cpu \in [Procs -> Int]
  /\ mq \in [Procs -> Seq(Message)]
  /\ pending \subseteq Signals
  /\ frames \in Seq(HandlerPoints)
  /\ loop \in Nat
  /\ readyq \in Seq(Pcb)
  /\ waitq \in Seq(Pcb)
  /\ cur_ready \in Pcb \cup {NULL}
  /\ counter \in Nat
  /\ run_time \in 0..RUN_TIME
  /\ proc_count \in Nat
  /\ wait_time \in Int
  /\ turnaround_time \in Int
  /\ arrival_time \in [Procs -> 0..RUN_TIME]
  /\ service_time \in [Procs -> Nat]

CurIdx == IF cur_ready = NULL THEN -1 ELSE cur_ready.idx

InHandler(pc) == \E i \in 1..Depth : frames[i].pc = pc

\* The places where a PCB of p is.  Between the put and the take of a handler
\* the PCB in cur_ready is a stale copy and does not count.
Homes(p) ==
  {<<"ready", i>> : i \in {j \in DOMAIN readyq : readyq[j].idx = p}}
  \cup {<<"wait", i>> : i \in {j \in DOMAIN waitq : waitq[j].idx = p}}
  \cup (IF CurIdx = p /\ ~InHandler("dispatch") THEN {<<"cpu", 0>>} ELSE {})

\* Every process that has been created is on the cpu, in the ready queue or in
\* the wait queue, once: none is lost or duplicated while the handlers move
\* PCBs between the queues one field at a time.
OneHome ==
  \A p \in Procs : Cardinality(Homes(p)) = (IF p < forked THEN 1 ELSE 0)

PcbOf(p) ==
  IF CurIdx = p THEN cur_ready
  ELSE CHOOSE pcb \in Elements(readyq) \cup Elements(waitq) : pcb.idx = p

\* Two processes count the same burst down, the child in c_cpu and the parent in
\* the PCB, told only by signals.  Whenever nothing is going on they agree, and
\* with the service time charged so far they make up the burst: a whole one
\* while the process waits for its i/o.
BurstsAgree ==
  status = "running" /\ Quiescent =>
    \A p \in Procs :
      LET waiting == \E i \in DOMAIN waitq : waitq[i].idx = p
      IN  /\ PcbOf(p).cpu_burst = c_cpu[p]
          /\ service_time[p] + c_cpu[p] =
               (IF waiting THEN 2 ELSE 1) * cpu_burst[p]

\* One cpu: a child that is between its SIGCONT and its signal to the parent is
\* the current process, so two children never burn their bursts together.
OnlyCurrentRuns ==
  status = "running" =>
    \A p \in Procs : child[p] \in {"run", "send", "usr1", "usr2"} => CurIdx = p

\* Under RR the slice of the current process is measured from its dispatch: the
\* counter is what its service exceeds a whole number of quanta by.
SliceFromDispatch ==
  status = "running" /\ Quiescent /\ CurIdx # -1 /\ set_scheduler = RR =>
    counter = service_time[CurIdx] % TIME_QUANTUM

\* The parent is asleep for a message only in a signal_io that interrupted the
\* shutdown: at any other time the message is there before its signal.
SleepOnlyInShutdown ==
  InHandler("asleep") => \E pc \in {"rmid", "kill", "exit"} : InHandler(pc)

\* signal_count reads the length of the wait queue once and dequeues that often,
\* while a signal_io may interrupt it: however handlers nest, there is a PCB for
\* every dequeue that is left.
LoopWithinQueue == InHandler("iowait") => loop <= Len(waitq)

\* A process in the wait queue has one to io_burst ticks to wait, so that the
\* countdown, which is tested for zero only, meets it: of ticks in time (when they
\* come late the idle PCB gets into the wait queue too, and stays).
WaitersReturn ==
  status = "running" =>
    \A i \in DOMAIN waitq :
      waitq[i].idx # -1 /\ waitq[i].io_burst \in 1..io_burst[waitq[i].idx]

\* The parent never follows a null cur_ready, whatever queue was found empty by
\* whatever handler: kept under FCFS and RR, not under SJF.
NoCrash == status # "crashed"

\* A process gives the cpu up when its burst is over, under RR also when the
\* ticks charged to it fill its quanta, never otherwise.
NoEarlyPreemption ==
  [][ CurIdx # -1 /\ CurIdx' # CurIdx =>
        \/ service_time[CurIdx] = cpu_burst[CurIdx]
        \/ set_scheduler = RR /\ service_time[CurIdx] % TIME_QUANTUM = 0 ]_vars

\* Who is dispatched, judged by what the queues do not hold.  FCFS: nobody left
\* in the ready queue arrived earlier.  SJF: nobody left has less work to do, by
\* the child's own count.
DispatchOrder ==
  [][ CurIdx' # CurIdx /\ CurIdx' # -1 =>
        \A i \in DOMAIN readyq' :
          LET other == readyq'[i].idx
          IN  /\ set_scheduler = FCFS => arrival_time[CurIdx'] <= arrival_time[other]
              /\ set_scheduler = SJF => c_cpu[CurIdx'] <= c_cpu[other] ]_vars

\* When a burst is accounted for, the time it is charged as service is the whole
\* burst of the process: the results printed at the end rest on it.
BurstChargedInFull ==
  [][ proc_count' = proc_count + 1 =>
        /\ service_time'[CurIdx] = cpu_burst[CurIdx]
        /\ (wait_time' - wait_time) - (turnaround_time' - turnaround_time)
             = cpu_burst[CurIdx] ]_vars

\* Ticks go on: a child always answers, the answer is always dealt with, and the
\* run time is used up unless the parent has stopped for good.
TimeRunsOut == <>(run_time = 0 \/ status \in {"failed", "crashed"})

-----------------------------------------------------------------------------
(* Statements of the comments that the code does not keep *)

\* A ready process does not wait for an idle cpu.
WorkConserving ==
  status = "running" /\ Quiescent /\ readyq # <<>> => CurIdx # -1

\* The turnaround time of the bursts includes the time they waited.
TurnaroundCoversWait == turnaround_time >= wait_time

\* The run time is limited: the program ends.
Terminates == <>(status \in {"exited", "failed", "crashed"})
=============================================================================
