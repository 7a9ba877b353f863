----------------------------- MODULE VMScheduler -----------------------------
(***************************************************************************)
(* The scheduler of src/proj2-virtual memory/virtual_memory: Scheduler,    *)
(* with a second message queue for each child.  For every unit of its      *)
(* burst a child sends ten addresses, before it decides whether the burst  *)
(* is over; the handlers of SIGUSR1 and SIGUSR2 receive them and have the  *)
(* MMU perform them in the name of the current process.                    *)
(*                                                                         *)
(* What the two programs share is taken from Scheduler, conjoined with     *)
(* what stays as it is here.  A batch of addresses is <<sender, number>>.  *)
(* What MMU does with a batch is the matter of module MMU.                 *)
(***************************************************************************)
EXTENDS Scheduler

VARIABLES
  vq,        \* queue 0x80000 * (idx + 1) of each child: batches of addresses
  sent,      \* batches each child has sent
  va_arr,    \* va_arr[sig]: local of the handler of sig in progress
  flag,      \* set by the first call of MMU in the last tick
  done,      \* history: calls of MMU performed for each process
  served     \* history: [by, batch] of the last one

memoryVars == <<vq, sent, va_arr, flag, done, served>>
vmVars == <<vars, memoryVars>>

NoBatch == <<-1, 0>>

VInit ==
  /\ Init
  /\ vq = [p \in Procs |-> <<>>]
  /\ sent = [p \in Procs |-> 0]
  /\ va_arr = [sig \in Signals |-> NoBatch]
  /\ flag = FALSE
  /\ done = [p \in Procs |-> 0]
  /\ served = [by |-> -1, batch |-> NoBatch]

VFork == Fork /\ UNCHANGED memoryVars
VForkFails == ForkFails /\ UNCHANGED memoryVars
VStartTimer == StartTimer /\ UNCHANGED memoryVars
VTick == Tick /\ UNCHANGED memoryVars

-----------------------------------------------------------------------------
(* Children *)

VChildStop(p) == ChildStop(p) /\ UNCHANGED memoryVars

\* The ten addresses of a unit, as one message.
cmsgsnd_memory(p) ==
  /\ sent' = [sent EXCEPT ![p] = @ + 1]
  /\ vq' = [vq EXCEPT ![p] = Append(@, <<p, sent[p] + 1>>)]

\* A bug to be caught: the addresses are sent at the end of a burst only.
VChildBurst_last(p) ==
  /\ ChildBurst(p)
  /\ IF c_cpu[p] = 1 THEN cmsgsnd_memory(p) ELSE UNCHANGED <<sent, vq>>
  /\ UNCHANGED <<va_arr, flag, done, served>>

\* A unit of the burst, and its addresses.
VChildBurst(p) ==
  /\ ChildBurst(p)
  /\ cmsgsnd_memory(p)
  /\ UNCHANGED <<va_arr, flag, done, served>>

VChildSend(p) == ChildSend(p) /\ UNCHANGED memoryVars
VChildNotify(p) == ChildNotify(p) /\ UNCHANGED memoryVars

-----------------------------------------------------------------------------
(* Signals *)

\* As Deliver of Scheduler; here SIGUSR1 too finds handlers asleep, and a handler
\* may be asleep for addresses.
VDeliver(sig) ==
  /\ status = "running"
  /\ sig \in pending
  /\ \A i \in 1..Depth : frames[i].sig # sig
  /\ pending' = pending \ {sig}
  /\ LET interrupted == IF Depth > 0 /\ Top.pc \in {"asleep", "memory_asleep"}
                        THEN [frames EXCEPT ![Depth].pc = "eintr"]
                        ELSE frames
     IN  frames' = Append(interrupted, [sig |-> sig, pc |-> Entry(sig)])
  /\ UNCHANGED <<workload, forked, status, children, loop, queues, run_time,
                 results, times, memoryVars>>

\* The handlers follow cur_ready before each receive and each call of MMU.
VSegfault ==
  /\ status = "running"
  /\ Depth > 0
  /\ \/ cur_ready = NULL
        /\ Top.pc \in {"receive", "requeue", "burst", "account", "cont", "memory", "mmu"}
     \/ CurIdx = -1 /\ Top.pc = "mmu"   \* page table -1
  /\ status' = "crashed"
  /\ UNCHANGED <<workload, forked, children, pending, frames, loop, queues,
                 run_time, results, times, memoryVars>>

VInterrupted ==
  /\ At("USR1", "eintr") \/ At("USR2", "eintr")
  /\ status' = "failed"
  /\ UNCHANGED <<workload, forked, children, pending, frames, loop, queues,
                 run_time, results, times, memoryVars>>

-----------------------------------------------------------------------------
(* pmsgrcv_schedule *)

VIoReceive ==
  /\ At("USR2", "receive") \/ At("USR2", "asleep")
  /\ cur_ready # NULL
  /\ Inbox # <<>>
  /\ cur_ready' = Received(cur_ready, Head(Inbox))
  /\ mq' = [mq EXCEPT ![cur_ready.idx] = Tail(@)]
  /\ Goto("memory")
  /\ UNCHANGED <<workload, forked, status, child, c_cpu, pending, loop, readyq,
                 waitq, counter, run_time, results, times, memoryVars>>

VIoSleep == IoSleep /\ UNCHANGED memoryVars

-----------------------------------------------------------------------------
(* signal_fcfs, signal_sjf and signal_rr, up to the receive *)

VBurstStep ==
  /\ At("USR1", "burst")
  /\ cur_ready # NULL
  /\ cur_ready' = [cur_ready EXCEPT !.cpu_burst = @ - 1]
  /\ counter' = IF set_scheduler = FCFS THEN counter ELSE counter + 1
  /\ Goto("memory")
  /\ UNCHANGED <<workload, forked, status, children, pending, loop, readyq, waitq,
                 run_time, results, times, memoryVars>>

-----------------------------------------------------------------------------
(* pmsgrcv_memory, in the handlers of SIGUSR1 and SIGUSR2 *)

\* The queue pmsgrcv_memory opens; for the idle PCB the key is 0, a new private
\* queue, in which nothing will ever be.
AddressBox == IF cur_ready.idx = -1 THEN <<>> ELSE vq[cur_ready.idx]

\* A bug to be caught: the message is read and left in the queue.
RestOfBox_kept(p) == vq[p]

RestOfBox(p) == Tail(vq[p])

MemoryReceive(sig) ==
  /\ At(sig, "memory") \/ At(sig, "memory_asleep")
  /\ cur_ready # NULL
  /\ AddressBox # <<>>
  /\ va_arr' = [va_arr EXCEPT ![sig] = Head(AddressBox)]
  /\ vq' = [vq EXCEPT ![cur_ready.idx] = RestOfBox(cur_ready.idx)]
  /\ Goto("mmu")
  /\ UNCHANGED <<workload, forked, status, children, pending, loop, queues, run_time,
                 results, times, sent, flag, done, served>>

MemorySleep(sig) ==
  /\ At(sig, "memory")
  /\ cur_ready # NULL
  /\ AddressBox = <<>>
  /\ Goto("memory_asleep")
  /\ UNCHANGED <<workload, forked, status, children, pending, loop, queues, run_time,
                 results, times, memoryVars>>

-----------------------------------------------------------------------------
(* The call of MMU *)

\* A bug to be caught: nothing is performed in the last tick.
TooLate_always == Now = RUN_TIME

\* A second call of MMU in the last tick returns at once.
TooLate == Now = RUN_TIME /\ flag

\* After the addresses, signal_io moves the process to a queue; the burst handlers
\* do if the slice or the burst is over.
AfterMemory(sig) ==
  IF sig = "USR2" \/ Preempt(cur_ready.cpu_burst, counter)
  THEN Goto("requeue") ELSE Return

\* MMU(va_arr, cur_ready->pcb.idx, RUN_TIME - run_time)
CallMMU(sig) ==
  /\ At(sig, "mmu")
  /\ CurIdx # -1
  /\ IF TooLate
     THEN UNCHANGED <<done, served>>
     ELSE /\ done' = [done EXCEPT ![CurIdx] = @ + 1]
          /\ served' = [by |-> CurIdx, batch |-> va_arr[sig]]
  /\ flag' = (flag \/ Now = RUN_TIME)
  /\ AfterMemory(sig)
  /\ UNCHANGED <<workload, forked, status, children, pending, loop, queues, run_time,
                 results, times, vq, sent, va_arr>>

-----------------------------------------------------------------------------
(* The rest of the handlers *)

VIoRequeue == IoRequeue /\ UNCHANGED memoryVars
VIoDispatch == IoDispatch /\ UNCHANGED memoryVars
VBurstRequeue == BurstRequeue /\ UNCHANGED memoryVars
VBurstDispatch == BurstDispatch /\ UNCHANGED memoryVars
VCountAccount == CountAccount /\ UNCHANGED memoryVars
VCountIo == (CountIo \/ CountIoDone) /\ UNCHANGED memoryVars
VCountCont == CountCont /\ UNCHANGED memoryVars
VCountTimer == CountTimer /\ UNCHANGED memoryVars
VShutdownStart == ShutdownStart /\ UNCHANGED memoryVars

NextQueue(pc, after) ==
  /\ loop' = IF loop + 1 < MAX_PROCESS THEN loop + 1 ELSE 0
  /\ Goto(IF loop + 1 < MAX_PROCESS THEN pc ELSE after)

\* Three loops: first every queue of bursts is removed, ...
VShutdownRmid ==
  /\ At("ALRM", "rmid")
  /\ mq' = [mq EXCEPT ![loop] = <<>>]
  /\ NextQueue("rmid", "rmid_memory")
  /\ UNCHANGED <<workload, forked, status, child, c_cpu, pending, queues, run_time,
                 results, times, memoryVars>>

\* ... then every queue of addresses, ...
VShutdownRmidMemory ==
  /\ At("ALRM", "rmid_memory")
  /\ vq' = [vq EXCEPT ![loop] = <<>>]
  /\ NextQueue("rmid_memory", "kill")
  /\ UNCHANGED <<workload, forked, status, children, pending, queues, run_time,
                 results, times, sent, va_arr, flag, done, served>>

\* ... and then every child is killed.
VShutdownKill ==
  /\ At("ALRM", "kill")
  /\ child' = [child EXCEPT ![loop] = "dead"]
  /\ NextQueue("kill", "exit")
  /\ UNCHANGED <<workload, forked, status, c_cpu, mq, pending, queues, run_time,
                 results, times, memoryVars>>

VShutdownExit == ShutdownExit /\ UNCHANGED memoryVars

-----------------------------------------------------------------------------
VChildStep(p) ==
  VChildStop(p) \/ VChildBurst(p) \/ VChildSend(p) \/ VChildNotify(p)

VHandlerStep ==
  \/ VSegfault \/ VInterrupted
  \/ VIoReceive \/ VIoSleep \/ VIoRequeue \/ VIoDispatch
  \/ VBurstStep \/ VBurstRequeue \/ VBurstDispatch
  \/ \E sig \in {"USR1", "USR2"} : MemoryReceive(sig) \/ MemorySleep(sig) \/ CallMMU(sig)
  \/ VCountAccount \/ VCountIo \/ VCountCont \/ VCountTimer
  \/ VShutdownStart \/ VShutdownRmid \/ VShutdownRmidMemory \/ VShutdownKill
  \/ VShutdownExit

VParentStep ==
  \/ VFork \/ VForkFails \/ VStartTimer
  \/ \E sig \in Signals : VDeliver(sig)
  \/ VHandlerStep

VNext == VTick \/ VParentStep \/ \E p \in Procs : VChildStep(p)

VSpec == VInit /\ [][VNext]_vmVars

\* The fairness of Scheduler: the kernel schedules everybody, the timer goes on.
VFairSpec ==
  /\ VSpec
  /\ WF_vmVars(VTick)
  /\ WF_vmVars(VParentStep)
  /\ \A p \in Procs : WF_vmVars(VChildStep(p))

-----------------------------------------------------------------------------
(* Properties *)

\* Addresses are performed in the name of the process that sent them, each batch
\* once and in the order sent, though the sender is never told about and the
\* parent goes by cur_ready at the time of the receive and of the call.
ServedInOwnName ==
  served.by # -1 => served.batch = <<served.by, done[served.by]>>

\* Between ticks no batch is under way: the parent performs the accesses of a unit
\* of the burst before the next unit is granted.
NothingUnderWay ==
  status = "running" /\ Quiescent =>
    \A p \in Procs : vq[p] = <<>> /\ done[p] = sent[p]

\* Accesses and bursts are told by different messages and agree: the batches
\* performed for a process are the units its completed bursts and the burst it is
\* in have used.
AccessesMatchBursts ==
  status = "running" /\ Quiescent =>
    \A p \in Procs : (done[p] + c_cpu[p]) % cpu_burst[p] = 0

\* Until the time is up every tick is answered, with one message more to wait for
\* in every handler.
VTimeRunsOut == <>(run_time = 0 \/ status \in {"failed", "crashed"})
=============================================================================
