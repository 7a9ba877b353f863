--------------------------- MODULE SchedulerProofs ---------------------------
(***************************************************************************)
(* Proofs about Scheduler, for any number of processes and any bursts.     *)
(*                                                                         *)
(* First, with ticks at any time: whatever handlers nest, signal_count     *)
(* never dequeues from an empty wait queue, and only under SJF is there a  *)
(* null pointer for a handler to follow.  The argument is about the stack  *)
(* of handlers.  A handler is not interrupted by its own signal, so at     *)
(* most one signal_count is in progress and loop is its own; every other   *)
(* handler leaves loop alone and the wait queue no shorter.                *)
(*                                                                         *)
(* Then, with ticks in time (InTime): where the PCBs are, what they and    *)
(* the counters hold, and who is dispatched.  A tick finds nothing going   *)
(* on and starts one piece of work, which is at one place at a time: the   *)
(* pending SIGALRM, signal_count, the child it continues, the signal of    *)
(* that child, the handler of that signal.  The rest of signal_count,      *)
(* which runs on when the child has been continued, counts the tick or     *)
(* shuts down, and the handler of the child's signal may interrupt it      *)
(* there.  What the PCBs, the children and the counters have in common     *)
(* depends on the place alone.                                             *)
(***************************************************************************)
EXTENDS MCScheduler, HeapProofs, FiniteSetTheorems

\* A signal has at most one handler in progress.
OneFrameEach ==
  \A i, j \in 1..Depth : frames[i].sig = frames[j].sig => i = j

FramesOK == frames \in Seq(HandlerPoints) /\ OneFrameEach

\* An empty heap alone yields a null pointer.
NullUnderSJF == set_scheduler # SJF => cur_ready # NULL /\ NoCrash

\* The inductive invariant.
IInv == TypeOK /\ OneFrameEach /\ LoopWithinQueue /\ NullUnderSJF

-----------------------------------------------------------------------------
(* The stack of handlers *)

\* A frame is a record of HandlerPoints.
LEMMA FrameType ==
  ASSUME FramesOK
  PROVE  /\ Depth \in Nat
         /\ \A i \in 1..Depth : frames[i] \in HandlerPoints
         /\ Depth > 0 => Depth \in 1..Depth
BY DEF FramesOK, Depth

\* Only a signal_count is at its loop over the wait queue.
LEMMA LoopIsCount ==
  ASSUME NEW f \in HandlerPoints, f.pc = "iowait"
  PROVE  f.sig = "ALRM"
BY DEF HandlerPoints

\* The topmost handler is a signal_count and not at its loop: none is.
LEMMA NotInLoop ==
  ASSUME FramesOK, NEW pc, pc # "iowait", At("ALRM", pc)
  PROVE  ~InHandler("iowait")
<1> SUFFICES ASSUME NEW i \in 1..Depth, frames[i].pc = "iowait"
             PROVE  FALSE
  BY DEF InHandler
<1>1. Depth \in 1..Depth /\ frames[Depth] = [sig |-> "ALRM", pc |-> pc]
  BY FrameType DEF At, Top
<1>2. frames[i].sig = "ALRM"
  BY FrameType, LoopIsCount
<1>3. i = Depth
  BY <1>1, <1>2 DEF FramesOK, OneFrameEach
<1> QED
  BY <1>1, <1>3

\* What a step of the topmost handler does to the stack when it goes on.
LEMMA GotoFrames ==
  ASSUME FramesOK, NEW sig, NEW pc, NEW next, At(sig, pc), Goto(next),
         [sig |-> sig, pc |-> next] \in HandlerPoints
  PROVE  /\ FramesOK'
         /\ Depth' = Depth
         /\ frames'[Depth] = [sig |-> sig, pc |-> next]
         /\ \A i \in 1..(Depth - 1) : frames'[i] = frames[i]
<1>1. Depth \in Nat /\ Depth > 0 /\ Depth \in 1..Depth
      /\ frames[Depth] = [sig |-> sig, pc |-> pc]
  BY FrameType DEF At, Top
<1>2. frames' = [frames EXCEPT ![Depth] = [sig |-> sig, pc |-> next]]
  <2>1. [frames[Depth] EXCEPT !.pc = next] = [sig |-> sig, pc |-> next]
    BY <1>1
  <2>2. frames' = [frames EXCEPT ![Depth] = [frames[Depth] EXCEPT !.pc = next]]
    BY DEF Goto
  <2> QED
    BY <2>1, <2>2
<1>3. frames' \in Seq(HandlerPoints) /\ Len(frames') = Depth
      /\ \A i \in 1..Depth :
           frames'[i] = IF i = Depth THEN [sig |-> sig, pc |-> next] ELSE frames[i]
  BY <1>1, <1>2, ExceptSeq DEF FramesOK, Depth
<1>4. \A i \in 1..Depth : frames'[i].sig = frames[i].sig
  BY <1>1, <1>3
<1>5. Depth' = Depth
  BY <1>3 DEF Depth
<1>6. OneFrameEach'
  BY <1>4, <1>5 DEF FramesOK, OneFrameEach
<1> QED
  BY <1>1, <1>3, <1>5, <1>6 DEF FramesOK

\* What its return does.
LEMMA ReturnFrames ==
  ASSUME FramesOK, Depth > 0, Return
  PROVE  /\ FramesOK'
         /\ Depth' = Depth - 1
         /\ \A i \in 1..(Depth - 1) : frames'[i] = frames[i]
<1>1. Depth \in Nat /\ Depth - 1 \in Nat
  BY FrameType
<1>2. frames' \in Seq(HandlerPoints) /\ Len(frames') = Depth - 1
      /\ \A i \in 1..(Depth - 1) : frames'[i] = frames[i]
  <2>1. frames' = SubSeq(frames, 1, Depth - 1)
    BY DEF Return
  <2>2. \A i \in 1..(Depth - 1) : frames[i] \in HandlerPoints
    BY <1>1, FrameType
  <2>3. /\ SubSeq(frames, 1, Depth - 1) \in Seq(HandlerPoints)
        /\ Len(SubSeq(frames, 1, Depth - 1)) =
             IF 1 <= Depth - 1 THEN (Depth - 1) - 1 + 1 ELSE 0
        /\ \A i \in 1..((Depth - 1) - 1 + 1) :
             SubSeq(frames, 1, Depth - 1)[i] = frames[1 + i - 1]
    BY <1>1, <2>2, SubSeqProperties
  <2> QED
    BY <1>1, <2>1, <2>3
<1>3. Depth' = Depth - 1
  BY <1>2 DEF Depth
<1>4. OneFrameEach'
  BY <1>1, <1>2, <1>3 DEF FramesOK, OneFrameEach
<1> QED
  BY <1>2, <1>3, <1>4 DEF FramesOK

\* What the delivery of a signal does.
LEMMA DeliverFrames ==
  ASSUME FramesOK, NEW sig \in Signals, Deliver(sig)
  PROVE  /\ FramesOK'
         /\ InHandler("iowait")' => InHandler("iowait")
<1> DEFINE before == IF Depth > 0 /\ Top.pc = "asleep"
                     THEN [frames EXCEPT ![Depth].pc = "eintr"]
                     ELSE frames
           entry == [sig |-> sig, pc |-> Entry(sig)]
<1>1. entry \in HandlerPoints /\ entry.pc # "iowait" /\ entry.sig = sig
  BY DEF Entry, HandlerPoints, Signals
<1>2. /\ before \in Seq(HandlerPoints)
      /\ Len(before) = Depth
      /\ \A i \in 1..Depth : /\ before[i].sig = frames[i].sig
                             /\ before[i].pc = "iowait" => frames[i].pc = "iowait"
  <2>1. CASE Depth > 0 /\ Top.pc = "asleep"
    <3>1. Depth \in 1..Depth /\ Depth \in Nat
          /\ frames[Depth] \in HandlerPoints /\ frames[Depth].pc = "asleep"
      BY <2>1, FrameType DEF Top
    <3>2. frames[Depth] = [sig |-> "USR2", pc |-> "asleep"]
      BY <3>1 DEF HandlerPoints
    <3>3. before = [frames EXCEPT ![Depth] = [sig |-> "USR2", pc |-> "eintr"]]
      <4>1. [frames[Depth] EXCEPT !.pc = "eintr"] =
              [sig |-> "USR2", pc |-> "eintr"]
        BY <3>2
      <4>2. before = [frames EXCEPT ![Depth] = [frames[Depth] EXCEPT !.pc = "eintr"]]
        BY <2>1
      <4> QED
        BY <4>1, <4>2
    <3>4. [sig |-> "USR2", pc |-> "eintr"] \in HandlerPoints
      BY DEF HandlerPoints
    <3> HIDE DEF before
    <3>5. before \in Seq(HandlerPoints) /\ Len(before) = Depth
          /\ \A i \in 1..Depth :
               before[i] = IF i = Depth THEN [sig |-> "USR2", pc |-> "eintr"]
                                        ELSE frames[i]
      BY <3>1, <3>3, <3>4, ExceptSeq DEF FramesOK, Depth
    <3> QED
      BY <3>2, <3>5
  <2>2. CASE ~(Depth > 0 /\ Top.pc = "asleep")
    BY <2>2 DEF FramesOK, Depth
  <2> QED
    BY <2>1, <2>2
<1>3. frames' = Append(before, entry)
  BY DEF Deliver
<1>4. \A i \in 1..Depth : frames[i].sig # sig
  BY DEF Deliver
<1>5. Depth \in Nat
  BY FrameType
<1> HIDE DEF before, entry
<1>6. /\ frames' \in Seq(HandlerPoints)
      /\ Len(frames') = Depth + 1
      /\ \A i \in 1..Depth : frames'[i] = before[i]
      /\ frames'[Depth + 1] = entry
  BY <1>1, <1>2, <1>3, AppendProperties
<1>7. Depth' = Depth + 1
  BY <1>6 DEF Depth
<1>8. OneFrameEach'
  <2> SUFFICES ASSUME NEW i \in 1..(Depth + 1), NEW j \in 1..(Depth + 1),
                      frames'[i].sig = frames'[j].sig
               PROVE  i = j
    BY <1>7 DEF OneFrameEach
  <2>1. CASE i \in 1..Depth /\ j \in 1..Depth
    BY <2>1, <1>2, <1>6 DEF FramesOK, OneFrameEach
  <2>2. CASE i = Depth + 1 \/ j = Depth + 1
    BY <2>2, <1>1, <1>2, <1>4, <1>5, <1>6
  <2> QED
    BY <2>1, <2>2, <1>5
<1>9. InHandler("iowait")' => InHandler("iowait")
  <2> SUFFICES ASSUME NEW i \in 1..(Depth + 1), frames'[i].pc = "iowait"
               PROVE  InHandler("iowait")
    BY <1>7 DEF InHandler
  <2>1. i \in 1..Depth
    BY <1>1, <1>5, <1>6
  <2> QED
    BY <2>1, <1>2, <1>6 DEF InHandler
<1> QED
  BY <1>6, <1>8, <1>9 DEF FramesOK

\* A step to a point other than the loop of signal_count brings nobody there.
LEMMA GotoKeeps ==
  ASSUME FramesOK, NEW sig, NEW pc, NEW next, next # "iowait",
         At(sig, pc), Goto(next), [sig |-> sig, pc |-> next] \in HandlerPoints
  PROVE  FramesOK' /\ (InHandler("iowait")' => InHandler("iowait"))
<1>1. /\ FramesOK' /\ Depth' = Depth
      /\ frames'[Depth].pc = next
      /\ \A i \in 1..(Depth - 1) : frames'[i] = frames[i]
  BY GotoFrames
<1>2. Depth \in Nat
  BY FrameType
<1>3. ASSUME NEW i \in 1..Depth, frames'[i].pc = "iowait"
      PROVE  i \in 1..(Depth - 1) /\ frames[i].pc = "iowait"
  BY <1>1, <1>2, <1>3
<1> QED
  BY <1>1, <1>2, <1>3 DEF InHandler

\* Nor does a return.
LEMMA ReturnKeeps ==
  ASSUME FramesOK, NEW sig, NEW pc, At(sig, pc), Return
  PROVE  FramesOK' /\ (InHandler("iowait")' => InHandler("iowait"))
<1>1. /\ FramesOK' /\ Depth' = Depth - 1
      /\ \A i \in 1..(Depth - 1) : frames'[i] = frames[i]
  BY ReturnFrames DEF At
<1>2. Depth \in Nat
  BY FrameType
<1> QED
  BY <1>1, <1>2 DEF InHandler

\* A step that brings no handler to the loop, leaves its counter alone and the
\* wait queue no shorter keeps the loop within the queue.
LEMMA LoopKept ==
  ASSUME LoopWithinQueue, InHandler("iowait")' => InHandler("iowait"),
         loop' = loop, loop \in Nat,
         Len(waitq) \in Nat, Len(waitq') \in Nat, Len(waitq) <= Len(waitq')
  PROVE  LoopWithinQueue'
BY DEF LoopWithinQueue

-----------------------------------------------------------------------------
(* The queues *)

\* The queue operations keep the types; null comes out of an empty heap alone.
LEMMA QueueTypes ==
  ASSUME NEW q \in Seq(Pcb), NEW pcb \in Pcb
  PROVE  /\ PutReady(q, pcb) \in Seq(Pcb)
         /\ FirstReady(q) \in Pcb \cup {NULL}
         /\ FirstReady(q) = NULL => set_scheduler = SJF
         /\ RestReady(q) \in Seq(Pcb)
<1>1. Idle \in Pcb /\ NULL \notin Pcb
  BY NullAssumption DEF Idle, Pcb
<1>2. Keyed(Pcb)
  BY DEF Keyed, Pcb
<1>3. PutReady(q, pcb) \in Seq(Pcb)
  BY <1>2, InsertKeepsHeap, AppendProperties DEF PutReady
<1>4. CASE q = <<>>
  BY <1>1, <1>3, <1>4 DEF FirstReady, RestReady
<1>5. CASE q # <<>>
  <2>1. Head(q) \in Pcb /\ Tail(q) \in Seq(Pcb)
    BY <1>5, HeadTailProperties
  <2>2. RestOfHeap(q) \in Seq(Pcb)
    BY <1>2, <1>5, DeleteKeepsHeap
  <2> QED
    BY <1>1, <1>3, <1>5, <2>1, <2>2 DEF FirstReady, RestReady
<1> QED
  BY <1>4, <1>5

\* A PCB one of whose bursts is counted down is a PCB.
LEMMA CountedDown ==
  ASSUME NEW pcb \in Pcb
  PROVE  /\ [pcb EXCEPT !.cpu_burst = @ - 1] \in Pcb
         /\ [pcb EXCEPT !.io_burst = @ - 1] \in Pcb
<1>1. pcb.cpu_burst - 1 \in Int /\ pcb.io_burst - 1 \in Int
  BY DEF Pcb
<1> QED
  BY <1>1 DEF Pcb

-----------------------------------------------------------------------------
(* The inductive invariant of ticks at any time *)

\* It holds at the start.
LEMMA InitIInv ==
  ASSUME Init
  PROVE  IInv
<1>1. Depth = 0 /\ frames \in Seq(HandlerPoints)
  BY EmptySeq DEF Init, Depth
<1>2. OneFrameEach /\ LoopWithinQueue
  BY <1>1 DEF OneFrameEach, LoopWithinQueue, InHandler
<1>3. mq \in [Procs -> Seq(Message)] /\ readyq \in Seq(Pcb) /\ waitq \in Seq(Pcb)
  BY EmptySeq DEF Init
<1>4. cur_ready \in Pcb /\ NullUnderSJF
  BY NullAssumption DEF Init, Idle, Pcb, NullUnderSJF, NoCrash
<1>5. c_cpu \in [Procs -> Int] /\ child \in [Procs -> Positions]
  BY SchedulerAssumption DEF Init, Positions
<1>6. TypeOK
  BY <1>1, <1>3, <1>4, <1>5, SchedulerAssumption DEF Init, TypeOK
<1> QED
  BY <1>2, <1>4, <1>6 DEF IInv

\* It holds after a stutter.
LEMMA StutterIInv ==
  ASSUME IInv, UNCHANGED vars
  PROVE  IInv'
BY DEF IInv, TypeOK, OneFrameEach, LoopWithinQueue, InHandler, NullUnderSJF, NoCrash, Depth,
       vars, workload, children, queues, results, times

\* A step that keeps the types, leaves loop alone, brings no handler to the loop
\* and makes the wait queue no shorter keeps the invariant.
LEMMA StepKeeps ==
  ASSUME IInv, TypeOK', FramesOK', InHandler("iowait")' => InHandler("iowait"),
         loop' = loop, waitq' = waitq \/ \E pcb \in Pcb : waitq' = Append(waitq, pcb),
         NullUnderSJF'
  PROVE  IInv'
<1>1. waitq \in Seq(Pcb) /\ waitq' \in Seq(Pcb) /\ loop \in Nat
  BY DEF IInv, TypeOK
<1>2. Len(waitq) \in Nat /\ Len(waitq') \in Nat /\ Len(waitq) <= Len(waitq')
  BY <1>1, LenProperties, AppendProperties
<1>3. LoopWithinQueue'
  BY <1>1, <1>2, LoopKept DEF IInv
<1> QED
  BY <1>3 DEF IInv, FramesOK

\* A step that leaves the stack alone brings no handler to the loop.
LEMMA SameFrames ==
  ASSUME IInv, frames' = frames
  PROVE  FramesOK' /\ (InHandler("iowait")' => InHandler("iowait"))
BY DEF IInv, TypeOK, FramesOK, OneFrameEach, InHandler, Depth

\* main up to the timer.
LEMMA StartIInv ==
  ASSUME IInv, Fork \/ ForkFails \/ StartTimer
  PROVE  IInv'
<1>1. CASE Fork
  <2> DEFINE new == [idx |-> forked, cpu_burst |-> cpu_burst[forked],
                     io_burst |-> io_burst[forked]]
  <2>1. forked \in Procs /\ forked' \in 0..MAX_PROCESS
    BY <1>1, SchedulerAssumption DEF Fork, IInv, TypeOK, Procs
  <2>2. new \in Pcb
    BY <2>1, SchedulerAssumption DEF IInv, TypeOK, Pcb
  <2>3. readyq' \in Seq(Pcb)
    BY <1>1, <2>2, QueueTypes DEF Fork, IInv, TypeOK
  <2>4. arrival_time' \in [Procs -> 0..RUN_TIME]
    <3>1. RUN_TIME - run_time \in 0..RUN_TIME
      BY SchedulerAssumption DEF IInv, TypeOK
    <3> QED
      BY <1>1, <3>1 DEF Fork, IInv, TypeOK
  <2>5. child' \in [Procs -> Positions]
    BY <1>1 DEF Fork, IInv, TypeOK, Positions
  <2>6. UNCHANGED <<frames, loop, waitq>> /\ NullUnderSJF'
    BY <1>1 DEF Fork, IInv, NullUnderSJF, NoCrash, workload
  <2>7. TypeOK'
    BY <1>1, <2>1, <2>3, <2>4, <2>5 DEF Fork, IInv, TypeOK, workload, results
  <2> QED
    BY <2>6, <2>7, SameFrames, StepKeeps
<1>2. CASE ForkFails
  <2>1. UNCHANGED <<frames, loop, waitq, cur_ready>> /\ NullUnderSJF'
    BY <1>2 DEF ForkFails, queues, IInv, NullUnderSJF, NoCrash, workload
  <2>2. TypeOK'
    BY <1>2 DEF ForkFails, IInv, TypeOK, workload, children, queues, results, times
  <2> QED
    BY <2>1, <2>2, SameFrames, StepKeeps DEF IInv
<1>3. CASE StartTimer
  <2>1. /\ cur_ready' \in Pcb \cup {NULL} /\ readyq' \in Seq(Pcb)
        /\ cur_ready' = NULL => set_scheduler = SJF
    <3>1. Idle \in Pcb /\ readyq \in Seq(Pcb)
      BY DEF Idle, Pcb, IInv, TypeOK
    <3> QED
      BY <1>3, <3>1, QueueTypes DEF StartTimer
  <2>2. UNCHANGED <<frames, loop, waitq>> /\ NullUnderSJF'
    BY <1>3, <2>1 DEF StartTimer, IInv, NullUnderSJF, NoCrash, workload
  <2>3. TypeOK'
    BY <1>3, <2>1 DEF StartTimer, IInv, TypeOK, workload, children, results, times
  <2> QED
    BY <2>1, <2>2, <2>3, SameFrames, StepKeeps
<1> QED
  BY <1>1, <1>2, <1>3

\* The children and the timer.
LEMMA ChildIInv ==
  ASSUME IInv, Tick \/ \E p \in Procs : ChildStep(p)
  PROVE  IInv'
<1>1. CASE Tick
  <2>1. UNCHANGED <<frames, loop, waitq>> /\ NullUnderSJF'
    BY <1>1 DEF Tick, queues, IInv, NullUnderSJF, NoCrash, workload
  <2>2. TypeOK'
    BY <1>1 DEF Tick, IInv, TypeOK, workload, children, queues, results, times, Signals
  <2> QED
    BY <2>1, <2>2, SameFrames, StepKeeps
<1>2. ASSUME NEW p \in Procs, ChildStep(p)
      PROVE  IInv'
  <2>1. UNCHANGED <<workload, forked, status, frames, loop, queues, run_time,
                    results, times>>
    BY <1>2 DEF ChildStep, ChildStop, ChildBurst, ChildSend, ChildNotify
  <2>2. child' \in [Procs -> Positions]
    BY ZenonT(60), <1>2 DEF ChildStep, ChildStop, ChildBurst, ChildSend, ChildNotify, IInv,
                TypeOK, Positions
  <2>3. c_cpu' \in [Procs -> Int]
    <3>1. BurstLeft(p) \in Int
      BY <1>2, SchedulerAssumption DEF BurstLeft, IInv, TypeOK
    <3>2. c_cpu' = c_cpu \/ c_cpu' = [c_cpu EXCEPT ![p] = BurstLeft(p)]
      BY <1>2 DEF ChildStep, ChildStop, ChildBurst, ChildSend, ChildNotify
    <3> QED
      BY <3>1, <3>2 DEF IInv, TypeOK
  <2>4. mq' \in [Procs -> Seq(Message)]
    <3>1. [cpu_time |-> c_cpu[p], io_time |-> io_burst[p]] \in Message
      BY <1>2, SchedulerAssumption DEF IInv, TypeOK, Message
    <3>2. Sent(p) \in Seq(Message)
      <4>1. mq[p] \in Seq(Message)
        BY <1>2 DEF IInv, TypeOK
      <4> QED
        BY <3>1, <4>1, AppendProperties DEF Sent
    <3> QED
      BY ZenonT(60), <1>2, <3>2 DEF ChildStep, ChildStop, ChildBurst, ChildSend, ChildNotify,
                        IInv, TypeOK
  <2>5. pending' \subseteq Signals
    BY <1>2 DEF ChildStep, ChildStop, ChildBurst, ChildSend, ChildNotify, IInv,
                TypeOK, Signals
  <2>6. TypeOK'
    BY <2>1, <2>2, <2>3, <2>4, <2>5 DEF IInv, TypeOK, workload, queues, results, times
  <2>7. UNCHANGED <<frames, loop, waitq>> /\ NullUnderSJF'
    BY <2>1 DEF queues, IInv, NullUnderSJF, NoCrash, workload
  <2> QED
    BY <2>6, <2>7, SameFrames, StepKeeps
<1> QED
  BY <1>1, <1>2

\* The delivery of a signal.
LEMMA DeliverIInv ==
  ASSUME IInv, NEW sig \in Signals, Deliver(sig)
  PROVE  IInv'
<1>1. FramesOK' /\ (InHandler("iowait")' => InHandler("iowait"))
  BY DeliverFrames DEF IInv, TypeOK, FramesOK
<1>2. UNCHANGED <<loop, waitq>> /\ NullUnderSJF'
  BY DEF Deliver, queues, IInv, NullUnderSJF, NoCrash, workload
<1>3. TypeOK'
  BY <1>1 DEF Deliver, FramesOK, IInv, TypeOK, workload, children, queues, results, times
<1> QED
  BY <1>1, <1>2, <1>3, StepKeeps

\* signal_io.
LEMMA IoIInv ==
  ASSUME IInv,
         IoReceive \/ IoSleep \/ IoInterrupted \/ IoRequeue \/ IoDispatch
  PROVE  IInv'
<1> USE DEF IInv
<1>0. /\ FramesOK /\ Idle \in Pcb /\ readyq \in Seq(Pcb) /\ waitq \in Seq(Pcb)
      /\ cur_ready # NULL => cur_ready \in Pcb
  BY DEF TypeOK, FramesOK, Idle, Pcb
<1>a. ASSUME NEW pc \in {"receive", "asleep", "eintr", "requeue", "dispatch"}
      PROVE  [sig |-> "USR2", pc |-> pc] \in HandlerPoints
  BY DEF HandlerPoints
<1>1. CASE IoReceive
  <2>1. FramesOK' /\ (InHandler("iowait")' => InHandler("iowait"))
    BY <1>0, <1>1, <1>a, GotoKeeps DEF IoReceive
  <2>2. cur_ready.idx \in Procs /\ Inbox = mq[cur_ready.idx] /\ Inbox # <<>>
    BY <1>0, <1>1 DEF IoReceive, Inbox, Pcb
  <2>3. mq[cur_ready.idx] \in Seq(Message)
    BY <2>2 DEF TypeOK
  <2>4. Head(Inbox) \in Message /\ Tail(mq[cur_ready.idx]) \in Seq(Message)
    BY <2>2, <2>3, HeadTailProperties
  <2>5. cur_ready' \in Pcb
    <3>1. cur_ready' = Received(cur_ready, Head(Inbox))
      BY <1>1 DEF IoReceive
    <3> QED
      BY <1>0, <1>1, <2>4, <3>1 DEF IoReceive, Received, Pcb, Message
  <2>6. mq' \in [Procs -> Seq(Message)]
    BY <1>1, <2>4 DEF IoReceive, TypeOK
  <2>7. UNCHANGED <<loop, waitq>> /\ NullUnderSJF'
    BY <1>1, <2>5, NullAssumption DEF IoReceive, NullUnderSJF, NoCrash, At, workload
  <2>8. TypeOK'
    BY <1>1, <2>1, <2>5, <2>6 DEF IoReceive, FramesOK, TypeOK, workload, results, times
  <2> QED
    BY <2>1, <2>5, <2>7, <2>8, StepKeeps
<1>2. CASE IoSleep
  <2>1. FramesOK' /\ (InHandler("iowait")' => InHandler("iowait"))
    BY <1>0, <1>2, <1>a, GotoKeeps DEF IoSleep
  <2>2. UNCHANGED <<loop, waitq, cur_ready>> /\ NullUnderSJF'
    BY <1>2 DEF IoSleep, NullUnderSJF, NoCrash, workload, queues
  <2>3. TypeOK'
    BY <1>2, <2>1 DEF IoSleep, FramesOK, TypeOK, workload, children, queues, results,
                      times
  <2> QED
    BY <2>1, <2>2, <2>3, StepKeeps
<1>3. CASE IoInterrupted
  <2>1. UNCHANGED <<frames, loop, waitq, cur_ready>> /\ NullUnderSJF'
    BY <1>3 DEF IoInterrupted, NullUnderSJF, NoCrash, workload, queues
  <2>2. TypeOK'
    BY <1>3 DEF IoInterrupted, TypeOK, workload, children, queues, results, times
  <2> QED
    BY <2>1, <2>2, SameFrames, StepKeeps
<1>4. CASE IoRequeue
  <2>1. FramesOK' /\ (InHandler("iowait")' => InHandler("iowait"))
    BY <1>0, <1>4, <1>a, GotoKeeps DEF IoRequeue
  <2>2. /\ waitq' = waitq \/ waitq' = Append(waitq, cur_ready)
        /\ readyq' = readyq \/ readyq' = PutReady(readyq, cur_ready)
    BY <1>4 DEF IoRequeue
  <2>3. waitq' \in Seq(Pcb) /\ readyq' \in Seq(Pcb)
    <3>0. cur_ready \in Pcb
      BY <1>0, <1>4 DEF IoRequeue
    <3>1. PutReady(readyq, cur_ready) \in Seq(Pcb)
      BY <1>0, <3>0, QueueTypes
    <3>2. Append(waitq, cur_ready) \in Seq(Pcb)
      BY <1>0, <3>0, AppendProperties
    <3> QED
      BY <1>0, <2>2, <3>1, <3>2
  <2>4. UNCHANGED <<loop, cur_ready>> /\ NullUnderSJF'
    BY <1>4 DEF IoRequeue, NullUnderSJF, NoCrash, workload
  <2>5. TypeOK'
    BY <1>4, <2>1, <2>3 DEF IoRequeue, FramesOK, TypeOK, workload, children, results,
                            times
  <2>6. cur_ready \in Pcb
    BY <1>0, <1>4 DEF IoRequeue
  <2> QED
    BY <2>1, <2>2, <2>4, <2>5, <2>6, StepKeeps
<1>5. CASE IoDispatch
  <2>1. FramesOK' /\ (InHandler("iowait")' => InHandler("iowait"))
    BY <1>0, <1>5, ReturnKeeps DEF IoDispatch
  <2>2. /\ cur_ready' \in Pcb \cup {NULL} /\ readyq' \in Seq(Pcb)
        /\ cur_ready' = NULL => set_scheduler = SJF
    BY <1>0, <1>5, QueueTypes DEF IoDispatch
  <2>3. UNCHANGED <<loop, waitq>> /\ NullUnderSJF'
    BY <1>5, <2>2 DEF IoDispatch, At, NullUnderSJF, NoCrash, workload
  <2>4. TypeOK'
    BY <1>5, <2>1, <2>2 DEF IoDispatch, FramesOK, TypeOK, workload, children, results,
                            times
  <2> QED
    BY <2>1, <2>2, <2>3, <2>4, StepKeeps
<1> QED
  BY <1>1, <1>2, <1>3, <1>4, <1>5

\* signal_fcfs and signal_rr.
LEMMA BurstIInv ==
  ASSUME IInv, BurstStep \/ BurstRequeue \/ BurstDispatch
  PROVE  IInv'
<1> USE DEF IInv
<1>0. /\ FramesOK /\ Idle \in Pcb /\ readyq \in Seq(Pcb)
      /\ cur_ready # NULL => cur_ready \in Pcb
  BY DEF TypeOK, FramesOK, Idle, Pcb
<1>a. ASSUME NEW pc \in {"burst", "requeue", "dispatch"}
      PROVE  [sig |-> "USR1", pc |-> pc] \in HandlerPoints
  BY DEF HandlerPoints
<1>1. CASE BurstStep
  <2>1. At("USR1", "burst") /\ (Goto("requeue") \/ Return)
    BY <1>1 DEF BurstStep
  <2>2. FramesOK' /\ (InHandler("iowait")' => InHandler("iowait"))
    <3>1. CASE Goto("requeue")
      BY <1>0, <1>a, <2>1, <3>1, GotoKeeps
    <3>2. CASE Return
      BY <1>0, <2>1, <3>2, ReturnKeeps
    <3> QED
      BY <2>1, <3>1, <3>2
  <2>3. cur_ready' \in Pcb
    BY <1>0, <1>1, CountedDown DEF BurstStep
  <2>4. counter' \in Nat
    BY <1>1 DEF BurstStep, TypeOK
  <2>5. UNCHANGED <<loop, waitq>> /\ NullUnderSJF'
    BY <1>1, <2>3, NullAssumption DEF BurstStep, NullUnderSJF, NoCrash, workload
  <2>6. TypeOK'
    BY <1>1, <2>2, <2>3, <2>4 DEF BurstStep, FramesOK, TypeOK, workload, children,
                                  results, times
  <2> QED
    BY <2>2, <2>3, <2>5, <2>6, StepKeeps
<1>2. CASE BurstRequeue
  <2>1. FramesOK' /\ (InHandler("iowait")' => InHandler("iowait"))
    BY <1>0, <1>2, <1>a, GotoKeeps DEF BurstRequeue
  <2>2. readyq' \in Seq(Pcb)
    BY <1>0, <1>2, QueueTypes DEF BurstRequeue
  <2>3. UNCHANGED <<loop, waitq, cur_ready>> /\ NullUnderSJF'
    BY <1>2 DEF BurstRequeue, NullUnderSJF, NoCrash, workload
  <2>4. TypeOK'
    BY <1>2, <2>1, <2>2 DEF BurstRequeue, FramesOK, TypeOK, workload, children, results,
                            times
  <2> QED
    BY <2>1, <2>3, <2>4, StepKeeps
<1>3. CASE BurstDispatch
  <2>1. FramesOK' /\ (InHandler("iowait")' => InHandler("iowait"))
    BY <1>0, <1>3, ReturnKeeps DEF BurstDispatch
  <2>2. /\ cur_ready' \in Pcb \cup {NULL} /\ readyq' \in Seq(Pcb)
        /\ cur_ready' = NULL => set_scheduler = SJF
    BY <1>0, <1>3, QueueTypes DEF BurstDispatch
  <2>3. UNCHANGED <<loop, waitq>> /\ NullUnderSJF'
    BY <1>3, <2>2 DEF BurstDispatch, At, NullUnderSJF, NoCrash, workload
  <2>4. TypeOK'
    BY <1>3, <2>1, <2>2 DEF BurstDispatch, FramesOK, TypeOK, workload, children,
                            results, times
  <2> QED
    BY <2>1, <2>2, <2>3, <2>4, StepKeeps
<1> QED
  BY <1>1, <1>2, <1>3

\* A step of signal_count that sets loop and goes to another point than its loop
\* over the wait queue: no handler is at that loop.
LEMMA CountKeeps ==
  ASSUME IInv, TypeOK', FramesOK', InHandler("iowait")' => InHandler("iowait"),
         ~InHandler("iowait"), UNCHANGED cur_ready, NullUnderSJF'
  PROVE  IInv'
BY DEF IInv, FramesOK, LoopWithinQueue

\* signal_count, up to the shutdown.
LEMMA CountIInv ==
  ASSUME IInv,
         CountAccount \/ CountIo \/ CountIoDone \/ CountCont \/ CountTimer
  PROVE  IInv'
<1> USE DEF IInv
<1>0. /\ FramesOK /\ (cur_ready # NULL => cur_ready \in Pcb)
      /\ readyq \in Seq(Pcb) /\ waitq \in Seq(Pcb)
      /\ Len(waitq) \in Nat /\ loop \in Nat
  BY LenProperties DEF TypeOK, FramesOK
<1>a. ASSUME NEW pc \in {"account", "iowait", "cont", "timer"}
      PROVE  [sig |-> "ALRM", pc |-> pc] \in HandlerPoints
  BY DEF HandlerPoints
<1>b. Now \in 0..RUN_TIME
  BY SchedulerAssumption DEF Now, TypeOK
<1>1. CASE CountAccount
  <2>1. FramesOK'
    BY <1>0, <1>1, <1>a, GotoFrames DEF CountAccount
  <2>2. loop' = Len(waitq) /\ UNCHANGED <<waitq, cur_ready>> /\ NullUnderSJF'
    BY <1>1 DEF CountAccount, IoIterations, queues, NullUnderSJF, NoCrash, workload
  <2>3. LoopWithinQueue'
    BY <1>0, <2>2 DEF LoopWithinQueue
  <2>4. /\ service_time' \in [Procs -> Nat] /\ proc_count' \in Nat
        /\ wait_time' \in Int /\ turnaround_time' \in Int
    <3>1. CASE cur_ready.idx = -1
      BY <1>1, <3>1 DEF CountAccount, TypeOK, results
    <3>2. CASE cur_ready.idx # -1
      <4> DEFINE p == cur_ready.idx
      <4>1. p \in Procs
        BY <1>0, <1>1, <3>2 DEF CountAccount, Pcb
      <4>2. service_time[p] \in Nat /\ arrival_time[p] \in Int
        BY <4>1, SchedulerAssumption DEF TypeOK
      <4>3. service_time' = [service_time EXCEPT ![p] = service_time[p] + 1]
        BY <1>1, <3>2 DEF CountAccount
      <4>4. service_time' \in [Procs -> Nat]
        BY <4>1, <4>2, <4>3 DEF TypeOK
      <4>5. CASE cur_ready.cpu_burst = 1
        <5>1. /\ proc_count' = proc_count + 1
              /\ wait_time' = wait_time + (Now - arrival_time[p])
              /\ turnaround_time' = turnaround_time
                   + (Now - (service_time[p] + 1) - arrival_time[p])
          BY <1>1, <3>2, <4>5 DEF CountAccount
        <5>2. proc_count \in Nat /\ wait_time \in Int /\ turnaround_time \in Int
              /\ Now \in Int
          BY <1>b, SchedulerAssumption DEF TypeOK
        <5> QED
          BY <4>2, <4>4, <5>1, <5>2
      <4>6. CASE cur_ready.cpu_burst # 1
        BY <1>1, <3>2, <4>4, <4>6 DEF CountAccount, TypeOK, results
      <4> QED
        BY <4>5, <4>6
    <3> QED
      BY <3>1, <3>2
  <2>5. TypeOK'
    BY <1>0, <1>1, <2>1, <2>2, <2>4 DEF CountAccount, FramesOK, TypeOK, workload,
                                        children, queues
  <2> QED
    BY <1>0, <2>1, <2>2, <2>3, <2>5 DEF FramesOK
<1>2. CASE CountIo
  <2>1. InHandler("iowait")
    BY <1>0, <1>2, FrameType DEF CountIo, At, Top, InHandler
  <2>2. loop > 0 /\ loop <= Len(waitq)
    BY <1>2, <2>1 DEF CountIo, LoopWithinQueue
  <2>3. waitq # <<>>
    BY <1>0, <2>2, EmptySeq
  <2>4. Head(waitq) \in Pcb /\ Tail(waitq) \in Seq(Pcb)
        /\ Len(Tail(waitq)) = Len(waitq) - 1
    BY <1>0, <2>3, HeadTailProperties
  <2> DEFINE pcb == [Head(waitq) EXCEPT !.io_burst = @ - 1]
  <2>5. pcb \in Pcb
    BY <2>4, CountedDown
  <2>6. loop' = loop - 1 /\ UNCHANGED <<frames, cur_ready>> /\ NullUnderSJF'
    BY <1>2 DEF CountIo, NullUnderSJF, NoCrash, workload
  <2>7. /\ readyq' \in Seq(Pcb) /\ waitq' \in Seq(Pcb)
        /\ Len(waitq') >= Len(waitq) - 1
        /\ arrival_time' \in [Procs -> 0..RUN_TIME]
        /\ service_time' \in [Procs -> Nat]
    <3>1. CASE pcb.io_burst = 0
      <4>1. IoOver(pcb)
        BY <1>2, <3>1 DEF CountIo
      <4>2. readyq' \in Seq(Pcb) /\ waitq' = Tail(waitq)
        BY <1>0, <2>5, <4>1, QueueTypes DEF IoOver
      <4>3. arrival_time' \in [Procs -> 0..RUN_TIME]
        BY <1>b, <4>1 DEF IoOver, TypeOK
      <4>4. service_time' \in [Procs -> Nat]
        BY <4>1 DEF IoOver, TypeOK
      <4> QED
        BY <1>0, <2>4, <4>2, <4>3, <4>4
    <3>2. CASE pcb.io_burst # 0
      <4>1. waitq' = Append(Tail(waitq), pcb) /\ UNCHANGED <<readyq, times>>
        BY <1>2, <3>2 DEF CountIo
      <4>2. waitq' \in Seq(Pcb) /\ Len(waitq') = Len(Tail(waitq)) + 1
        BY <2>4, <2>5, <4>1, AppendProperties
      <4> QED
        BY <1>0, <2>4, <4>1, <4>2 DEF TypeOK, times
    <3> QED
      BY <3>1, <3>2
  <2>8. LoopWithinQueue'
    <3>1. Len(waitq') \in Nat
      BY <2>7, LenProperties
    <3> QED
      BY <1>0, <2>2, <2>6, <2>7, <3>1 DEF LoopWithinQueue
  <2>9. TypeOK'
    <3>1. UNCHANGED <<workload, forked, status, children, pending, frames, cur_ready,
                      counter, run_time, results>>
      BY <1>2 DEF CountIo
    <3>2. loop' \in Nat
      BY <1>0, <2>2, <2>6
    <3> QED
      BY <2>7, <3>1, <3>2 DEF TypeOK, workload, children, results
  <2> QED
    BY <1>0, <2>6, <2>8, <2>9, SameFrames DEF FramesOK
<1>3. CASE CountIoDone
  <2>1. FramesOK' /\ (InHandler("iowait")' => InHandler("iowait"))
    BY <1>0, <1>3, <1>a, GotoKeeps DEF CountIoDone
  <2>2. UNCHANGED <<loop, waitq, cur_ready>> /\ NullUnderSJF'
    BY <1>3 DEF CountIoDone, NullUnderSJF, NoCrash, workload, queues
  <2>3. TypeOK'
    BY <1>3, <2>1 DEF CountIoDone, FramesOK, TypeOK, workload, children, queues,
                      results, times
  <2> QED
    BY <1>0, <2>1, <2>2, <2>3, StepKeeps
<1>4. CASE CountCont
  <2>1. FramesOK' /\ (InHandler("iowait")' => InHandler("iowait"))
    BY <1>0, <1>4, <1>a, GotoKeeps DEF CountCont
  <2>2. UNCHANGED <<loop, waitq, cur_ready>> /\ NullUnderSJF'
    BY <1>4 DEF CountCont, NullUnderSJF, NoCrash, workload, queues
  <2>3. child' \in [Procs -> Positions]
    BY <1>4 DEF CountCont, TypeOK, Positions
  <2>4. TypeOK'
    BY <1>4, <2>1, <2>3 DEF CountCont, FramesOK, TypeOK, workload, queues, results,
                            times
  <2> QED
    BY <1>0, <2>1, <2>2, <2>4, StepKeeps
<1>5. CASE CountTimer
  <2>1. FramesOK' /\ (InHandler("iowait")' => InHandler("iowait"))
    BY <1>0, <1>5, ReturnKeeps DEF CountTimer
  <2>2. UNCHANGED <<loop, waitq, cur_ready>> /\ NullUnderSJF'
    BY <1>5 DEF CountTimer, NullUnderSJF, NoCrash, workload, queues
  <2>3. run_time' \in 0..RUN_TIME
    BY <1>5, SchedulerAssumption DEF CountTimer, TypeOK
  <2>4. TypeOK'
    BY <1>5, <2>1, <2>3 DEF CountTimer, FramesOK, TypeOK, workload, children, queues,
                            results, times
  <2> QED
    BY <1>0, <2>1, <2>2, <2>4, StepKeeps
<1> QED
  BY <1>1, <1>2, <1>3, <1>4, <1>5

\* The loops of the shutdown: a step goes on to another statement of them, and a queue
\* of messages is removed, or a child killed.  Which statement follows and where loop
\* begins does not matter.
CloseStep ==
  /\ \E q \in {"rmid", "kill"}, next \in {"rmid", "kill", "exit"} : At("ALRM", q) /\ Goto(next)
  /\ loop' \in Nat
  /\ UNCHANGED <<workload, forked, status, c_cpu, pending, queues, run_time, results, times>>

RemoveStep ==
  CloseStep /\ child' = child /\ (mq' = mq \/ \E k : mq' = [mq EXCEPT ![k] = <<>>])

KillStep == CloseStep /\ mq' = mq /\ \E k : child' = [child EXCEPT ![k] = "dead"]

LEMMA ShutdownCloses ==
  ASSUME loop \in Nat
  PROVE  /\ ShutdownRmid => RemoveStep
         /\ ShutdownKill => KillStep
<1>1. ShutdownRmid => RemoveStep
  BY DEF ShutdownRmid, RemoveStep, CloseStep
<1>2. ASSUME ShutdownKill PROVE KillStep
  <2>1. PICK next : next = IF loop + 1 < MAX_PROCESS THEN "rmid" ELSE "exit"
    OBVIOUS
  <2>2. At("ALRM", "kill") /\ Goto(next) /\ next \in {"rmid", "kill", "exit"}
    BY <1>2, <2>1 DEF ShutdownKill
  <2>3. /\ loop' \in Nat /\ mq' = mq /\ child' = [child EXCEPT ![loop] = "dead"]
        /\ UNCHANGED <<workload, forked, status, c_cpu, pending, queues, run_time, results,
                       times>>
    BY <1>2 DEF ShutdownKill
  <2> QED
    BY <2>2, <2>3 DEF KillStep, CloseStep
<1> QED
  BY <1>1, <1>2

LEMMA CloseIInv ==
  ASSUME IInv, RemoveStep \/ KillStep
  PROVE  IInv'
<1> USE DEF IInv
<1>1. FramesOK
  BY DEF TypeOK, FramesOK
<1>2. PICK q \in {"rmid", "kill"}, next \in {"rmid", "kill", "exit"} :
        At("ALRM", q) /\ Goto(next)
  BY DEF RemoveStep, KillStep, CloseStep
<1>3. /\ loop' \in Nat
      /\ UNCHANGED <<workload, forked, status, c_cpu, pending, queues, run_time, results,
                     times>>
  BY DEF RemoveStep, KillStep, CloseStep
<1>4. [sig |-> "ALRM", pc |-> next] \in HandlerPoints
  BY DEF HandlerPoints
<1>5. FramesOK' /\ (InHandler("iowait")' => InHandler("iowait"))
  BY <1>1, <1>2, <1>4, GotoKeeps
<1>6. ~InHandler("iowait")
  BY <1>1, <1>2, NotInLoop
<1>7. UNCHANGED cur_ready /\ NullUnderSJF'
  BY <1>3 DEF NullUnderSJF, NoCrash, workload, queues
<1>8. mq' \in [Procs -> Seq(Message)]
  BY EmptySeq DEF RemoveStep, KillStep, TypeOK
<1>9. child' \in [Procs -> Positions]
  BY DEF RemoveStep, KillStep, TypeOK, Positions
<1>10. TypeOK'
  BY <1>3, <1>5, <1>8, <1>9 DEF FramesOK, TypeOK, workload, queues, results, times
<1> QED
  BY <1>5, <1>6, <1>7, <1>10, CountKeeps

\* The shutdown.
LEMMA ShutdownIInv ==
  ASSUME IInv, ShutdownStart \/ ShutdownRmid \/ ShutdownKill \/ ShutdownExit
  PROVE  IInv'
<1> USE DEF IInv
<1>0. FramesOK /\ loop \in Nat
  BY DEF TypeOK, FramesOK
<1>a. [sig |-> "ALRM", pc |-> "rmid"] \in HandlerPoints
  BY DEF HandlerPoints
<1>1. CASE ShutdownStart
  <2>1. FramesOK' /\ (InHandler("iowait")' => InHandler("iowait"))
    BY <1>0, <1>1, <1>a, GotoKeeps DEF ShutdownStart
  <2>2. ~InHandler("iowait")
    BY <1>0, <1>1, NotInLoop DEF ShutdownStart
  <2>3. UNCHANGED cur_ready /\ NullUnderSJF'
    BY <1>1 DEF ShutdownStart, NullUnderSJF, NoCrash, workload, queues
  <2>4. TypeOK'
    BY <1>1, <2>1 DEF ShutdownStart, FramesOK, TypeOK, workload, children, queues,
                      results, times
  <2> QED
    BY <2>1, <2>2, <2>3, <2>4, CountKeeps
<1>2. CASE ShutdownRmid \/ ShutdownKill
  BY <1>0, <1>2, ShutdownCloses, CloseIInv
<1>3. CASE ShutdownExit
  <2>1. UNCHANGED <<frames, loop, waitq, cur_ready>> /\ NullUnderSJF'
    BY <1>3 DEF ShutdownExit, NullUnderSJF, NoCrash, workload, queues
  <2>2. TypeOK'
    BY <1>3 DEF ShutdownExit, TypeOK, workload, children, queues, results, times
  <2> QED
    BY <2>1, <2>2, SameFrames, StepKeeps
<1> QED
  BY <1>1, <1>2, <1>3

\* The crash of a handler that follows a null cur_ready.
LEMMA SegfaultIInv ==
  ASSUME IInv, Segfault
  PROVE  IInv'
<1>1. UNCHANGED <<workload, frames, loop, queues>> /\ NullUnderSJF'
  BY DEF Segfault, IInv, NullUnderSJF, queues, workload
<1>2. TypeOK'
  BY DEF Segfault, IInv, TypeOK, workload, children, queues, results, times
<1> QED
  BY <1>1, <1>2, SameFrames, StepKeeps DEF queues

-----------------------------------------------------------------------------
(* The theorems of ticks at any time *)

\* Every step, of the handlers, the children and main, and none at all.
LEMMA NextIInv ==
  ASSUME IInv, [Next]_vars
  PROVE  IInv'
<1>1. CASE Tick \/ \E p \in Procs : ChildStep(p)
  BY <1>1, ChildIInv
<1>2. CASE Fork \/ ForkFails \/ StartTimer
  BY <1>2, StartIInv
<1>3. CASE \E sig \in Signals : Deliver(sig)
  BY <1>3, DeliverIInv
<1>4. CASE Segfault
  BY <1>4, SegfaultIInv
<1>5. CASE IoReceive \/ IoSleep \/ IoInterrupted \/ IoRequeue \/ IoDispatch
  BY <1>5, IoIInv
<1>6. CASE BurstStep \/ BurstRequeue \/ BurstDispatch
  BY <1>6, BurstIInv
<1>7. CASE CountAccount \/ CountIo \/ CountIoDone \/ CountCont \/ CountTimer
  BY <1>7, CountIInv
<1>8. CASE ShutdownStart \/ ShutdownRmid \/ ShutdownKill \/ ShutdownExit
  BY <1>8, ShutdownIInv
<1>9. CASE UNCHANGED vars
  BY <1>9, StutterIInv
<1> QED
  BY <1>1, <1>2, <1>3, <1>4, <1>5, <1>6, <1>7, <1>8, <1>9
     DEF Next, ParentStep, HandlerStep

\* The invariant holds in every reachable state, however ticks and signals
\* interrupt the handlers (main.c, u_signal.c with an empty sa_mask).
THEOREM Invariance == Spec => []IInv
<1>1. Init => IInv
  BY InitIInv
<1>2. IInv /\ [Next]_vars => IInv'
  BY NextIInv
<1> QED
  BY <1>1, <1>2, PTL DEF Spec

\* Type correctness.
THEOREM TypeCorrect == Spec => []TypeOK
<1>1. IInv => TypeOK
  BY DEF IInv
<1> QED
  BY <1>1, Invariance, PTL

\* signal_count never dequeues from an empty wait queue (u_signal.c, its loop
\* over the length it has read before).
THEOREM LoopStaysWithinQueue == Spec => []LoopWithinQueue
<1>1. IInv => LoopWithinQueue
  BY DEF IInv
<1> QED
  BY <1>1, Invariance, PTL

\* The null pointer that an empty heap yields is a matter of SJF alone: under FCFS and RR no
\* handler follows one.
THEOREM NeverNull ==
  ASSUME SJF \notin Schedulers
  PROVE  Spec => []NoCrash
<1>1. IInv => NoCrash
  BY DEF IInv, TypeOK, NullUnderSJF
<1> QED
  BY <1>1, Invariance, PTL

-----------------------------------------------------------------------------
(* Where the work of a tick is *)

\* The statements of a child between its SIGCONT and its signal.
Active == {"run", "send", "usr1", "usr2"}

\* A place is a pair (at, pc): nowhere, a pending signal, a statement of the
\* continued child, a statement of a handler.
Places ==
  ({"none"} \X {"none"})
  \cup ({"pending"} \X Signals)
  \cup ({"child"} \X Active)
  \cup ({"ALRM"} \X {"account", "iowait", "cont"})
  \cup ({"USR1"} \X {"burst", "requeue", "dispatch"})
  \cup ({"USR2"} \X {"receive", "asleep", "requeue", "dispatch"})

\* The work has not left signal_count for a child.
Early(at, pc) == at = "ALRM" \/ (at = "pending" /\ pc = "ALRM")

\* The rest of signal_count, when the work is elsewhere; from rmid on it is the
\* shutdown.
LateFrames == [sig : {"ALRM"}, pc : {"timer", "rmid", "kill", "exit"}]

Closing == Depth > 0 /\ frames[1].pc \in {"rmid", "kill", "exit"}

\* The stack: the handler where the work is, perhaps on the rest of signal_count.
StackOK(at, pc) ==
  LET own == IF at \in Signals THEN 1 ELSE 0
  IN  /\ Depth \in {own, own + 1}
      /\ own = 1 => frames[Depth] = [sig |-> at, pc |-> pc]
      /\ Depth = own + 1 => frames[1] \in LateFrames
      /\ Early(at, pc) => Depth = own

\* The children: at most one is active, and then it is the current process.
ChildrenOK(at, pc) ==
  /\ \A p \in Procs : /\ child[p] \in Active => at = "child" /\ p = CurIdx
                      /\ child[p] = "dead" => Closing
                      /\ Early(at, pc) => child[p] = "stopped"
  /\ at = "child" => CurIdx # -1 /\ child[CurIdx] = pc
  /\ at \in {"USR1", "USR2"} \/ (at = "pending" /\ pc # "ALRM") => CurIdx # -1

StatusOK(at) ==
  /\ status = "boot" => at = "none" /\ CurIdx = -1 /\ counter = 0
  /\ status = "running" => forked = MAX_PROCESS

ControlOK(at, pc) ==
  /\ <<at, pc>> \in Places
  /\ pending = (IF at = "pending" THEN {pc} ELSE {})
  /\ StackOK(at, pc) /\ ChildrenOK(at, pc) /\ StatusOK(at)

-----------------------------------------------------------------------------
(* Where the PCBs are *)

Idxs(q) == {pcb.idx : pcb \in Elements(q)}

\* The processes on the cpu: none while a handler has put the PCB back and not
\* yet taken the next.
OnCpu(pc) == IF pc = "dispatch" THEN {} ELSE {CurIdx} \ {-1}

HomesOK(pc) ==
  /\ DistinctIdx(readyq) /\ DistinctIdx(waitq)
  /\ Idxs(readyq) \cap Idxs(waitq) = {}
  /\ OnCpu(pc) \cap (Idxs(readyq) \cup Idxs(waitq)) = {}
  /\ Idxs(readyq) \cup Idxs(waitq) \cup OnCpu(pc) = 0..(forked - 1)

-----------------------------------------------------------------------------
(* What the PCBs and the counters hold *)

\* What the child has left of its burst and the service it has been charged make
\* up the burst, but for n ticks charged ahead.
Owes(p, n) == c_cpu[p] >= 1 /\ service_time[p] + c_cpu[p] = cpu_burst[p] + n

\* The burst is over, and the child has set its count to the next one.
Done(p) == service_time[p] = cpu_burst[p] /\ c_cpu[p] = cpu_burst[p]

\* The slice of p that is over when n ticks of it have yet to be counted.
SliceIs(p, n) ==
  set_scheduler = RR => counter = (service_time[p] - n) % TIME_QUANTUM

AtQuantum(p) == service_time[p] % TIME_QUANTUM = 0

\* A process in the ready queue.
ReadyPcb(pcb) ==
  /\ pcb.cpu_burst = c_cpu[pcb.idx]
  /\ Owes(pcb.idx, 0)
  /\ set_scheduler = RR => AtQuantum(pcb.idx)

\* A process in the wait queue.
WaitPcb(pcb) ==
  /\ pcb.cpu_burst = cpu_burst[pcb.idx]
  /\ Done(pcb.idx)
  /\ pcb.io_burst \in 1..io_burst[pcb.idx]

\* The stages of the current process in a tick: before the tick is charged to it,
\* charged, and as its child has found the burst going on or over; the last
\* statements of the handlers; in the shutdown nothing matters any more.
Stage(at, pc) ==
  CASE at = "none" -> IF Closing THEN "over" ELSE "before"
    [] at = "pending" -> IF pc = "ALRM" THEN "before"
                         ELSE IF pc = "USR1" THEN "burnt" ELSE "ended"
    [] at = "child" -> IF pc = "run" THEN "charged"
                       ELSE IF pc = "usr1" THEN "burnt" ELSE "ended"
    [] at = "ALRM" -> IF pc = "account" THEN "before" ELSE "charged"
    [] at = "USR1" -> IF pc = "burst" THEN "burnt" ELSE "preempted"
    [] at = "USR2" -> IF pc = "requeue" THEN "received" ELSE "ended"

\* The current process.
CurPcb(stage) ==
  LET p == CurIdx
      left == cur_ready.cpu_burst
  IN  /\ stage = "before" => left = c_cpu[p] /\ Owes(p, 0) /\ SliceIs(p, 0)
      /\ stage = "charged" => left = c_cpu[p] /\ Owes(p, 1) /\ SliceIs(p, 1)
      /\ stage = "burnt" => left = c_cpu[p] + 1 /\ Owes(p, 0) /\ SliceIs(p, 1)
      /\ stage \in {"charged", "burnt"} => service_time[p] >= 1
      /\ stage = "preempted" => /\ left = c_cpu[p] /\ Owes(p, 0)
                                /\ set_scheduler = RR /\ AtQuantum(p)
      /\ stage \in {"ended", "received"} => Done(p)
      /\ stage = "received" => /\ left = cpu_burst[p]
                               /\ cur_ready.io_burst = io_burst[p]

\* The message queues: the message with the next bursts is there from the time
\* the child sends it until signal_io takes it, or the shutdown removes it.
Mailed(at, pc) ==
  \/ at = "child" /\ pc = "usr2"
  \/ at = "pending" /\ pc = "USR2"
  \/ at = "USR2" /\ pc \in {"receive", "asleep"}

MailOK(at, pc) ==
  /\ \A p \in Procs : mq[p] # <<>> =>
       /\ p = CurIdx
       /\ mq[p] = <<[cpu_time |-> cpu_burst[p], io_time |-> io_burst[p]]>>
       /\ Mailed(at, pc) \/ (at = "none" /\ Closing)
  /\ Mailed(at, pc) => mq[CurIdx] # <<>> \/ Closing
  /\ at = "USR2" /\ pc = "asleep" => Closing

\* The order of the ready queue.
ByArrival(q) ==
  \A i, j \in 1..Len(q) :
    i < j => arrival_time[q[i].idx] <= arrival_time[q[j].idx]

OrderOK ==
  /\ \A p \in Procs : arrival_time[p] <= Now
  /\ set_scheduler = SJF => HeapOrdered(readyq)
  /\ set_scheduler = FCFS => ByArrival(readyq)

FreshOK == \A p \in Procs : p >= forked => Owes(p, 0) /\ service_time[p] = 0
ReadyOK == \A pcb \in Elements(readyq) : ReadyPcb(pcb)
WaitOK == \A pcb \in Elements(waitq) : WaitPcb(pcb)
CurOK(at, pc) == CurIdx # -1 => CurPcb(Stage(at, pc))

DataOK(at, pc) ==
  /\ HomesOK(pc) /\ FreshOK /\ ReadyOK /\ WaitOK /\ CurOK(at, pc)
  /\ MailOK(at, pc) /\ OrderOK

\* The inductive invariant.
AtPlace(at, pc) == ControlOK(at, pc) /\ DataOK(at, pc)

TimeInv == IInv /\ \E place \in Places : AtPlace(place[1], place[2])
-----------------------------------------------------------------------------
(* Places and the stack *)

\* What the stages are.
LEMMA Stages ==
  /\ Stage("pending", "ALRM") = "before" /\ Stage("ALRM", "account") = "before"
  /\ Stage("ALRM", "iowait") = "charged" /\ Stage("ALRM", "cont") = "charged"
  /\ Stage("child", "run") = "charged"
  /\ Stage("child", "usr1") = "burnt" /\ Stage("pending", "USR1") = "burnt"
  /\ Stage("USR1", "burst") = "burnt"
  /\ Stage("USR1", "requeue") = "preempted" /\ Stage("USR1", "dispatch") = "preempted"
  /\ Stage("child", "send") = "ended" /\ Stage("child", "usr2") = "ended"
  /\ Stage("pending", "USR2") = "ended" /\ Stage("USR2", "receive") = "ended"
  /\ Stage("USR2", "asleep") = "ended" /\ Stage("USR2", "dispatch") = "ended"
  /\ Stage("USR2", "requeue") = "received"
  /\ Stage("none", "none") = IF Closing THEN "over" ELSE "before"
BY DEF Stage

\* The current process is one of the processes, or there is none.
LEMMA CurIdxType ==
  ASSUME IInv
  PROVE  /\ CurIdx \in Procs \cup {-1} /\ -1 \notin Procs
         /\ CurIdx # -1 => cur_ready \in Pcb /\ cur_ready # NULL
                           /\ cur_ready.idx = CurIdx /\ CurIdx \in Procs
<1>1. cur_ready # NULL => cur_ready \in Pcb
  BY DEF IInv, TypeOK
<1>2. -1 \notin Procs
  BY SchedulerAssumption DEF Procs
<1> QED
  BY <1>1, <1>2 DEF CurIdx, Pcb

\* A step of a handler is one of the work of the tick, or of the rest of
\* signal_count, which is then the only handler.
LEMMA WhereAt ==
  ASSUME NEW at, NEW pc, IInv, ControlOK(at, pc), NEW sig, NEW q, At(sig, q)
  PROVE  /\ q \notin {"timer", "rmid", "kill", "exit"} => at = sig /\ pc = q /\ at \in Signals
         /\ q \in {"timer", "rmid", "kill", "exit"} =>
              sig = "ALRM" /\ at \notin Signals /\ Depth = 1 /\ ~Early(at, pc)
<1>1. Depth \in Nat /\ Depth > 0 /\ frames[Depth] = [sig |-> sig, pc |-> q]
  BY FrameType DEF IInv, FramesOK, TypeOK, At, Top
<1>2. CASE at \in Signals
  <2>1. frames[Depth] = [sig |-> at, pc |-> pc]
    BY <1>2 DEF ControlOK, StackOK
  <2>2. pc \notin {"timer", "rmid", "kill", "exit"}
    BY <1>2 DEF ControlOK, Places, Signals, Active
  <2> QED
    BY <1>1, <1>2, <2>1, <2>2
<1>3. CASE at \notin Signals
  <2>1. Depth = 1 /\ frames[1] \in LateFrames
    BY <1>1, <1>3 DEF ControlOK, StackOK
  <2>2. ~Early(at, pc)
    BY <1>3, <2>1 DEF ControlOK, StackOK
  <2> QED
    BY <1>1, <1>3, <2>1, <2>2 DEF LateFrames
<1> QED
  BY <1>2, <1>3

\* The statements of the handlers where the work is.
LEMMA HandlerPlaces ==
  ASSUME NEW at \in Signals, NEW pc, <<at, pc>> \in Places
  PROVE  /\ [sig |-> at, pc |-> pc] \in HandlerPoints
         /\ pc \notin {"timer", "rmid", "kill", "exit"}
BY DEF Places, Signals, Active, HandlerPoints

\* The handler where the work is goes on.
LEMMA OwnGoto ==
  ASSUME NEW at \in Signals, NEW pc, IInv, StackOK(at, pc), <<at, pc>> \in Places,
         At(at, pc), NEW next, Goto(next), <<at, next>> \in Places
  PROVE  StackOK(at, next)' /\ Closing' = Closing
<1>1. FramesOK
  BY DEF IInv, TypeOK, FramesOK
<1>2. /\ Depth \in Nat /\ Depth' = Depth
      /\ frames'[Depth] = [sig |-> at, pc |-> next]
      /\ \A i \in 1..(Depth - 1) : frames'[i] = frames[i]
  BY <1>1, GotoFrames, FrameType, HandlerPlaces
<1>3. /\ Depth \in {1, 2} /\ (Depth = 2 => frames[1] \in LateFrames)
      /\ (at = "ALRM" => Depth = 1) /\ frames[Depth] = [sig |-> at, pc |-> pc]
  BY DEF StackOK, Early
<1>4. Depth = 2 => frames'[1] = frames[1]
  BY <1>2
<1>5. Depth = 1 => ~Closing /\ ~Closing'
  BY <1>2, <1>3, HandlerPlaces DEF Closing
<1>6. Depth = 2 => Closing' = Closing
  BY <1>2, <1>4 DEF Closing
<1>7. StackOK(at, next)'
  BY <1>2, <1>3, <1>4 DEF StackOK, Early, Signals
<1>8. Closing \in BOOLEAN /\ Closing' \in BOOLEAN
  BY DEF Closing
<1> QED
  BY <1>3, <1>5, <1>6, <1>7, <1>8

\* It returns: the work of the tick is done.
LEMMA OwnReturn ==
  ASSUME NEW at \in {"USR1", "USR2"}, NEW pc, IInv, StackOK(at, pc),
         <<at, pc>> \in Places, At(at, pc), Return
  PROVE  StackOK("none", "none")' /\ Closing' = Closing
<1>1. FramesOK /\ Depth > 0
  BY DEF IInv, TypeOK, FramesOK, At
<1>2. /\ Depth \in Nat /\ Depth' = Depth - 1
      /\ \A i \in 1..(Depth - 1) : frames'[i] = frames[i]
  BY <1>1, ReturnFrames, FrameType
<1>3. /\ at \in Signals /\ Depth \in {1, 2} /\ (Depth = 2 => frames[1] \in LateFrames)
      /\ frames[Depth] = [sig |-> at, pc |-> pc]
  BY DEF StackOK, Signals
<1>4. Depth = 2 => frames'[1] = frames[1]
  BY <1>2
<1>5. Depth = 1 => ~Closing /\ ~Closing'
  BY <1>2, <1>3, HandlerPlaces DEF Closing
<1>6. Depth = 2 => Closing' = Closing
  BY <1>2, <1>4 DEF Closing
<1>7. StackOK("none", "none")'
  BY <1>2, <1>3, <1>4 DEF StackOK, Early, Signals
<1>8. Closing \in BOOLEAN /\ Closing' \in BOOLEAN
  BY DEF Closing
<1> QED
  BY <1>3, <1>5, <1>6, <1>7, <1>8

\* signal_count has continued the child, or found the cpu idle.
LEMMA ContGoto ==
  ASSUME IInv, StackOK("ALRM", "cont"), At("ALRM", "cont"), Goto("timer"),
         NEW at \in {"none", "child"}, NEW pc
  PROVE  StackOK(at, pc)' /\ ~Closing'
<1>1. FramesOK
  BY DEF IInv, TypeOK, FramesOK
<1>2. [sig |-> "ALRM", pc |-> "timer"] \in HandlerPoints \cap LateFrames
  BY DEF HandlerPoints, LateFrames
<1>3. /\ Depth \in Nat /\ Depth' = Depth
      /\ frames'[Depth] = [sig |-> "ALRM", pc |-> "timer"]
  BY <1>1, <1>2, GotoFrames, FrameType
<1>4. Depth = 1
  BY DEF StackOK, Early, Signals
<1> QED
  BY <1>2, <1>3, <1>4 DEF StackOK, Early, Signals, Closing

\* A step of the rest of signal_count.
LEMMA LateGoto ==
  ASSUME NEW at, NEW pc, IInv, at \notin Signals, ~Early(at, pc), Depth = 1,
         NEW q, At("ALRM", q), NEW next \in {"rmid", "kill", "exit"}, Goto(next),
         NEW at2, NEW pc2, at2 \notin Signals, ~Early(at2, pc2)
  PROVE  StackOK(at2, pc2)' /\ Closing'
<1>1. FramesOK
  BY DEF IInv, TypeOK, FramesOK
<1>2. [sig |-> "ALRM", pc |-> next] \in HandlerPoints \cap LateFrames
  BY DEF HandlerPoints, LateFrames
<1>3. /\ Depth \in Nat /\ Depth' = Depth
      /\ frames'[Depth] = [sig |-> "ALRM", pc |-> next]
  BY <1>1, <1>2, GotoFrames, FrameType
<1> QED
  BY <1>2, <1>3 DEF StackOK, Signals, Closing

\* Its return.
LEMMA LateReturn ==
  ASSUME NEW at, NEW pc, IInv, at \notin Signals, ~Early(at, pc), Depth = 1, Return
  PROVE  StackOK(at, pc)' /\ ~Closing'
<1>1. FramesOK
  BY DEF IInv, TypeOK, FramesOK
<1>2. Depth \in Nat /\ Depth' = Depth - 1
  BY <1>1, ReturnFrames, FrameType
<1> QED
  BY <1>2 DEF StackOK, Signals, Closing

\* The handler of the signal the work has become.
LEMMA OwnDeliver ==
  ASSUME NEW sig \in Signals, IInv, StackOK("pending", sig), Deliver(sig)
  PROVE  StackOK(sig, Entry(sig))' /\ Closing' = Closing
<1>1. Depth \in Nat /\ Depth \in {0, 1} /\ (Depth = 1 => frames[1] \in LateFrames)
      /\ (sig = "ALRM" => Depth = 0) /\ frames \in Seq(HandlerPoints)
  BY FrameType DEF StackOK, Early, Signals, IInv, TypeOK, FramesOK
<1>2. ~(Depth > 0 /\ Top.pc = "asleep")
  BY <1>1 DEF Top, LateFrames
<1>3. frames' = Append(frames, [sig |-> sig, pc |-> Entry(sig)])
  BY <1>2 DEF Deliver
<1>4. /\ Depth' = Depth + 1
      /\ frames'[Depth + 1] = [sig |-> sig, pc |-> Entry(sig)]
      /\ Depth = 1 => frames'[1] = frames[1]
  BY <1>1, <1>3, AppendProperties DEF Depth
<1>5. Depth = 0 => ~Closing /\ ~Closing'
  BY <1>1, <1>4 DEF Closing, Entry
<1>6. Depth = 1 => Closing' = Closing
  BY <1>4 DEF Closing
<1>7. StackOK(sig, Entry(sig))'
  BY <1>1, <1>4 DEF StackOK, Early, Signals
<1>8. Closing \in BOOLEAN /\ Closing' \in BOOLEAN
  BY DEF Closing
<1> QED
  BY <1>1, <1>5, <1>6, <1>7, <1>8

\* Elsewhere the stack is left alone.
LEMMA SameStack ==
  ASSUME NEW at, NEW pc, StackOK(at, pc), at \notin Signals, frames' = frames,
         NEW at2, NEW pc2, at2 \notin Signals, Early(at2, pc2) => Depth = 0
  PROVE  StackOK(at2, pc2)' /\ Closing' = Closing
BY DEF StackOK, Closing, Depth

-----------------------------------------------------------------------------
(* The queues *)

\* What the queue operations are made of.
LEMMA AppendsTo ==
  ASSUME NEW S, NEW q \in Seq(S), NEW pcb \in S
  PROVE  /\ Elements(Append(q, pcb)) = Elements(q) \cup {pcb}
         /\ DistinctIdx(q) /\ (\A e \in Elements(q) : e.idx # pcb.idx)
              => DistinctIdx(Append(q, pcb))
<1> DEFINE g == Append(q, pcb)
<1>1. /\ g \in Seq(S) /\ Len(q) \in Nat /\ Len(g) = Len(q) + 1
      /\ \A i \in 1..Len(q) : g[i] = q[i]
      /\ g[Len(q) + 1] = pcb
  BY AppendProperties, LenProperties
<1>2. Elements(g) = {g[i] : i \in 1..Len(g)} /\ Elements(q) = {q[i] : i \in 1..Len(q)}
  BY <1>1, ElementsOfSeq
<1> HIDE DEF g
<1>3. Elements(g) = Elements(q) \cup {pcb}
  <2>1. ASSUME NEW i \in 1..Len(g) PROVE g[i] \in Elements(q) \cup {pcb}
    BY <1>1, <1>2
  <2>2. ASSUME NEW i \in 1..Len(q) PROVE q[i] \in Elements(g)
    <3>1. i \in 1..Len(g) /\ q[i] = g[i]
      BY <1>1
    <3> QED
      BY <1>2, <3>1
  <2>3. pcb \in Elements(g)
    <3>1. Len(q) + 1 \in 1..Len(g)
      BY <1>1
    <3> QED
      BY <1>1, <1>2, <3>1
  <2> QED
    BY <1>2, <2>1, <2>2, <2>3
<1>4. ASSUME DistinctIdx(q), \A e \in Elements(q) : e.idx # pcb.idx
      PROVE  DistinctIdx(g)
  <2>1. \A i \in 1..Len(q) : q[i].idx # pcb.idx
    BY <1>2, <1>4
  <2>2. ASSUME NEW i \in 1..Len(g), NEW j \in 1..Len(g), g[i].idx = g[j].idx
        PROVE  i = j
    <3>1. CASE i \in 1..Len(q) /\ j \in 1..Len(q)
      BY <1>1, <1>4, <2>2, <3>1 DEF DistinctIdx
    <3>2. CASE i = Len(q) + 1 \/ j = Len(q) + 1
      BY <1>1, <2>1, <2>2, <3>2
    <3> QED
      BY <1>1, <3>1, <3>2
  <2> QED
    BY <2>2 DEF DistinctIdx
<1> QED
  BY <1>3, <1>4 DEF g

LEMMA TailOf ==
  ASSUME NEW S, NEW q \in Seq(S), q # <<>>, DistinctIdx(q)
  PROVE  /\ Head(q) \in Elements(q)
         /\ Elements(Tail(q)) = Elements(q) \ {Head(q)}
         /\ DistinctIdx(Tail(q))
         /\ \A e \in Elements(Tail(q)) : e.idx # Head(q).idx
<1> DEFINE t == Tail(q)
<1>1. /\ t \in Seq(S) /\ Len(q) \in Nat /\ Len(q) >= 1 /\ Len(t) = Len(q) - 1
      /\ Head(q) = q[1]
      /\ \A i \in 1..Len(t) : t[i] = q[i + 1]
  BY HeadTailProperties, LenProperties, EmptySeq
<1>2. Elements(t) = {t[i] : i \in 1..Len(t)} /\ Elements(q) = {q[i] : i \in 1..Len(q)}
  BY <1>1, ElementsOfSeq
<1> HIDE DEF t
<1>3. q[1] \in Elements(q)
  BY <1>1, <1>2
<1>4. \A i \in 1..Len(q) : i # 1 => q[i].idx # q[1].idx
  BY <1>1 DEF DistinctIdx
<1>5. ASSUME NEW i \in 1..Len(t)
      PROVE  t[i] \in Elements(q) /\ t[i].idx # q[1].idx
  <2>1. i + 1 \in 1..Len(q) /\ i + 1 # 1 /\ t[i] = q[i + 1]
    BY <1>1
  <2> QED
    BY <1>2, <1>4, <2>1
<1>6. ASSUME NEW i \in 1..Len(q), q[i] # q[1]
      PROVE  q[i] \in Elements(t)
  <2>1. i # 1
    BY <1>6
  <2>2. i - 1 \in 1..Len(t) /\ t[i - 1] = q[(i - 1) + 1] /\ (i - 1) + 1 = i
    BY <1>1, <2>1
  <2> QED
    BY <1>2, <2>2
<1>7. Elements(t) = Elements(q) \ {q[1]}
  <2>1. Elements(t) \subseteq Elements(q) \ {q[1]}
    BY <1>2, <1>5
  <2>2. Elements(q) \ {q[1]} \subseteq Elements(t)
    BY <1>2, <1>6
  <2> QED
    BY <2>1, <2>2
<1>8. DistinctIdx(t)
  <2> SUFFICES ASSUME NEW i \in 1..Len(t), NEW j \in 1..Len(t), t[i].idx = t[j].idx
               PROVE  i = j
    BY DEF DistinctIdx
  <2>1. /\ i + 1 \in 1..Len(q) /\ j + 1 \in 1..Len(q)
        /\ t[i] = q[i + 1] /\ t[j] = q[j + 1]
    BY <1>1
  <2>2. i + 1 = j + 1
    BY <2>1 DEF DistinctIdx
  <2> QED
    BY <2>2
<1> QED
  BY <1>1, <1>2, <1>3, <1>5, <1>7, <1>8 DEF t

\* A PCB put into the ready queue, under any algorithm.
LEMMA PutAdds ==
  ASSUME NEW q \in Seq(Pcb), NEW pcb \in Pcb
  PROVE  /\ Idxs(Append(q, pcb)) = Idxs(q) \cup {pcb.idx}
         /\ Elements(PutReady(q, pcb)) = Elements(q) \cup {pcb}
         /\ Idxs(PutReady(q, pcb)) = Idxs(q) \cup {pcb.idx}
         /\ DistinctIdx(q) /\ pcb.idx \notin Idxs(q) => DistinctIdx(Append(q, pcb))
         /\ DistinctIdx(q) /\ pcb.idx \notin Idxs(q) => DistinctIdx(PutReady(q, pcb))
         /\ set_scheduler = SJF /\ HeapOrdered(q) => HeapOrdered(PutReady(q, pcb))
<1>1. Keyed(Pcb)
  BY DEF Keyed, Pcb
<1>2. pcb.idx \notin Idxs(q) => \A e \in Elements(q) : e.idx # pcb.idx
  BY DEF Idxs
<1>3. \A r : Elements(r) = Elements(q) \cup {pcb} => Idxs(r) = Idxs(q) \cup {pcb.idx}
  BY DEF Idxs
<1>4. CASE set_scheduler = SJF
  <2>1. PutReady(q, pcb) = insertHeap(q, pcb)
    BY <1>4 DEF PutReady
  <2>2. /\ Elements(insertHeap(q, pcb)) = Elements(q) \cup {pcb}
        /\ DistinctIdx(q) /\ pcb.idx \notin Idxs(q) => DistinctIdx(insertHeap(q, pcb))
        /\ HeapOrdered(q) => HeapOrdered(insertHeap(q, pcb))
    BY <1>1, <1>2, InsertAddsNode, InsertKeepsHeap
  <2>3. /\ Elements(Append(q, pcb)) = Elements(q) \cup {pcb}
        /\ DistinctIdx(q) /\ pcb.idx \notin Idxs(q) => DistinctIdx(Append(q, pcb))
    BY <1>2, AppendsTo
  <2> QED
    BY <1>3, <2>1, <2>2, <2>3
<1>5. CASE set_scheduler # SJF
  <2>1. PutReady(q, pcb) = Append(q, pcb)
    BY <1>5 DEF PutReady
  <2> QED
    BY <1>2, <1>3, <1>5, <2>1, AppendsTo
<1> QED
  BY <1>4, <1>5

\* The PCB taken from it.
LEMMA TakeRemoves ==
  ASSUME NEW q \in Seq(Pcb), q # <<>>, DistinctIdx(q)
  PROVE  /\ FirstReady(q) \in Elements(q) /\ FirstReady(q) \in Pcb
         /\ Elements(RestReady(q)) = Elements(q) \ {FirstReady(q)}
         /\ DistinctIdx(RestReady(q))
         /\ Idxs(RestReady(q)) = Idxs(q) \ {FirstReady(q).idx}
         /\ FirstReady(q).idx \in Idxs(q)
<1> DEFINE first == FirstReady(q)
           rest == RestReady(q)
<1>1. Keyed(Pcb) /\ Elements(q) \subseteq Pcb
  BY ElementsOfSeq DEF Keyed, Pcb
<1>2. first = Head(q) /\ Head(q) = get_min(q)
  BY DEF FirstReady, get_min
<1>3. /\ first \in Elements(q)
      /\ Elements(rest) = Elements(q) \ {first}
      /\ DistinctIdx(rest)
      /\ \A e \in Elements(rest) : e.idx # first.idx
  <2>1. CASE set_scheduler = SJF
    <3>1. rest = RestOfHeap(q)
      BY <2>1 DEF RestReady
    <3> QED
      BY <1>1, <1>2, <3>1, DeleteTakesRoot
  <2>2. CASE set_scheduler # SJF
    <3>1. rest = Tail(q)
      BY <2>2 DEF RestReady
    <3> QED
      BY <1>2, <3>1, TailOf
  <2> QED
    BY <2>1, <2>2
<1> HIDE DEF first, rest
<1>4. Idxs(rest) = Idxs(q) \ {first.idx} /\ first.idx \in Idxs(q)
  BY <1>3 DEF Idxs
<1> QED
  BY <1>1, <1>3, <1>4 DEF first, rest

\* Under SJF it has the smallest burst.
LEMMA TakeSmallest ==
  ASSUME NEW q \in Seq(Pcb), q # <<>>, set_scheduler = SJF, HeapOrdered(q)
  PROVE  /\ HeapOrdered(RestReady(q))
         /\ \A e \in Elements(q) : FirstReady(q).cpu_burst <= e.cpu_burst
<1>1. Keyed(Pcb) /\ Elements(q) = {q[i] : i \in 1..Len(q)}
  BY ElementsOfSeq DEF Keyed, Pcb
<1>2. RestReady(q) = RestOfHeap(q) /\ FirstReady(q) = q[1]
  BY DEF RestReady, FirstReady
<1>3. \A i \in 1..Len(q) : q[1].cpu_burst <= q[i].cpu_burst
  BY <1>1, RootIsSmallest DEF Key
<1> QED
  BY <1>1, <1>2, <1>3, DeleteKeepsHeap

\* Under FCFS the earliest arrival.
LEMMA TakeEarliest ==
  ASSUME IInv, NEW q \in Seq(Pcb), q # <<>>, set_scheduler = FCFS, ByArrival(q),
         Idxs(q) \subseteq Procs
  PROVE  /\ ByArrival(RestReady(q))
         /\ \A e \in Elements(q) :
              arrival_time[FirstReady(q).idx] <= arrival_time[e.idx]
<1> DEFINE t == Tail(q)
<1>1. /\ t \in Seq(Pcb) /\ Len(q) \in Nat /\ Len(q) >= 1 /\ Len(t) = Len(q) - 1
      /\ Head(q) = q[1]
      /\ \A i \in 1..Len(t) : t[i] = q[i + 1]
  BY HeadTailProperties, LenProperties, EmptySeq
<1>2. RestReady(q) = t /\ FirstReady(q) = q[1]
  BY <1>1 DEF RestReady, FirstReady, FCFS, SJF
<1> HIDE DEF t
<1>3. Elements(q) = {q[i] : i \in 1..Len(q)}
  BY ElementsOfSeq
<1>4. \A i \in 1..Len(q) : q[i].idx \in Procs
  BY <1>3 DEF Idxs
<1>5. \A i \in 1..Len(q) : arrival_time[q[1].idx] <= arrival_time[q[i].idx]
  <2> SUFFICES ASSUME NEW i \in 1..Len(q)
               PROVE  arrival_time[q[1].idx] <= arrival_time[q[i].idx]
    OBVIOUS
  <2>1. 1 \in 1..Len(q) /\ arrival_time[q[1].idx] \in Int
    BY <1>1, <1>4, SchedulerAssumption DEF IInv, TypeOK
  <2> QED
    BY <2>1 DEF ByArrival
<1>6. ByArrival(t)
  <2> SUFFICES ASSUME NEW i \in 1..Len(t), NEW j \in 1..Len(t), i < j
               PROVE  arrival_time[t[i].idx] <= arrival_time[t[j].idx]
    BY DEF ByArrival
  <2>1. /\ i + 1 \in 1..Len(q) /\ j + 1 \in 1..Len(q) /\ i + 1 < j + 1
        /\ t[i] = q[i + 1] /\ t[j] = q[j + 1]
    BY <1>1
  <2> QED
    BY <2>1 DEF ByArrival
<1> QED
  BY <1>2, <1>3, <1>5, <1>6

-----------------------------------------------------------------------------
(* What the places keep *)

\* The processes in the queues are processes.
LEMMA HomeTypes ==
  ASSUME NEW pc, IInv, HomesOK(pc)
  PROVE  /\ 0..(forked - 1) \subseteq Procs /\ forked \in Nat
         /\ Idxs(readyq) \subseteq 0..(forked - 1) /\ Idxs(waitq) \subseteq 0..(forked - 1)
         /\ OnCpu(pc) \subseteq 0..(forked - 1)
         /\ readyq \in Seq(Pcb) /\ waitq \in Seq(Pcb)
         /\ Elements(readyq) \subseteq Pcb /\ Elements(waitq) \subseteq Pcb
<1>1. readyq \in Seq(Pcb) /\ waitq \in Seq(Pcb) /\ forked \in 0..MAX_PROCESS
  BY DEF IInv, TypeOK
<1>2. Elements(readyq) \subseteq Pcb /\ Elements(waitq) \subseteq Pcb
  BY <1>1, ElementsOfSeq
<1>3. 0..(forked - 1) \subseteq Procs /\ forked \in Nat
  BY <1>1, SchedulerAssumption DEF Procs
<1> QED
  BY <1>1, <1>2, <1>3 DEF HomesOK

\* A step that leaves the queues alone.
LEMMA SameHomes ==
  ASSUME NEW pc, NEW pc2, HomesOK(pc), UNCHANGED <<readyq, waitq, forked>>,
         OnCpu(pc2)' = OnCpu(pc)
  PROVE  HomesOK(pc2)'
BY DEF HomesOK, Idxs

LEMMA SameOrder ==
  ASSUME IInv, OrderOK, UNCHANGED <<set_scheduler, readyq, arrival_time>>,
         run_time' \in Int, run_time' <= run_time
  PROVE  OrderOK'
<1>1. \A p \in Procs : arrival_time'[p] <= Now'
  <2> SUFFICES ASSUME NEW p \in Procs PROVE arrival_time[p] <= Now'
    OBVIOUS
  <2>1. arrival_time[p] \in Int /\ arrival_time[p] <= Now /\ run_time \in Int
        /\ RUN_TIME \in Int
    BY SchedulerAssumption DEF OrderOK, IInv, TypeOK
  <2> QED
    BY <2>1 DEF Now
<1> QED
  BY <1>1 DEF OrderOK, ByArrival

\* A step that counts bursts and service for the current process alone.
LEMMA OthersKept ==
  ASSUME NEW pc, IInv, HomesOK(pc), FreshOK, ReadyOK, WaitOK,
         UNCHANGED <<workload, forked, readyq, waitq>>,
         \A p \in Procs : p \notin OnCpu(pc) =>
            c_cpu'[p] = c_cpu[p] /\ service_time'[p] = service_time[p]
  PROVE  FreshOK' /\ ReadyOK' /\ WaitOK'
<1>1. /\ 0..(forked - 1) \subseteq Procs /\ forked \in Nat
      /\ OnCpu(pc) \subseteq 0..(forked - 1)
      /\ Idxs(readyq) \subseteq Procs /\ Idxs(waitq) \subseteq Procs
  BY HomeTypes
<1>2. FreshOK'
  <2> SUFFICES ASSUME NEW p \in Procs, p >= forked
               PROVE  (Owes(p, 0) /\ service_time[p] = 0)'
    BY DEF FreshOK
  <2>1. p \notin 0..(forked - 1)
    BY <1>1
  <2>2. c_cpu'[p] = c_cpu[p] /\ service_time'[p] = service_time[p]
    BY <1>1, <2>1
  <2> QED
    BY <2>2 DEF FreshOK, Owes, workload
<1>3. ReadyOK'
  <2> SUFFICES ASSUME NEW pcb \in Elements(readyq)
               PROVE  ReadyPcb(pcb)'
    BY DEF ReadyOK
  <2>1. pcb.idx \in Idxs(readyq)
    BY DEF Idxs
  <2>2. pcb.idx \in Procs /\ pcb.idx \notin OnCpu(pc)
    BY <1>1, <2>1 DEF HomesOK
  <2>3. c_cpu'[pcb.idx] = c_cpu[pcb.idx] /\ service_time'[pcb.idx] = service_time[pcb.idx]
    BY <2>2
  <2> QED
    BY <2>3 DEF ReadyOK, ReadyPcb, Owes, AtQuantum, workload
<1>4. WaitOK'
  <2> SUFFICES ASSUME NEW pcb \in Elements(waitq)
               PROVE  WaitPcb(pcb)'
    BY DEF WaitOK
  <2>1. pcb.idx \in Idxs(waitq)
    BY DEF Idxs
  <2>2. pcb.idx \in Procs /\ pcb.idx \notin OnCpu(pc)
    BY <1>1, <2>1 DEF HomesOK
  <2>3. c_cpu'[pcb.idx] = c_cpu[pcb.idx] /\ service_time'[pcb.idx] = service_time[pcb.idx]
    BY <2>2
  <2> QED
    BY <2>3 DEF WaitOK, WaitPcb, Done, workload
<1> QED
  BY <1>2, <1>3, <1>4

\* A step that moves the work within a stage and leaves the data alone.
LEMMA DataMoves ==
  ASSUME NEW at, NEW pc, NEW at2, NEW pc2, IInv, DataOK(at, pc),
         UNCHANGED <<workload, forked, c_cpu, mq, queues, times>>,
         run_time' \in Int, run_time' <= run_time,
         Stage(at2, pc2)' \in {Stage(at, pc), "over"},
         pc2 = "dispatch" <=> pc = "dispatch",
         Closing => Closing',
         Mailed(at, pc) \/ (at = "none" /\ Closing)
           => Mailed(at2, pc2) \/ (at2 = "none" /\ Closing'),
         Mailed(at2, pc2) => Mailed(at, pc),
         at2 = "USR2" /\ pc2 = "asleep" => Closing'
  PROVE  DataOK(at2, pc2)'
<1> USE DEF DataOK
<1>1. HomesOK(pc2)'
  BY SameHomes DEF OnCpu, CurIdx, queues
<1>2. FreshOK' /\ ReadyOK' /\ WaitOK'
  BY OthersKept DEF queues, times
<1>3. OrderOK'
  BY SameOrder DEF queues, times, workload
<1>4. CurOK(at2, pc2)'
  <2>1. CASE Stage(at2, pc2)' = "over"
    BY <2>1 DEF CurOK, CurPcb
  <2>2. CASE Stage(at2, pc2)' = Stage(at, pc)
    BY <2>2 DEF CurOK, CurPcb, CurIdx, Owes, Done, SliceIs, AtQuantum, queues, times,
                workload
  <2> QED
    BY <2>1, <2>2
<1>5. MailOK(at2, pc2)'
  <2>1. CurIdx' = CurIdx /\ UNCHANGED <<cpu_burst, io_burst, mq>>
    BY DEF CurIdx, queues, workload
  <2>2. \A p \in Procs : mq[p] # <<>> =>
          /\ p = CurIdx
          /\ mq[p] = <<[cpu_time |-> cpu_burst[p], io_time |-> io_burst[p]]>>
          /\ Mailed(at2, pc2) \/ (at2 = "none" /\ Closing')
    BY DEF MailOK
  <2>3. Mailed(at2, pc2) => mq[CurIdx] # <<>> \/ Closing'
    BY DEF MailOK
  <2>4. Mailed(at2, pc2)' = Mailed(at2, pc2)
    BY DEF Mailed
  <2> QED
    BY <2>1, <2>2, <2>3, <2>4 DEF MailOK
<1> QED
  BY <1>1, <1>2, <1>3, <1>4, <1>5

\* The dispatch of the first process of the ready queue.
LEMMA DataDispatched ==
  ASSUME NEW pc, IInv, HomesOK(pc), FreshOK, ReadyOK, WaitOK, OrderOK, OnCpu(pc) = {},
         \A p \in Procs : mq[p] = <<>>,
         cur_ready' = FirstReady(readyq), readyq' = RestReady(readyq),
         UNCHANGED <<workload, forked, c_cpu, mq, waitq, times, run_time>>,
         set_scheduler = RR => counter' = 0
  PROVE  DataOK("none", "none")'
<1>1. /\ readyq \in Seq(Pcb) /\ Elements(readyq) \subseteq Pcb /\ DistinctIdx(readyq)
      /\ Idxs(readyq) \subseteq Procs /\ -1 \notin Procs
  BY HomeTypes, CurIdxType DEF HomesOK
<1>2. \A p \in Procs : (mq[p] = <<>>)'
  OBVIOUS
<1>3. MailOK("none", "none")'
  BY <1>2 DEF MailOK, Mailed
<1>4. CASE readyq = <<>>
  <2>1. readyq' = readyq /\ CurIdx' = -1
    BY <1>4 DEF RestReady, FirstReady, CurIdx, Idle
  <2>2. HomesOK("none")'
    BY <2>1, SameHomes DEF OnCpu
  <2>3. FreshOK' /\ ReadyOK' /\ WaitOK'
    BY <2>1, OthersKept DEF times
  <2>4. OrderOK'
    <3>1. run_time' \in Int /\ run_time' <= run_time
      BY DEF IInv, TypeOK
    <3> QED
      BY <2>1, <3>1, SameOrder DEF times, workload
  <2> QED
    BY <1>3, <2>1, <2>2, <2>3, <2>4 DEF DataOK, CurOK
<1>5. CASE readyq # <<>>
  <2>0. PICK first : first = FirstReady(readyq)
    OBVIOUS
  <2>1. /\ first \in Elements(readyq) /\ first \in Pcb
        /\ Elements(readyq') = Elements(readyq) \ {first}
        /\ DistinctIdx(readyq')
        /\ Idxs(readyq') = Idxs(readyq) \ {first.idx}
        /\ first.idx \in Idxs(readyq)
    BY <1>1, <1>5, <2>0, TakeRemoves
  <2>2. cur_ready' = first /\ CurIdx' = first.idx /\ first.idx \in Procs
    BY <1>1, <2>0, <2>1, NullAssumption DEF CurIdx
  <2>3. OnCpu("none")' = {first.idx}
    BY <1>1, <2>2 DEF OnCpu
  <2>4. HomesOK("none")'
    <3>1. Idxs(waitq)' = Idxs(waitq) /\ Idxs(readyq)' = Idxs(readyq')
      BY DEF Idxs
    <3>2. DistinctIdx(readyq)' /\ DistinctIdx(waitq)'
      BY <2>1 DEF HomesOK, DistinctIdx
    <3>3. (0..(forked - 1))' = 0..(forked - 1)
      OBVIOUS
    <3> QED
      BY <2>1, <2>3, <3>1, <3>2, <3>3 DEF HomesOK
  <2>5. FreshOK'
    BY DEF FreshOK, Owes, workload, times
  <2>6. ReadyOK'
    <3> SUFFICES ASSUME NEW pcb \in Elements(readyq')
                 PROVE  ReadyPcb(pcb)'
      BY DEF ReadyOK
    <3> QED
      BY <2>1 DEF ReadyOK, ReadyPcb, Owes, AtQuantum, workload, times
  <2>7. WaitOK'
    BY DEF WaitOK, WaitPcb, Done, workload, times
  <2>8. CurOK("none", "none")'
    <3>1. ReadyPcb(first)
      BY <2>1 DEF ReadyOK
    <3>2. SliceIs(first.idx, 0)'
      <4>1. set_scheduler = RR => counter' = 0 /\ service_time[first.idx] % TIME_QUANTUM = 0
        BY <3>1 DEF ReadyPcb, AtQuantum
      <4>2. service_time[first.idx] - 0 = service_time[first.idx]
        BY <2>2 DEF IInv, TypeOK
      <4> QED
        BY <4>1, <4>2 DEF SliceIs, workload, times
    <3>3. cur_ready'.cpu_burst = c_cpu'[first.idx] /\ Owes(first.idx, 0)'
      BY <2>2, <3>1 DEF ReadyPcb, Owes, workload, times
    <3>4. Stage("none", "none")' \in {"over", "before"}
      BY Stages DEF Stage
    <3> QED
      BY <2>2, <3>2, <3>3, <3>4 DEF CurOK, CurPcb
  <2>9. OrderOK'
    <3>1. \A p \in Procs : arrival_time'[p] <= Now'
      BY DEF OrderOK, Now, times
    <3>2. set_scheduler = SJF => HeapOrdered(readyq')
      BY <1>1, <1>5, TakeSmallest DEF OrderOK
    <3>3. set_scheduler = FCFS => ByArrival(RestReady(readyq))
      BY <1>1, <1>5, TakeEarliest DEF OrderOK
    <3>4. ByArrival(readyq)' <=> ByArrival(RestReady(readyq))
      BY DEF ByArrival, times
    <3>5. HeapOrdered(readyq)' <=> HeapOrdered(readyq')
      BY DEF HeapOrdered
    <3> QED
      BY <3>1, <3>2, <3>3, <3>4, <3>5 DEF OrderOK, workload
  <2> QED
    BY <1>3, <2>4, <2>5, <2>6, <2>7, <2>8, <2>9 DEF DataOK
<1> QED
  BY <1>4, <1>5

\* A process arrives in the ready queue.
LEMMA OrderArrives ==
  ASSUME IInv, OrderOK, NEW p \in Procs, NEW n \in Pcb, n.idx = p, p \notin Idxs(readyq),
         Idxs(readyq) \subseteq Procs, readyq' = PutReady(readyq, n),
         arrival_time' = [arrival_time EXCEPT ![p] = Now],
         UNCHANGED <<set_scheduler, run_time>>
  PROVE  OrderOK'
<1>1. /\ readyq \in Seq(Pcb) /\ Now \in Int /\ Now' = Now
      /\ \A q \in Procs : arrival_time[q] \in Int
      /\ \A q \in Procs : arrival_time'[q] = IF q = p THEN Now ELSE arrival_time[q]
  BY SchedulerAssumption DEF IInv, TypeOK, Now
<1>2. \A q \in Procs : arrival_time'[q] <= Now'
  BY <1>1 DEF OrderOK
<1>3. set_scheduler = SJF => HeapOrdered(readyq')
  BY <1>1, PutAdds DEF OrderOK
<1>4. ASSUME set_scheduler = FCFS, NEW i \in 1..Len(readyq'), NEW j \in 1..Len(readyq'), i < j
      PROVE  arrival_time'[readyq'[i].idx] <= arrival_time'[readyq'[j].idx]
  <2>1. readyq' = Append(readyq, n)
    BY <1>4 DEF PutReady, FCFS, SJF
  <2>2. /\ Len(readyq) \in Nat /\ Len(readyq') = Len(readyq) + 1
        /\ \A k \in 1..Len(readyq) : readyq'[k] = readyq[k]
        /\ readyq'[Len(readyq) + 1] = n
    BY <1>1, <2>1, AppendProperties, LenProperties
  <2>3. \A k \in 1..Len(readyq) : readyq[k].idx \in Procs /\ readyq[k].idx # p
    <3>1. Elements(readyq) = {readyq[k] : k \in 1..Len(readyq)}
      BY <1>1, ElementsOfSeq
    <3> QED
      BY <3>1 DEF Idxs
  <2>4. i \in 1..Len(readyq)
    BY <1>4, <2>2
  <2>5. arrival_time'[readyq'[i].idx] = arrival_time[readyq[i].idx]
    BY <1>1, <2>2, <2>3, <2>4
  <2>6. CASE j \in 1..Len(readyq)
    <3>1. arrival_time'[readyq'[j].idx] = arrival_time[readyq[j].idx]
      BY <1>1, <2>2, <2>3, <2>6
    <3> QED
      BY <1>4, <2>4, <2>5, <2>6, <3>1 DEF OrderOK, ByArrival
  <2>7. CASE j = Len(readyq) + 1
    <3>1. arrival_time'[readyq'[j].idx] = Now
      BY <1>1, <2>2, <2>7
    <3>2. arrival_time[readyq[i].idx] <= Now
      BY <2>3, <2>4 DEF OrderOK
    <3> QED
      BY <2>5, <3>1, <3>2
  <2> QED
    BY <1>4, <2>2, <2>6, <2>7
<1>5. HeapOrdered(readyq)' <=> HeapOrdered(readyq')
  BY DEF HeapOrdered
<1> QED
  BY <1>2, <1>3, <1>4, <1>5 DEF OrderOK, ByArrival

-----------------------------------------------------------------------------
(* The timer, main and the children *)

LEMMA SameStage ==
  ASSUME NEW at, NEW pc, Closing' = Closing
  PROVE  Stage(at, pc)' = Stage(at, pc)
BY DEF Stage

\* A step that leaves the work where it is and the data alone.
LEMMA DataStays ==
  ASSUME NEW at, NEW pc, IInv, IInv', DataOK(at, pc), Closing' = Closing,
         run_time' <= run_time,
         UNCHANGED <<workload, forked, c_cpu, mq, queues, times>>
  PROVE  DataOK(at, pc)'
<1>1. run_time' \in Int
  BY DEF IInv, TypeOK
<1>2. at = "USR2" /\ pc = "asleep" => Closing
  BY DEF DataOK, MailOK
<1> QED
  BY <1>1, <1>2, SameStage, DataMoves

\* The children are left alone.
LEMMA SameChildren ==
  ASSUME NEW at, NEW pc, NEW at2, NEW pc2, ChildrenOK(at, pc), child' = child,
         CurIdx' = CurIdx, Closing => Closing', at # "child", at2 # "child",
         Early(at2, pc2) => Early(at, pc),
         at2 \in {"USR1", "USR2"} \/ (at2 = "pending" /\ pc2 # "ALRM")
           => at \in {"USR1", "USR2"} \/ (at = "pending" /\ pc # "ALRM")
  PROVE  ChildrenOK(at2, pc2)'
BY DEF ChildrenOK, Early

\* A tick in time finds the work of the last one done.
LEMMA TickAtPlace ==
  ASSUME NEW at, NEW pc, InTime, IInv, IInv', AtPlace(at, pc), Tick
  PROVE  AtPlace("pending", "ALRM")'
<1>1. /\ frames = <<>> /\ pending = {} /\ status = "running"
      /\ \A p \in Procs : child[p] \in {"stopped", "dead"}
  BY DEF Tick, Quiescent
<1>2. Depth = 0 /\ ~Closing
  BY <1>1 DEF Depth, Closing
<1>3. /\ at \notin Signals /\ at # "pending"
      /\ \A p \in Procs : child[p] = "stopped"
  BY <1>1, <1>2 DEF AtPlace, ControlOK, StackOK, ChildrenOK
<1>4. at # "child"
  <2> SUFFICES ASSUME at = "child" PROVE FALSE
    OBVIOUS
  <2>1. CurIdx \in Procs /\ child[CurIdx] = pc
    BY CurIdxType DEF AtPlace, ControlOK, ChildrenOK
  <2>2. pc \in Active
    BY DEF AtPlace, ControlOK, Places, Signals
  <2> QED
    BY <1>3, <2>1, <2>2 DEF Active
<1>5. at = "none" /\ pc = "none"
  BY <1>3, <1>4 DEF AtPlace, ControlOK, Places, Signals
<1>6. /\ UNCHANGED <<workload, forked, status, children, frames, loop, queues, run_time,
                     results, times>>
      /\ pending' = {"ALRM"}
  BY <1>1 DEF Tick
<1>7. StackOK("pending", "ALRM")' /\ ~Closing'
  BY <1>2, <1>3, <1>5, <1>6, SameStack DEF AtPlace, ControlOK, Signals
<1>8. ChildrenOK("pending", "ALRM")' /\ StatusOK("pending")'
  BY <1>1, <1>3, <1>6 DEF ChildrenOK, StatusOK, AtPlace, ControlOK, Active, children
<1>9. ControlOK("pending", "ALRM")'
  BY <1>6, <1>7, <1>8 DEF ControlOK, Places, Signals
<1>10. DataOK("pending", "ALRM")'
  <2>1. run_time' \in Int /\ run_time' <= run_time
    BY <1>6 DEF IInv, TypeOK
  <2>2. DataOK("none", "none") /\ UNCHANGED <<workload, forked, c_cpu, mq, queues, times>>
    BY <1>5, <1>6 DEF AtPlace, children
  <2>3. Stage("pending", "ALRM")' = Stage("none", "none")
    BY <1>2, Stages DEF Stage
  <2>4. ~Mailed("none", "none") /\ ~Mailed("pending", "ALRM")
    BY DEF Mailed
  <2> QED
    BY <1>2, <2>1, <2>2, <2>3, <2>4, DataMoves
<1> QED
  BY <1>9, <1>10 DEF AtPlace

\* The next process is created.
LEMMA ForkAtPlace ==
  ASSUME NEW at, NEW pc, IInv, IInv', AtPlace(at, pc), Fork
  PROVE  AtPlace(at, pc)'
<1> DEFINE new == [idx |-> forked, cpu_burst |-> cpu_burst[forked],
                   io_burst |-> io_burst[forked]]
<1>1. PICK f, n : f = forked /\ n = new
  OBVIOUS
<1>2. /\ status = "boot" /\ at = "none" /\ pc = "none" /\ CurIdx = -1 /\ counter = 0
      /\ f \in Procs /\ f \in Nat /\ f < MAX_PROCESS
  <2>1. status = "boot" /\ f < MAX_PROCESS /\ f \in 0..MAX_PROCESS
    BY <1>1 DEF Fork, IInv, TypeOK
  <2>2. at = "none" /\ CurIdx = -1 /\ counter = 0
    BY <2>1 DEF AtPlace, ControlOK, StatusOK
  <2>3. pc = "none"
    BY <2>2 DEF AtPlace, ControlOK, Places, Signals
  <2> QED
    BY <2>1, <2>2, <2>3, SchedulerAssumption DEF Procs
<1>3. n \in Pcb /\ n.idx = f /\ n.cpu_burst = cpu_burst[f]
  BY <1>1, <1>2, SchedulerAssumption DEF IInv, TypeOK, Pcb
<1> HIDE DEF new
<1>4. /\ forked' = f + 1 /\ child' = [child EXCEPT ![f] = "start"]
      /\ arrival_time' = [arrival_time EXCEPT ![f] = Now]
      /\ readyq' = PutReady(readyq, n)
      /\ UNCHANGED <<workload, status, c_cpu, mq, pending, frames, loop, waitq,
                     cur_ready, counter, run_time, results, service_time>>
  BY <1>1 DEF Fork, Now, new
<1>5. CurIdx' = -1 /\ StackOK(at, pc)' /\ Closing' = Closing
  BY <1>2, <1>4, SameStack DEF CurIdx, AtPlace, ControlOK, Signals, Early
<1>6. ControlOK(at, pc)'
  <2>1. \A p \in Procs : child'[p] = "start" \/ child'[p] = child[p]
    BY <1>4 DEF IInv, TypeOK
  <2>2. ChildrenOK(at, pc)'
    BY <1>2, <1>5, <2>1 DEF ChildrenOK, AtPlace, ControlOK, Early, Active
  <2> QED
    BY <1>2, <1>4, <1>5, <2>2 DEF ControlOK, AtPlace, StatusOK
<1>7. /\ readyq \in Seq(Pcb) /\ f \notin Idxs(readyq) /\ f \notin Idxs(waitq)
      /\ DistinctIdx(readyq)
      /\ Idxs(readyq) \subseteq 0..(f - 1) /\ Idxs(waitq) \subseteq 0..(f - 1)
      /\ 0..(f - 1) \subseteq Procs
  <2>1. HomesOK(pc) /\ f \notin 0..(f - 1)
    BY <1>2 DEF AtPlace, DataOK
  <2> QED
    BY <1>1, <2>1, HomeTypes DEF HomesOK
<1>8. /\ Elements(readyq') = Elements(readyq) \cup {n}
      /\ Idxs(readyq') = Idxs(readyq) \cup {f} /\ DistinctIdx(readyq')
      /\ set_scheduler = SJF /\ HeapOrdered(readyq) => HeapOrdered(readyq')
  BY <1>3, <1>4, <1>7, PutAdds
<1>9. HomesOK(pc)'
  <2>1. OnCpu(pc)' = {} /\ OnCpu(pc) = {}
    BY <1>2, <1>5 DEF OnCpu
  <2>2. 0..((f + 1) - 1) = (0..(f - 1)) \cup {f}
    BY <1>2
  <2>3. Idxs(readyq) \cup Idxs(waitq) = 0..(f - 1) /\ Idxs(readyq) \cap Idxs(waitq) = {}
        /\ DistinctIdx(waitq)
    BY <1>1, <2>1 DEF AtPlace, DataOK, HomesOK
  <2>4. /\ Idxs(readyq)' = Idxs(readyq') /\ Idxs(waitq)' = Idxs(waitq)
        /\ DistinctIdx(readyq)' = DistinctIdx(readyq')
        /\ DistinctIdx(waitq)' = DistinctIdx(waitq)
    BY <1>4 DEF Idxs, DistinctIdx
  <2> QED
    BY <1>4, <1>7, <1>8, <2>1, <2>2, <2>3, <2>4 DEF HomesOK
<1>10. FreshOK' /\ ReadyOK' /\ WaitOK'
  <2>1. FreshOK'
    BY <1>1, <1>2, <1>4 DEF AtPlace, DataOK, FreshOK, Owes, workload, IInv, TypeOK, Procs
  <2>2. WaitOK'
    BY <1>4 DEF AtPlace, DataOK, WaitOK, WaitPcb, Done, workload
  <2>3. ReadyOK'
    <3> SUFFICES ASSUME NEW pcb \in Elements(readyq') PROVE ReadyPcb(pcb)'
      BY DEF ReadyOK
    <3>1. ReadyPcb(pcb)' <=> ReadyPcb(pcb)
      BY <1>4 DEF ReadyPcb, Owes, AtQuantum, workload
    <3>2. CASE pcb \in Elements(readyq)
      BY <3>1, <3>2 DEF AtPlace, DataOK, ReadyOK
    <3>3. CASE pcb = n
      <4>1. Owes(f, 0) /\ service_time[f] = 0
        BY <1>1, <1>2 DEF AtPlace, DataOK, FreshOK
      <4>2. c_cpu[f] = cpu_burst[f]
        BY SMTT(60), <1>2, <4>1, SchedulerAssumption DEF Owes, IInv, TypeOK
      <4>3. 0 % TIME_QUANTUM = 0
        BY SchedulerAssumption
      <4> QED
        BY <1>3, <3>1, <3>3, <4>1, <4>2, <4>3 DEF ReadyPcb, AtQuantum
    <3> QED
      BY <1>8, <3>2, <3>3
  <2> QED
    BY <2>1, <2>2, <2>3
<1>11. CurOK(at, pc)' /\ MailOK(at, pc)'
  <2>1. CurOK(at, pc)'
    BY <1>5 DEF CurOK
  <2>2. \A p \in Procs : mq[p] = <<>>
    BY <1>2, CurIdxType DEF AtPlace, DataOK, MailOK
  <2> QED
    BY <1>2, <1>4, <2>1, <2>2 DEF MailOK, Mailed
<1>12. OrderOK'
  <2>1. OrderOK /\ Idxs(readyq) \subseteq Procs /\ UNCHANGED <<set_scheduler, run_time>>
    BY <1>4, <1>7 DEF AtPlace, DataOK, workload
  <2> QED
    BY <1>2, <1>3, <1>4, <1>7, <2>1, OrderArrives
<1> QED
  BY <1>6, <1>9, <1>10, <1>11, <1>12 DEF AtPlace, DataOK

\* A fork that fails, the end of the shutdown, a crash: only the status changes.
LEMMA StatusAtPlace ==
  ASSUME NEW at, NEW pc, IInv, IInv', AtPlace(at, pc),
         status' \in {"failed", "exited", "crashed"},
         UNCHANGED <<workload, forked, children, pending, frames, loop, queues, run_time,
                     results, times>>
  PROVE  AtPlace(at, pc)'
<1>1. Closing' = Closing /\ StackOK(at, pc)' /\ CurIdx' = CurIdx
  BY DEF Closing, StackOK, Depth, CurIdx, queues, AtPlace, ControlOK
<1>2. ControlOK(at, pc)'
  BY <1>1 DEF AtPlace, ControlOK, ChildrenOK, StatusOK, children
<1>3. run_time' <= run_time
  BY DEF IInv, TypeOK
<1>4. DataOK(at, pc)'
  BY <1>1, <1>3, DataStays DEF AtPlace, children
<1> QED
  BY <1>2, <1>4 DEF AtPlace

\* main takes the first process.
LEMMA StartAtPlace ==
  ASSUME NEW at, NEW pc, IInv, IInv', AtPlace(at, pc), StartTimer
  PROVE  AtPlace("none", "none")'
<1>1. /\ status = "boot" /\ forked = MAX_PROCESS /\ status' = "running"
      /\ cur_ready' = FirstReady(readyq) /\ readyq' = RestReady(readyq)
      /\ UNCHANGED <<workload, forked, children, pending, frames, loop, waitq, counter,
                     run_time, results, times>>
  BY DEF StartTimer
<1>2. at = "none" /\ CurIdx = -1 /\ counter = 0
  BY <1>1 DEF AtPlace, ControlOK, StatusOK
<1>3. pc = "none"
  BY <1>2 DEF AtPlace, ControlOK, Places, Signals
<1>4. ~Early("none", "none") /\ "none" \notin Signals
  BY DEF Early, Signals
<1>5. StackOK("none", "none")' /\ Closing' = Closing
  BY <1>1, <1>2, <1>3, <1>4, SameStack DEF AtPlace, ControlOK
<1>6. \A p \in Procs : child[p] \notin Active
  BY <1>2 DEF AtPlace, ControlOK, ChildrenOK
<1>7. ChildrenOK("none", "none")'
  BY <1>1, <1>2, <1>4, <1>5, <1>6 DEF AtPlace, ControlOK, ChildrenOK, children
<1>8. ControlOK("none", "none")'
  BY <1>1, <1>2, <1>3, <1>5, <1>7 DEF AtPlace, ControlOK, StatusOK
<1>9. \A p \in Procs : mq[p] = <<>>
  BY <1>2, CurIdxType DEF AtPlace, DataOK, MailOK
<1>10. OnCpu(pc) = {} /\ UNCHANGED <<c_cpu, mq>> /\ counter' = 0
  BY <1>1, <1>2 DEF OnCpu, children
<1>11. DataOK("none", "none")'
  BY <1>1, <1>9, <1>10, DataDispatched DEF AtPlace, DataOK
<1> QED
  BY <1>8, <1>11 DEF AtPlace

\* Where the work is when a child is active.
LEMMA ActiveChild ==
  ASSUME NEW at, NEW pc, IInv, AtPlace(at, pc), NEW p \in Procs, child[p] \in Active
  PROVE  /\ at = "child" /\ pc = child[p] /\ p = CurIdx
         /\ \A q \in Procs : q # p => child[q] \notin Active
         /\ pending = {} /\ "child" \notin Signals /\ status # "boot"
BY DEF AtPlace, ControlOK, ChildrenOK, StatusOK, Signals

LEMMA StopAtPlace ==
  ASSUME NEW at, NEW pc, IInv, IInv', AtPlace(at, pc), NEW p \in Procs, ChildStop(p)
  PROVE  AtPlace(at, pc)'
<1>1. /\ child[p] \in {"start", "stop"} /\ child' = [child EXCEPT ![p] = "stopped"]
      /\ UNCHANGED <<workload, forked, status, c_cpu, mq, pending, frames, loop,
                     queues, run_time, results, times>>
  BY DEF ChildStop
<1>2. Closing' = Closing /\ StackOK(at, pc)' /\ CurIdx' = CurIdx
  BY <1>1 DEF Closing, StackOK, Depth, CurIdx, queues, AtPlace, ControlOK
<1>3. \A q \in Procs : child'[q] = IF q = p THEN "stopped" ELSE child[q]
  BY <1>1 DEF IInv, TypeOK
<1>4. ChildrenOK(at, pc)'
  <2>1. \A q \in Procs : /\ child'[q] \in Active => child[q] \in Active
                         /\ child'[q] = "dead" => child[q] = "dead"
                         /\ child[q] = "stopped" => child'[q] = "stopped"
    BY <1>3 DEF Active
  <2>2. at = "child" => CurIdx \in Procs /\ CurIdx # p
    <3>1. at = "child" => pc \in Active /\ CurIdx # -1 /\ child[CurIdx] = pc
      BY DEF AtPlace, ControlOK, ChildrenOK, Places, Signals
    <3> QED
      BY <1>1, <3>1, CurIdxType DEF Active
  <2>3. at = "child" => child'[CurIdx] = pc
    BY <1>3, <2>2 DEF AtPlace, ControlOK, ChildrenOK
  <2> QED
    BY <1>2, <2>1, <2>3 DEF AtPlace, ControlOK, ChildrenOK
<1>5. ControlOK(at, pc)'
  BY <1>1, <1>2, <1>4 DEF AtPlace, ControlOK, StatusOK, queues
<1>6. run_time' <= run_time
  BY <1>1 DEF IInv, TypeOK
<1>7. DataOK(at, pc)'
  BY <1>1, <1>2, <1>6, DataStays DEF AtPlace
<1> QED
  BY <1>5, <1>7 DEF AtPlace

\* A unit of the burst, and the reset of its count when it was the last.
LEMMA BurstAtPlace ==
  ASSUME NEW at, NEW pc, IInv, IInv', AtPlace(at, pc), NEW p \in Procs, ChildBurst(p)
  PROVE  \E next \in Active : AtPlace("child", next)'
<1>1. PICK next : next = IF c_cpu[p] = 1 THEN "send" ELSE "usr1"
  OBVIOUS
<1>2. /\ child[p] = "run" /\ child' = [child EXCEPT ![p] = next]
      /\ c_cpu' = [c_cpu EXCEPT ![p] = BurstLeft(p)]
      /\ UNCHANGED <<workload, forked, status, mq, pending, frames, loop, queues,
                     run_time, results, times>>
  BY <1>1 DEF ChildBurst
<1>3. /\ at = "child" /\ pc = "run" /\ p = CurIdx /\ pending = {} /\ status # "boot"
      /\ \A q \in Procs : q # p => child[q] \notin Active
      /\ "child" \notin Signals /\ next \in {"send", "usr1"} /\ ~Early("child", next)
  BY <1>1, <1>2, ActiveChild DEF Active, Early
<1>4. CurIdx' = p /\ p # -1 /\ StackOK("child", next)' /\ Closing' = Closing
  BY <1>2, <1>3, SameStack, CurIdxType DEF CurIdx, queues, AtPlace, ControlOK
<1>5. \A q \in Procs : child'[q] = IF q = p THEN next ELSE child[q]
  BY <1>2 DEF IInv, TypeOK
<1>6. ChildrenOK("child", next)'
  <2>1. \A q \in Procs : child'[q] = "dead" => Closing'
    BY <1>3, <1>4, <1>5 DEF AtPlace, ControlOK, ChildrenOK
  <2> QED
    BY <1>3, <1>4, <1>5, <2>1 DEF ChildrenOK
<1>7. ControlOK("child", next)'
  BY <1>2, <1>3, <1>4, <1>6 DEF AtPlace, ControlOK, StatusOK, Places, Active
<1>8. Stage("child", next) = (IF next = "send" THEN "ended" ELSE "burnt")
  BY <1>3, Stages
<1>9. /\ DataOK("child", "run") /\ CurPcb("charged") /\ OnCpu("run") = {p}
      /\ OnCpu(next)' = {p}
  BY <1>3, <1>4, Stages DEF AtPlace, DataOK, CurOK, OnCpu
<1>10. HomesOK(next)'
  BY <1>2, <1>9, SameHomes DEF DataOK, queues
<1>11. \A q \in Procs : c_cpu'[q] = IF q = p THEN BurstLeft(p) ELSE c_cpu[q]
  BY <1>2 DEF IInv, TypeOK
<1>12. FreshOK' /\ ReadyOK' /\ WaitOK'
  BY <1>2, <1>9, <1>11, OthersKept DEF DataOK, queues, times
<1>13. CurOK("child", next)'
  <2>1. /\ cur_ready.cpu_burst = c_cpu[p] /\ Owes(p, 1) /\ SliceIs(p, 1)
        /\ service_time[p] >= 1
    BY <1>3, <1>9 DEF CurPcb
  <2>2. /\ c_cpu[p] \in Int /\ service_time[p] \in Int /\ cpu_burst[p] \in Int
        /\ cpu_burst[p] >= 1
    BY SchedulerAssumption DEF IInv, TypeOK
  <2>3. CASE c_cpu[p] = 1
    <3>1. next = "send" /\ c_cpu'[p] = cpu_burst[p] /\ service_time[p] = cpu_burst[p]
      BY <1>1, <1>11, <2>1, <2>2, <2>3 DEF Owes, BurstLeft
    <3> QED
      BY <1>2, <1>4, <1>8, <3>1 DEF CurOK, CurPcb, Done, workload, times, Stage
  <2>4. CASE c_cpu[p] # 1
    <3>1. next = "usr1" /\ c_cpu'[p] = c_cpu[p] - 1 /\ c_cpu'[p] >= 1
          /\ service_time[p] + c_cpu'[p] = cpu_burst[p] + 0
          /\ cur_ready.cpu_burst = c_cpu'[p] + 1
      BY <1>1, <1>11, <2>1, <2>2, <2>4 DEF Owes, BurstLeft
    <3>2. Stage("child", next)' = "burnt"
      BY <3>1, Stages DEF Stage
    <3>3. Owes(p, 0)' /\ SliceIs(p, 1)' /\ service_time'[p] >= 1
          /\ cur_ready'.cpu_burst = c_cpu'[p] + 1
      BY <1>2, <2>1, <3>1 DEF Owes, SliceIs, workload, times, queues
    <3> QED
      BY <1>4, <3>2, <3>3 DEF CurOK, CurPcb
  <2> QED
    BY <2>3, <2>4
<1>14. MailOK("child", next)'
  <2>1. \A q \in Procs : mq[q] = <<>>
    BY <1>9 DEF DataOK, MailOK, Mailed
  <2> QED
    BY <1>2, <1>3, <2>1 DEF MailOK, Mailed
<1>15. OrderOK'
  <2>1. run_time' \in Int /\ run_time' <= run_time
    BY <1>2 DEF IInv, TypeOK
  <2> QED
    BY <1>2, <1>9, <2>1, SameOrder DEF DataOK, queues, times, workload
<1>16. AtPlace("child", next)'
  BY <1>7, <1>10, <1>12, <1>13, <1>14, <1>15 DEF AtPlace, DataOK
<1> QED
  BY <1>3, <1>16 DEF Active

\* The message with the next bursts.
LEMMA SendAtPlace ==
  ASSUME NEW at, NEW pc, IInv, IInv', AtPlace(at, pc), NEW p \in Procs, ChildSend(p)
  PROVE  AtPlace("child", "usr2")'
<1>1. /\ child[p] = "send" /\ child' = [child EXCEPT ![p] = "usr2"]
      /\ mq' = [mq EXCEPT ![p] = Sent(p)]
      /\ UNCHANGED <<workload, forked, status, c_cpu, pending, frames, loop, queues,
                     run_time, results, times>>
  BY DEF ChildSend
<1>2. /\ at = "child" /\ pc = "send" /\ p = CurIdx /\ pending = {} /\ status # "boot"
      /\ \A q \in Procs : q # p => child[q] \notin Active
      /\ "child" \notin Signals /\ ~Early("child", "usr2")
  BY <1>1, ActiveChild DEF Active, Early
<1>3. CurIdx' = p /\ p # -1 /\ StackOK("child", "usr2")' /\ Closing' = Closing
  BY <1>1, <1>2, SameStack, CurIdxType DEF CurIdx, queues, AtPlace, ControlOK
<1>4. \A q \in Procs : child'[q] = IF q = p THEN "usr2" ELSE child[q]
  BY <1>1 DEF IInv, TypeOK
<1>5. ChildrenOK("child", "usr2")'
  <2>1. \A q \in Procs : child'[q] = "dead" => Closing'
    BY <1>2, <1>3, <1>4 DEF AtPlace, ControlOK, ChildrenOK
  <2> QED
    BY <1>2, <1>3, <1>4, <2>1 DEF ChildrenOK
<1>6. ControlOK("child", "usr2")'
  BY <1>1, <1>2, <1>3, <1>5 DEF AtPlace, ControlOK, StatusOK, Places, Active
<1>7. /\ DataOK("child", "send") /\ CurPcb("ended") /\ Done(p)
  BY <1>2, <1>3, CurIdxType, Stages DEF AtPlace, DataOK, CurOK, CurPcb
<1>8. HomesOK("usr2")' /\ OrderOK' /\ FreshOK' /\ ReadyOK' /\ WaitOK'
  <2>1. run_time' \in Int /\ run_time' <= run_time
    BY <1>1 DEF IInv, TypeOK
  <2>2. OnCpu("usr2")' = OnCpu("send")
    BY <1>2, <1>3 DEF OnCpu
  <2> QED
    BY <1>1, <1>7, <2>1, <2>2, SameHomes, SameOrder, OthersKept
       DEF DataOK, queues, times, workload
<1>9. CurOK("child", "usr2")'
  <2>1. Stage("child", "usr2")' = "ended"
    BY DEF Stage
  <2>2. Done(p)'
    BY <1>1, <1>7 DEF Done, workload, times
  <2> QED
    BY <1>3, <2>1, <2>2 DEF CurOK, CurPcb
<1>10. MailOK("child", "usr2")'
  <2>1. \A q \in Procs : mq[q] = <<>>
    BY <1>7 DEF DataOK, MailOK, Mailed
  <2>2. \A q \in Procs : mq'[q] = IF q = p THEN Sent(p) ELSE mq[q]
    BY <1>1 DEF IInv, TypeOK
  <2>3. Sent(p) = <<[cpu_time |-> cpu_burst[p], io_time |-> io_burst[p]]>> /\ Sent(p) # <<>>
    <3>1. Sent(p) = Append(<<>>, [cpu_time |-> cpu_burst[p], io_time |-> io_burst[p]])
      BY <1>7, <2>1 DEF Sent, Done
    <3> QED
      BY <3>1
  <2>4. Mailed("child", "usr2")
    BY DEF Mailed
  <2> QED
    BY <1>1, <1>3, <2>1, <2>2, <2>3, <2>4 DEF MailOK, Mailed, workload
<1> QED
  BY <1>6, <1>7, <1>8, <1>9, <1>10 DEF AtPlace, DataOK

\* The signal to the parent.
LEMMA NotifyAtPlace ==
  ASSUME NEW at, NEW pc, IInv, IInv', AtPlace(at, pc), NEW p \in Procs, ChildNotify(p)
  PROVE  \E sig \in {"USR1", "USR2"} : AtPlace("pending", sig)'
<1>1. PICK sig : sig = IF child[p] = "usr1" THEN "USR1" ELSE "USR2"
  OBVIOUS
<1>2. /\ child[p] \in {"usr1", "usr2"} /\ child' = [child EXCEPT ![p] = "stop"]
      /\ pending' = pending \cup {sig}
      /\ UNCHANGED <<workload, forked, status, c_cpu, mq, frames, loop, queues,
                     run_time, results, times>>
  BY <1>1 DEF ChildNotify
<1>3. /\ at = "child" /\ pc = child[p] /\ p = CurIdx /\ pending = {} /\ status # "boot"
      /\ \A q \in Procs : q # p => child[q] \notin Active
      /\ sig \in {"USR1", "USR2"} /\ ~Early("pending", sig) /\ "pending" \notin Signals
      /\ "child" \notin Signals
  BY <1>1, <1>2, ActiveChild DEF Active, Early, Signals
<1>4. CurIdx' = p /\ p # -1 /\ StackOK("pending", sig)' /\ Closing' = Closing
  BY <1>2, <1>3, SameStack, CurIdxType DEF CurIdx, queues, AtPlace, ControlOK
<1>5. \A q \in Procs : child'[q] = IF q = p THEN "stop" ELSE child[q]
  BY <1>2 DEF IInv, TypeOK
<1>6. ChildrenOK("pending", sig)'
  <2>1. \A q \in Procs : child'[q] = "dead" => Closing'
    BY <1>3, <1>4, <1>5 DEF AtPlace, ControlOK, ChildrenOK
  <2>2. \A q \in Procs : child'[q] \notin Active
    BY <1>3, <1>5 DEF Active
  <2> QED
    BY <1>3, <1>4, <2>1, <2>2 DEF ChildrenOK
<1>7. ControlOK("pending", sig)'
  BY <1>2, <1>3, <1>4, <1>6 DEF AtPlace, ControlOK, StatusOK, Places, Signals
<1>8. DataOK("pending", sig)'
  <2>1. run_time' \in Int /\ run_time' <= run_time
    BY <1>2 DEF IInv, TypeOK
  <2>2. Stage("pending", sig)' = Stage("child", pc)
    BY <1>1, <1>2, <1>3, Stages DEF Stage
  <2>3. Mailed("pending", sig) <=> Mailed("child", pc)
    BY <1>1, <1>2, <1>3 DEF Mailed
  <2>4. sig # "dispatch" /\ pc # "dispatch"
    BY <1>2, <1>3
  <2> QED
    BY <1>2, <1>3, <1>4, <2>1, <2>2, <2>3, <2>4, DataMoves DEF AtPlace
<1> QED
  BY <1>3, <1>7, <1>8 DEF AtPlace

-----------------------------------------------------------------------------
(* Signals *)

LEMMA DeliverAtPlace ==
  ASSUME NEW at, NEW pc, IInv, IInv', AtPlace(at, pc), NEW sig \in Signals, Deliver(sig)
  PROVE  AtPlace(sig, Entry(sig))'
<1>1. /\ status = "running" /\ sig \in pending /\ pending' = pending \ {sig}
      /\ UNCHANGED <<workload, forked, status, children, loop, queues, run_time,
                     results, times>>
  BY DEF Deliver
<1>2. at = "pending" /\ pc = sig /\ pending' = {}
  BY <1>1 DEF AtPlace, ControlOK
<1>3. StackOK(sig, Entry(sig))' /\ Closing' = Closing /\ CurIdx' = CurIdx
  BY <1>1, <1>2, OwnDeliver DEF AtPlace, ControlOK, CurIdx, queues
<1>4. <<sig, Entry(sig)>> \in Places /\ sig # "pending" /\ sig # "child"
  BY DEF Entry, Places, Signals
<1>5. ChildrenOK(sig, Entry(sig))'
  <2>1. ChildrenOK("pending", sig) /\ child' = child
    BY <1>1, <1>2 DEF AtPlace, ControlOK, children
  <2>2. Early(sig, Entry(sig)) => Early("pending", sig)
    BY <1>4 DEF Early
  <2>3. sig \in {"USR1", "USR2"} => sig # "ALRM"
    OBVIOUS
  <2> QED
    BY <1>3, <1>4, <2>1, <2>2, <2>3, SameChildren
<1>6. ControlOK(sig, Entry(sig))'
  BY <1>1, <1>2, <1>3, <1>4, <1>5 DEF ControlOK, AtPlace, StatusOK
<1>7. DataOK(sig, Entry(sig))'
  <2>1. run_time' \in Int /\ run_time' <= run_time
    BY <1>1 DEF IInv, TypeOK
  <2>2. Stage(sig, Entry(sig))' = Stage("pending", sig)
    BY Stages DEF Stage, Entry, Signals
  <2>3. Mailed("pending", sig) <=> Mailed(sig, Entry(sig))
    BY DEF Mailed, Entry, Signals
  <2>4. sig # "dispatch" /\ Entry(sig) # "dispatch" /\ Entry(sig) # "asleep"
    BY DEF Entry, Signals
  <2>5. UNCHANGED <<c_cpu, mq>>
    BY <1>1 DEF children
  <2> QED
    BY <1>1, <1>2, <1>3, <2>1, <2>2, <2>3, <2>4, <2>5, DataMoves DEF AtPlace
<1> QED
  BY <1>6, <1>7 DEF AtPlace

-----------------------------------------------------------------------------
(* signal_io *)

\* The process whose signal is handled.
LEMMA AtHandler ==
  ASSUME NEW at \in {"USR1", "USR2"}, NEW pc, IInv, AtPlace(at, pc)
  PROVE  /\ CurIdx \in Procs /\ CurIdx # -1 /\ cur_ready \in Pcb /\ cur_ready # NULL
         /\ cur_ready.idx = CurIdx /\ CurPcb(Stage(at, pc))
         /\ pending = {} /\ status # "boot" /\ at \in Signals /\ at # "child"
         /\ <<at, pc>> \in Places /\ StackOK(at, pc)
         /\ "none" \notin Signals
BY CurIdxType DEF AtPlace, ControlOK, ChildrenOK, StatusOK, DataOK, CurOK, Signals

\* A step of a handler to its next statement.
LEMMA HandlerGoes ==
  ASSUME NEW at \in {"USR1", "USR2"}, NEW pc, IInv, IInv', AtPlace(at, pc), At(at, pc),
         NEW next, Goto(next), <<at, next>> \in Places,
         UNCHANGED <<forked, status, child, pending>>, CurIdx' = CurIdx
  PROVE  ControlOK(at, next)' /\ Closing' = Closing
<1>1. StackOK(at, next)' /\ Closing' = Closing
  BY AtHandler, OwnGoto
<1>2. ChildrenOK(at, next)'
  <2>1. ChildrenOK(at, pc) /\ ~Early(at, next) /\ at # "child"
    BY DEF AtPlace, ControlOK, Early
  <2> QED
    BY <1>1, <2>1, SameChildren
<1> QED
  BY <1>1, <1>2, AtHandler DEF ControlOK, StatusOK, AtPlace

\* Its return.
LEMMA HandlerReturns ==
  ASSUME NEW at \in {"USR1", "USR2"}, NEW pc, IInv, IInv', AtPlace(at, pc), At(at, pc),
         Return, UNCHANGED <<forked, status, child, pending>>
  PROVE  ControlOK("none", "none")' /\ Closing' = Closing
<1>1. StackOK("none", "none")' /\ Closing' = Closing
  BY AtHandler, OwnReturn
<1>2. ChildrenOK("none", "none")'
  <2>1. ChildrenOK(at, pc) /\ ~Early("none", "none") /\ at # "child"
    BY DEF AtPlace, ControlOK, Early
  <2> QED
    BY <1>1, <2>1 DEF ChildrenOK
<1>3. status' # "boot" /\ pending' = {} /\ <<"none", "none">> \in Places
  BY AtHandler DEF Places
<1> QED
  BY <1>1, <1>2, <1>3 DEF ControlOK, StatusOK, AtPlace

\* pmsgrcv takes the message.
LEMMA ReceiveAtPlace ==
  ASSUME NEW at, NEW pc, IInv, IInv', AtPlace(at, pc), IoReceive
  PROVE  AtPlace("USR2", "requeue")'
<1>1. PICK q \in {"receive", "asleep"} : At("USR2", q)
  BY DEF IoReceive
<1>2. at = "USR2" /\ pc = q
  BY <1>1, WhereAt DEF AtPlace
<1>3. PICK p : p = CurIdx
  OBVIOUS
<1>4. /\ p \in Procs /\ p # -1 /\ cur_ready \in Pcb /\ cur_ready.idx = p
      /\ CurPcb("ended")
  BY <1>1, <1>2, <1>3, AtHandler, Stages
<1>5. /\ cur_ready' = Received(cur_ready, Head(Inbox)) /\ Inbox # <<>>
      /\ mq' = [mq EXCEPT ![p] = Tail(mq[p])]
      /\ Goto("requeue")
      /\ UNCHANGED <<workload, forked, status, child, c_cpu, pending, loop, readyq,
                     waitq, counter, run_time, results, times>>
  BY <1>4 DEF IoReceive
<1>6. /\ Inbox = <<[cpu_time |-> cpu_burst[p], io_time |-> io_burst[p]]>>
      /\ mq[p] = Inbox
      /\ \A r \in Procs : r # p => mq[r] = <<>>
  BY <1>2, <1>3, <1>4, <1>5 DEF Inbox, AtPlace, DataOK, MailOK
<1>7. /\ cur_ready' \in Pcb /\ cur_ready'.idx = p
      /\ cur_ready'.cpu_burst = cpu_burst[p] /\ cur_ready'.io_burst = io_burst[p]
  <2>1. PICK msg : /\ msg = Head(Inbox)
                   /\ msg.cpu_time = cpu_burst[p] /\ msg.io_time = io_burst[p]
    BY <1>6
  <2>2. cpu_burst[p] \in Int /\ io_burst[p] \in Int
    BY <1>4, SchedulerAssumption DEF IInv, TypeOK
  <2>3. cur_ready' = [cur_ready EXCEPT !.cpu_burst = msg.cpu_time, !.io_burst = msg.io_time]
    BY <1>5, <2>1 DEF Received
  <2> QED
    BY <1>4, <2>1, <2>2, <2>3 DEF Pcb
<1>8. CurIdx' = p
  BY <1>7, NullAssumption DEF CurIdx
<1>9. ControlOK("USR2", "requeue")' /\ Closing' = Closing
  <2>1. <<"USR2", "requeue">> \in Places
    BY DEF Places
  <2> QED
    BY <1>1, <1>2, <1>3, <1>5, <1>8, <2>1, HandlerGoes
<1>10. HomesOK("requeue")' /\ OrderOK' /\ FreshOK' /\ ReadyOK' /\ WaitOK'
  <2>1. run_time' \in Int /\ run_time' <= run_time
    BY <1>5 DEF IInv, TypeOK
  <2>2. OnCpu("requeue")' = OnCpu(pc)
    BY <1>1, <1>2, <1>3, <1>8 DEF OnCpu
  <2> QED
    BY <1>5, <2>1, <2>2, SameHomes, SameOrder, OthersKept
       DEF AtPlace, DataOK, times, workload
<1>11. CurOK("USR2", "requeue")'
  <2>1. Stage("USR2", "requeue")' = "received"
    BY DEF Stage
  <2>2. Done(p)'
    BY <1>3, <1>4, <1>5 DEF CurPcb, Done, workload, times
  <2> QED
    BY <1>5, <1>7, <1>8, <2>1, <2>2 DEF CurOK, CurPcb, workload
<1>12. MailOK("USR2", "requeue")'
  <2>1. Tail(mq[p]) = <<>>
    BY <1>6
  <2>2. \A r \in Procs : (mq[r] = <<>>)'
    BY <1>5, <1>6, <2>1 DEF IInv, TypeOK
  <2> QED
    BY <2>2 DEF MailOK, Mailed
<1> QED
  BY <1>9, <1>10, <1>11, <1>12 DEF AtPlace, DataOK

\* pmsgrcv sleeps: the shutdown has removed the message.
LEMMA SleepAtPlace ==
  ASSUME NEW at, NEW pc, IInv, IInv', AtPlace(at, pc), IoSleep
  PROVE  AtPlace("USR2", "asleep")'
<1>1. /\ At("USR2", "receive") /\ Inbox = <<>> /\ Goto("asleep")
      /\ UNCHANGED <<workload, forked, status, children, pending, loop, queues,
                     run_time, results, times>>
  BY DEF IoSleep
<1>2. at = "USR2" /\ pc = "receive"
  BY <1>1, WhereAt DEF AtPlace
<1>3. CurIdx' = CurIdx /\ <<"USR2", "asleep">> \in Places /\ UNCHANGED <<child, c_cpu, mq>>
  BY <1>1 DEF CurIdx, queues, Places, children
<1>4. ControlOK("USR2", "asleep")' /\ Closing' = Closing
  BY <1>1, <1>2, <1>3, HandlerGoes
<1>5. Closing
  <2>1. mq[CurIdx] = <<>>
    BY <1>1, <1>2, AtHandler DEF Inbox
  <2> QED
    BY <1>2, <2>1 DEF AtPlace, DataOK, MailOK, Mailed
<1>6. DataOK("USR2", "asleep")'
  <2>1. run_time' \in Int /\ run_time' <= run_time
    BY <1>1 DEF IInv, TypeOK
  <2>2. Stage("USR2", "asleep")' = Stage("USR2", "receive")
    BY DEF Stage
  <2>3. Mailed("USR2", "asleep") /\ Mailed("USR2", "receive")
    BY DEF Mailed
  <2> QED
    BY <1>1, <1>2, <1>3, <1>4, <1>5, <2>1, <2>2, <2>3, DataMoves DEF AtPlace
<1> QED
  BY <1>4, <1>6 DEF AtPlace

\* The process waits for its i/o.
LEMMA IoRequeueAtPlace ==
  ASSUME NEW at, NEW pc, IInv, IInv', AtPlace(at, pc), IoRequeue
  PROVE  AtPlace("USR2", "dispatch")'
<1>1. At("USR2", "requeue") /\ Goto("dispatch")
  BY DEF IoRequeue
<1>2. at = "USR2" /\ pc = "requeue"
  BY <1>1, WhereAt DEF AtPlace
<1>3. PICK p, n : p = CurIdx /\ n = cur_ready
  OBVIOUS
<1>4. /\ p \in Procs /\ p # -1 /\ n \in Pcb /\ n.idx = p
      /\ Done(p) /\ n.cpu_burst = cpu_burst[p] /\ n.io_burst = io_burst[p]
  BY <1>2, <1>3, AtHandler, Stages DEF CurPcb
<1>5. io_burst[p] \in Int /\ io_burst[p] >= 1
  BY <1>4, SchedulerAssumption DEF IInv, TypeOK
<1>6. /\ waitq' = Append(waitq, n)
      /\ UNCHANGED <<workload, forked, status, children, pending, loop, readyq, cur_ready,
                     counter, run_time, results, times>>
  BY <1>3, <1>4, <1>5 DEF IoRequeue
<1>7. CurIdx' = p
  BY <1>3, <1>6 DEF CurIdx
<1>8. ControlOK("USR2", "dispatch")' /\ Closing' = Closing
  <2>1. <<"USR2", "dispatch">> \in Places
    BY DEF Places
  <2> QED
    BY <1>1, <1>2, <1>3, <1>6, <1>7, <2>1, HandlerGoes DEF children
<1>9. /\ HomesOK("requeue") /\ OnCpu("requeue") = {p} /\ OnCpu("dispatch")' = {}
  BY <1>2, <1>3, <1>4 DEF AtPlace, DataOK, OnCpu
<1>10. /\ Elements(waitq') = Elements(waitq) \cup {n}
       /\ Idxs(waitq') = Idxs(waitq) \cup {p} /\ DistinctIdx(waitq')
  <2>1. waitq \in Seq(Pcb) /\ p \notin Idxs(waitq) /\ DistinctIdx(waitq)
    BY <1>9, HomeTypes DEF HomesOK
  <2> QED
    BY <1>4, <1>6, <2>1, AppendsTo, PutAdds
<1>11. HomesOK("dispatch")'
  <2>1. /\ Idxs(readyq)' = Idxs(readyq) /\ Idxs(waitq)' = Idxs(waitq')
        /\ DistinctIdx(readyq)' = DistinctIdx(readyq)
        /\ DistinctIdx(waitq)' = DistinctIdx(waitq')
    BY <1>6 DEF Idxs, DistinctIdx
  <2> QED
    BY <1>6, <1>9, <1>10, <2>1 DEF HomesOK
<1>12. FreshOK' /\ ReadyOK' /\ OrderOK'
  <2>1. run_time' \in Int /\ run_time' <= run_time
    BY <1>6 DEF IInv, TypeOK
  <2>2. FreshOK'
    BY <1>6 DEF AtPlace, DataOK, FreshOK, Owes, workload, children, times
  <2>3. ReadyOK'
    BY <1>6 DEF AtPlace, DataOK, ReadyOK, ReadyPcb, Owes, AtQuantum, workload, children,
                times
  <2> QED
    BY <1>6, <2>1, <2>2, <2>3, SameOrder DEF AtPlace, DataOK, times, workload
<1>13. WaitOK'
  <2> SUFFICES ASSUME NEW pcb \in Elements(waitq') PROVE WaitPcb(pcb)'
    BY DEF WaitOK
  <2>1. WaitPcb(pcb)' <=> WaitPcb(pcb)
    BY <1>6 DEF WaitPcb, Done, workload, children, times
  <2>2. WaitPcb(n)
    BY <1>4, <1>5 DEF WaitPcb
  <2> QED
    BY <1>10, <2>1, <2>2 DEF AtPlace, DataOK, WaitOK
<1>14. CurOK("USR2", "dispatch")'
  <2>1. Stage("USR2", "dispatch")' = "ended"
    BY DEF Stage
  <2>2. Done(p)'
    BY <1>4, <1>6 DEF Done, workload, times, children
  <2> QED
    BY <1>7, <2>1, <2>2 DEF CurOK, CurPcb
<1>15. MailOK("USR2", "dispatch")'
  <2>1. \A r \in Procs : mq[r] = <<>>
    BY <1>2 DEF AtPlace, DataOK, MailOK, Mailed
  <2> QED
    BY <1>6, <2>1 DEF MailOK, Mailed, children
<1> QED
  BY <1>8, <1>11, <1>12, <1>13, <1>14, <1>15 DEF AtPlace, DataOK

\* The next process is dispatched.
LEMMA IoDispatchAtPlace ==
  ASSUME NEW at, NEW pc, IInv, IInv', AtPlace(at, pc), IoDispatch
  PROVE  AtPlace("none", "none")'
<1>1. /\ At("USR2", "dispatch") /\ Return
      /\ cur_ready' = FirstReady(readyq) /\ readyq' = RestReady(readyq) /\ counter' = 0
      /\ UNCHANGED <<workload, forked, status, children, pending, loop, waitq,
                     run_time, results, times>>
  BY DEF IoDispatch
<1>2. at = "USR2" /\ pc = "dispatch"
  BY <1>1, WhereAt DEF AtPlace
<1>3. ControlOK("none", "none")'
  BY <1>1, <1>2, HandlerReturns DEF children
<1>4. \A p \in Procs : mq[p] = <<>>
  BY <1>2 DEF AtPlace, DataOK, MailOK, Mailed
<1>5. OnCpu("dispatch") = {} /\ UNCHANGED <<c_cpu, mq>>
  BY <1>1 DEF OnCpu, children
<1>6. DataOK("none", "none")'
  BY <1>1, <1>2, <1>4, <1>5, DataDispatched DEF AtPlace, DataOK
<1> QED
  BY <1>3, <1>6 DEF AtPlace

-----------------------------------------------------------------------------
(* signal_fcfs, signal_sjf and signal_rr *)

\* The remainder is the only one.
LEMMA RemainderIs ==
  ASSUME NEW n \in Int, NEW q \in Nat \ {0}, NEW k \in Int, NEW r \in 0..(q - 1),
         n = q * k + r
  PROVE  n % q = r
<1> DEFINE d == n \div q
           m == n % q
<1>1. m \in 0..(q - 1)
  OBVIOUS
<1>2. d \in Int /\ n = q * d + m
  OBVIOUS
<1> HIDE DEF d, m
<1>3. q * (k - d) = m - r
  <2>1. q * k - q * d = q * (k - d)
    BY <1>2
  <2>2. q * k \in Int /\ q * d \in Int /\ r \in Int /\ m \in Int
    BY <1>1, <1>2
  <2> QED
    BY <1>2, <2>1, <2>2
<1>4. PICK e \in Int : e = k - d
  BY <1>2
<1>5. q * e < q /\ q * e > 0 - q
  BY <1>1, <1>3, <1>4
<1>6. ~(e >= 1) /\ ~(e <= -1)
  <2>1. e >= 1 => q * e >= q
    OBVIOUS
  <2>2. e <= -1 => q * e <= 0 - q
    OBVIOUS
  <2> QED
    BY <1>5, <2>1, <2>2
<1>7. e = 0
  BY <1>6
<1>8. m = r
  BY <1>1, <1>3, <1>4, <1>7
<1> QED
  BY <1>8 DEF m

\* Counting a tick of a slice: the quantum is over, or the count goes on.
LEMMA QuantumStep ==
  ASSUME NEW s \in Int, NEW q \in Nat \ {0}
  PROVE  /\ (s - 1) % q \in 0..(q - 1)
         /\ ((s - 1) % q) + 1 >= q => s % q = 0
         /\ ((s - 1) % q) + 1 < q => s % q = ((s - 1) % q) + 1
<1>0. s - 1 \in Int
  OBVIOUS
<1>1. PICK t \in Int : t = s - 1
  BY <1>0
<1>2. PICK k, r : k = t \div q /\ r = t % q
  OBVIOUS
<1>3. k \in Int /\ r \in 0..(q - 1) /\ t = q * k + r
  BY <1>2
<1>4. ASSUME r + 1 >= q PROVE s % q = 0
  <2>1. r + 1 = q
    BY <1>3, <1>4
  <2>2. q * (k + 1) = q * k + q /\ k + 1 \in Int
    BY <1>3
  <2>3. s = q * (k + 1) + 0
    <3>1. q * k \in Int
      BY <1>3
    <3> QED
      BY <1>1, <1>3, <2>1, <2>2, <3>1
  <2> QED
    BY <2>2, <2>3, RemainderIs
<1>5. ASSUME r + 1 < q PROVE s % q = r + 1
  <2>1. r + 1 \in 0..(q - 1)
    BY <1>3, <1>5
  <2>2. s = q * k + (r + 1)
    <3>1. q * k \in Int
      BY <1>3
    <3> QED
      BY <1>1, <1>3, <3>1
  <2> QED
    BY <1>3, <2>1, <2>2, RemainderIs
<1> QED
  BY <1>1, <1>2, <1>3, <1>4, <1>5

\* Under FCFS and SJF the process whose burst goes on keeps the cpu; under RR it
\* keeps it until its quantum is over.
LEMMA StepAtPlace ==
  ASSUME NEW at, NEW pc, IInv, IInv', AtPlace(at, pc), BurstStep
  PROVE  AtPlace("none", "none")' \/ AtPlace("USR1", "requeue")'
<1>1. /\ At("USR1", "burst")
      /\ cur_ready' = [cur_ready EXCEPT !.cpu_burst = cur_ready.cpu_burst - 1]
      /\ counter' = IF set_scheduler = FCFS THEN counter ELSE counter + 1
      /\ IF Preempt(cur_ready'.cpu_burst, counter') THEN Goto("requeue") ELSE Return
      /\ UNCHANGED <<workload, forked, status, children, pending, loop, readyq,
                     waitq, run_time, results, times>>
  BY DEF BurstStep
<1>2. at = "USR1" /\ pc = "burst"
  BY <1>1, WhereAt DEF AtPlace
<1>3. PICK p : p = CurIdx
  OBVIOUS
<1>4. /\ p \in Procs /\ p # -1 /\ cur_ready \in Pcb /\ cur_ready.idx = p
      /\ cur_ready.cpu_burst = c_cpu[p] + 1 /\ Owes(p, 0) /\ SliceIs(p, 1)
      /\ service_time[p] >= 1
  BY <1>2, <1>3, AtHandler, Stages DEF CurPcb
<1>5. c_cpu[p] \in Int /\ service_time[p] \in Nat /\ counter \in Nat /\ c_cpu[p] >= 1
  BY <1>4 DEF IInv, TypeOK, Owes
<1>6. /\ cur_ready' \in Pcb /\ cur_ready'.idx = p /\ cur_ready'.cpu_burst = c_cpu[p]
  BY <1>1, <1>4, <1>5 DEF Pcb
<1>7. CurIdx' = p
  BY <1>6, NullAssumption DEF CurIdx
<1>8. /\ UNCHANGED <<c_cpu, mq, child>> /\ OnCpu("burst") = {p}
      /\ OnCpu("none")' = {p} /\ OnCpu("requeue")' = {p}
  BY <1>1, <1>3, <1>4, <1>7 DEF children, OnCpu
<1>9. /\ HomesOK("none")' /\ HomesOK("requeue")'
      /\ OrderOK' /\ FreshOK' /\ ReadyOK' /\ WaitOK'
  <2>1. run_time' \in Int /\ run_time' <= run_time
    BY <1>1 DEF IInv, TypeOK
  <2> QED
    BY <1>1, <1>2, <1>8, <2>1, SameHomes, SameOrder, OthersKept
       DEF AtPlace, DataOK, times, workload
<1>10. MailOK("none", "none")' /\ MailOK("USR1", "requeue")'
  <2>1. \A r \in Procs : mq[r] = <<>>
    BY <1>2 DEF AtPlace, DataOK, MailOK, Mailed
  <2> QED
    BY <1>8, <2>1 DEF MailOK, Mailed
<1>11. Owes(p, 0)' /\ (AtQuantum(p)' <=> AtQuantum(p)) /\ set_scheduler' = set_scheduler
  BY <1>1, <1>4, <1>8 DEF Owes, AtQuantum, times, workload
<1>12. set_scheduler = RR =>
         /\ counter' >= TIME_QUANTUM => AtQuantum(p)
         /\ counter' < TIME_QUANTUM => counter' = service_time[p] % TIME_QUANTUM
  <2> SUFFICES ASSUME set_scheduler = RR
               PROVE  /\ counter' >= TIME_QUANTUM => AtQuantum(p)
                      /\ counter' < TIME_QUANTUM => counter' = service_time[p] % TIME_QUANTUM
    OBVIOUS
  <2>1. counter = (service_time[p] - 1) % TIME_QUANTUM /\ counter' = counter + 1
    BY <1>1, <1>4 DEF SliceIs, RR, FCFS
  <2>2. QED
    <3>1. TIME_QUANTUM \in Nat \ {0} /\ service_time[p] \in Int
      BY <1>5, SchedulerAssumption
    <3>2. /\ counter \in 0..(TIME_QUANTUM - 1)
          /\ counter + 1 >= TIME_QUANTUM => service_time[p] % TIME_QUANTUM = 0
          /\ counter + 1 < TIME_QUANTUM => service_time[p] % TIME_QUANTUM = counter + 1
      BY <2>1, <3>1, QuantumStep
    <3> QED
      BY <2>1, <3>2 DEF AtQuantum
<1>13. CASE Preempt(cur_ready'.cpu_burst, counter')
  <2>1. Goto("requeue") /\ set_scheduler = RR /\ counter' >= TIME_QUANTUM
    BY <1>1, <1>5, <1>6, <1>13 DEF Preempt
  <2>2. ControlOK("USR1", "requeue")'
    <3>1. <<"USR1", "requeue">> \in Places
      BY DEF Places
    <3> QED
      BY <1>1, <1>2, <1>3, <1>7, <1>8, <2>1, <3>1, HandlerGoes
  <2>3. CurOK("USR1", "requeue")'
    <3>1. Stage("USR1", "requeue")' = "preempted"
      BY DEF Stage
    <3> QED
      BY <1>6, <1>7, <1>8, <1>11, <1>12, <2>1, <3>1 DEF CurOK, CurPcb
  <2> QED
    BY <1>9, <1>10, <2>2, <2>3 DEF AtPlace, DataOK
<1>14. CASE ~Preempt(cur_ready'.cpu_burst, counter')
  <2>1. Return /\ (set_scheduler = RR => counter' < TIME_QUANTUM)
    <3>1. counter' \in Int /\ TIME_QUANTUM \in Int
      BY SchedulerAssumption DEF IInv, TypeOK
    <3> QED
      BY <1>1, <1>14, <3>1 DEF Preempt
  <2>2. ControlOK("none", "none")'
    BY <1>1, <1>2, <1>8, <2>1, HandlerReturns
  <2>3. CurOK("none", "none")'
    <3>1. Stage("none", "none")' \in {"over", "before"}
      BY DEF Stage
    <3>2. SliceIs(p, 0)'
      <4>1. service_time'[p] - 0 = service_time[p]
        BY <1>1, <1>5 DEF times
      <4> QED
        BY <1>11, <1>12, <2>1, <4>1 DEF SliceIs
    <3> QED
      BY <1>6, <1>7, <1>8, <1>11, <3>1, <3>2 DEF CurOK, CurPcb
  <2> QED
    BY <1>9, <1>10, <2>2, <2>3 DEF AtPlace, DataOK
<1> QED
  BY <1>13, <1>14

\* The preempted process goes back to the ready queue.
LEMMA BurstRequeueAtPlace ==
  ASSUME NEW at, NEW pc, IInv, IInv', AtPlace(at, pc), BurstRequeue
  PROVE  AtPlace("USR1", "dispatch")'
<1>1. At("USR1", "requeue") /\ Goto("dispatch")
  BY DEF BurstRequeue
<1>2. at = "USR1" /\ pc = "requeue"
  BY <1>1, WhereAt DEF AtPlace
<1>3. PICK p, n : p = CurIdx /\ n = cur_ready
  OBVIOUS
<1>4. /\ p \in Procs /\ p # -1 /\ n \in Pcb /\ n.idx = p
      /\ n.cpu_burst = c_cpu[p] /\ Owes(p, 0) /\ set_scheduler = RR /\ AtQuantum(p)
  BY <1>2, <1>3, AtHandler, Stages DEF CurPcb
<1>5. /\ readyq' = PutReady(readyq, n)
      /\ UNCHANGED <<workload, forked, status, children, pending, loop, waitq, cur_ready,
                     counter, run_time, results, times>>
  BY <1>3, <1>4 DEF BurstRequeue
<1>6. CurIdx' = p
  BY <1>3, <1>5 DEF CurIdx
<1>7. ControlOK("USR1", "dispatch")' /\ Closing' = Closing
  <2>1. <<"USR1", "dispatch">> \in Places
    BY DEF Places
  <2> QED
    BY <1>1, <1>2, <1>3, <1>5, <1>6, <2>1, HandlerGoes DEF children
<1>8. /\ HomesOK("requeue") /\ OnCpu("requeue") = {p} /\ OnCpu("dispatch")' = {}
  BY <1>2, <1>3, <1>4 DEF AtPlace, DataOK, OnCpu
<1>9. /\ Elements(readyq') = Elements(readyq) \cup {n}
      /\ Idxs(readyq') = Idxs(readyq) \cup {p} /\ DistinctIdx(readyq')
  <2>1. readyq \in Seq(Pcb) /\ p \notin Idxs(readyq) /\ DistinctIdx(readyq)
    BY <1>8, HomeTypes DEF HomesOK
  <2> QED
    BY <1>4, <1>5, <2>1, PutAdds
<1>10. HomesOK("dispatch")'
  <2>1. /\ Idxs(readyq)' = Idxs(readyq') /\ Idxs(waitq)' = Idxs(waitq)
        /\ DistinctIdx(readyq)' = DistinctIdx(readyq')
        /\ DistinctIdx(waitq)' = DistinctIdx(waitq)
    BY <1>5 DEF Idxs, DistinctIdx
  <2> QED
    BY <1>5, <1>8, <1>9, <2>1 DEF HomesOK
<1>11. FreshOK' /\ WaitOK'
  BY <1>5 DEF AtPlace, DataOK, FreshOK, WaitOK, WaitPcb, Owes, Done, workload, children,
              times
<1>12. ReadyOK'
  <2> SUFFICES ASSUME NEW pcb \in Elements(readyq') PROVE ReadyPcb(pcb)'
    BY DEF ReadyOK
  <2>1. ReadyPcb(pcb)' <=> ReadyPcb(pcb)
    BY <1>5 DEF ReadyPcb, Owes, AtQuantum, workload, children, times
  <2>2. ReadyPcb(n)
    BY <1>4 DEF ReadyPcb
  <2> QED
    BY <1>9, <2>1, <2>2 DEF AtPlace, DataOK, ReadyOK
<1>13. OrderOK'
  <2>1. \A q \in Procs : arrival_time'[q] <= Now'
    BY <1>5 DEF AtPlace, DataOK, OrderOK, Now, times
  <2> QED
    BY <1>4, <1>5, <2>1 DEF OrderOK, RR, SJF, FCFS, workload
<1>14. CurOK("USR1", "dispatch")'
  <2>1. Stage("USR1", "dispatch")' = "preempted"
    BY DEF Stage
  <2>2. /\ Owes(p, 0)' /\ AtQuantum(p)' /\ set_scheduler' = RR
        /\ cur_ready'.cpu_burst = c_cpu'[p]
    BY <1>3, <1>4, <1>5 DEF Owes, AtQuantum, workload, times, children
  <2> QED
    BY <1>6, <2>1, <2>2 DEF CurOK, CurPcb
<1>15. MailOK("USR1", "dispatch")'
  <2>1. \A r \in Procs : mq[r] = <<>>
    BY <1>2 DEF AtPlace, DataOK, MailOK, Mailed
  <2> QED
    BY <1>5, <2>1 DEF MailOK, Mailed, children
<1> QED
  BY <1>7, <1>10, <1>11, <1>12, <1>13, <1>14, <1>15 DEF AtPlace, DataOK

\* The next process is dispatched.
LEMMA BurstDispatchAtPlace ==
  ASSUME NEW at, NEW pc, IInv, IInv', AtPlace(at, pc), BurstDispatch
  PROVE  AtPlace("none", "none")'
<1>1. /\ At("USR1", "dispatch") /\ Return
      /\ cur_ready' = FirstReady(readyq) /\ readyq' = RestReady(readyq)
      /\ set_scheduler = RR => counter' = 0
      /\ UNCHANGED <<workload, forked, status, children, pending, loop, waitq,
                     run_time, results, times>>
  BY DEF BurstDispatch
<1>2. at = "USR1" /\ pc = "dispatch"
  BY <1>1, WhereAt DEF AtPlace
<1>3. ControlOK("none", "none")'
  BY <1>1, <1>2, HandlerReturns DEF children
<1>4. \A p \in Procs : mq[p] = <<>>
  BY <1>2 DEF AtPlace, DataOK, MailOK, Mailed
<1>5. OnCpu("dispatch") = {} /\ UNCHANGED <<c_cpu, mq>>
  BY <1>1 DEF OnCpu, children
<1>6. DataOK("none", "none")'
  BY <1>1, <1>2, <1>4, <1>5, DataDispatched DEF AtPlace, DataOK
<1> QED
  BY <1>3, <1>6 DEF AtPlace

-----------------------------------------------------------------------------
(* signal_count *)

\* While the work is in signal_count no child is active.
LEMMA AtCount ==
  ASSUME NEW pc, IInv, AtPlace("ALRM", pc)
  PROVE  /\ \A p \in Procs : child[p] = "stopped"
         /\ pending = {} /\ status # "boot" /\ "ALRM" \in Signals
         /\ <<"ALRM", pc>> \in Places /\ StackOK("ALRM", pc)
         /\ HomesOK(pc) /\ FreshOK /\ ReadyOK /\ WaitOK /\ OrderOK
         /\ pc # "dispatch" /\ OnCpu(pc) = {CurIdx} \ {-1}
         /\ CurIdx # -1 => CurPcb(Stage("ALRM", pc))
         /\ \A p \in Procs : mq[p] = <<>>
<1>1. <<"ALRM", pc>> \in Places /\ pc # "dispatch"
  BY DEF AtPlace, ControlOK, Places, Signals
<1> QED
  BY <1>1 DEF AtPlace, ControlOK, ChildrenOK, StatusOK, Early, DataOK, CurOK, MailOK,
              Mailed, OnCpu, Signals

\* A step of signal_count to its next statement.
LEMMA CountGoes ==
  ASSUME NEW pc, IInv, IInv', AtPlace("ALRM", pc), At("ALRM", pc), NEW next,
         Goto(next), <<"ALRM", next>> \in Places,
         UNCHANGED <<forked, status, child, pending>>, CurIdx' = CurIdx
  PROVE  ControlOK("ALRM", next)' /\ Closing' = Closing
<1>1. StackOK("ALRM", next)' /\ Closing' = Closing
  BY AtCount, OwnGoto
<1>2. ChildrenOK("ALRM", next)'
  <2>1. ChildrenOK("ALRM", pc) /\ Early("ALRM", pc)
    BY DEF AtPlace, ControlOK, Early
  <2> QED
    BY <1>1, <2>1, SameChildren
<1> QED
  BY <1>1, <1>2, AtCount DEF ControlOK, StatusOK, AtPlace

\* No message is in a queue when none was, and the work is not where one would be.
LEMMA NoMail ==
  ASSUME NEW at, NEW pc, ~Mailed(at, pc), \A p \in Procs : mq[p] = <<>>, mq' = mq
  PROVE  MailOK(at, pc)'
<1>1. ~Mailed(at, pc)' /\ ~(at = "USR2" /\ pc = "asleep")
  BY DEF Mailed
<1> QED
  BY <1>1 DEF MailOK

\* The tick is charged to the current process.
LEMMA AccountAtPlace ==
  ASSUME NEW at, NEW pc, IInv, IInv', AtPlace(at, pc), CountAccount
  PROVE  AtPlace("ALRM", "iowait")'
<1>1. /\ At("ALRM", "account") /\ Goto("iowait") /\ cur_ready # NULL
      /\ UNCHANGED <<workload, forked, status, children, pending, queues, run_time,
                     arrival_time>>
  BY DEF CountAccount
<1>2. at = "ALRM" /\ pc = "account"
  BY <1>1, WhereAt DEF AtPlace
<1>3. CurIdx' = CurIdx /\ UNCHANGED <<child, c_cpu, mq, readyq, waitq, cur_ready, counter>>
  BY <1>1 DEF CurIdx, queues, children
<1>4. ControlOK("ALRM", "iowait")'
  <2>1. <<"ALRM", "iowait">> \in Places
    BY DEF Places
  <2> QED
    BY <1>1, <1>2, <1>3, <2>1, CountGoes
<1>5. \A p \in Procs : service_time'[p] =
        IF p = CurIdx THEN service_time[p] + 1 ELSE service_time[p]
  <2>1. CASE CurIdx = -1
    BY <1>1, <2>1, CurIdxType DEF CountAccount, CurIdx
  <2>2. CASE CurIdx # -1
    <3>1. service_time' = [service_time EXCEPT ![CurIdx] = service_time[CurIdx] + 1]
      BY <1>1, <2>2 DEF CountAccount, CurIdx
    <3> QED
      BY <3>1 DEF IInv, TypeOK
  <2> QED
    BY <2>1, <2>2
<1>6. HomesOK("iowait")' /\ OrderOK' /\ FreshOK' /\ ReadyOK' /\ WaitOK'
  <2>1. run_time' \in Int /\ run_time' <= run_time
    BY <1>1 DEF IInv, TypeOK
  <2>2. OnCpu("iowait")' = OnCpu("account")
    BY <1>3 DEF OnCpu
  <2>3. \A p \in Procs : p \notin OnCpu("account") =>
          c_cpu'[p] = c_cpu[p] /\ service_time'[p] = service_time[p]
    BY <1>3, <1>5, CurIdxType DEF OnCpu
  <2> QED
    BY <1>1, <1>2, <1>3, <2>1, <2>2, <2>3, AtCount, SameHomes, SameOrder, OthersKept
       DEF workload
<1>7. CurOK("ALRM", "iowait")'
  <2> SUFFICES ASSUME CurIdx # -1 PROVE CurPcb(Stage("ALRM", "iowait"))'
    BY <1>3 DEF CurOK
  <2>1. PICK p : p = CurIdx
    OBVIOUS
  <2>2. p \in Procs
    BY <2>1, CurIdxType
  <2>3. cur_ready.cpu_burst = c_cpu[p] /\ Owes(p, 0) /\ SliceIs(p, 0)
    BY <1>2, <2>1, AtCount, Stages DEF CurPcb
  <2>4. service_time[p] \in Nat /\ c_cpu[p] \in Int /\ cpu_burst[p] \in Int
    BY <2>2, SchedulerAssumption DEF IInv, TypeOK
  <2>5. service_time'[p] = service_time[p] + 1
    BY <1>5, <2>1, <2>2
  <2>6. Owes(p, 1)' /\ service_time'[p] >= 1
    BY <1>1, <1>3, <2>3, <2>4, <2>5 DEF Owes, workload
  <2>7. SliceIs(p, 1)'
    <3>1. service_time'[p] - 1 = service_time[p] - 0
      BY <2>4, <2>5
    <3> QED
      BY <1>1, <1>3, <2>3, <3>1 DEF SliceIs, workload
  <2>8. Stage("ALRM", "iowait")' = "charged"
    BY DEF Stage
  <2> QED
    BY <1>3, <2>1, <2>3, <2>6, <2>7, <2>8 DEF CurPcb
<1>8. MailOK("ALRM", "iowait")'
  <2>1. ~Mailed("ALRM", "iowait")
    BY DEF Mailed
  <2> QED
    BY <1>2, <1>3, <2>1, AtCount, NoMail
<1> QED
  BY <1>4, <1>6, <1>7, <1>8 DEF AtPlace, DataOK

\* The data while the process at the head of the wait queue moves: what is left to
\* show is about the queues.
LEMMA IoAtPlace ==
  ASSUME NEW at, NEW pc, IInv, IInv', AtPlace(at, pc), CountIo
  PROVE  AtPlace("ALRM", "iowait")'
<1>1. /\ At("ALRM", "iowait") /\ loop > 0
      /\ UNCHANGED <<workload, forked, status, children, pending, frames, cur_ready,
                     counter, run_time, results>>
  BY DEF CountIo
<1>2. at = "ALRM" /\ pc = "iowait"
  BY <1>1, WhereAt DEF AtPlace
<1>3. CurIdx' = CurIdx /\ UNCHANGED <<child, c_cpu, mq>>
  BY <1>1 DEF CurIdx, children
<1>4. ControlOK("ALRM", "iowait")'
  <2>1. StackOK("ALRM", "iowait")' /\ Closing' = Closing
    BY <1>1, <1>2 DEF AtPlace, ControlOK, StackOK, Closing, Depth
  <2> QED
    BY <1>1, <1>2, <1>3, <2>1 DEF AtPlace, ControlOK, ChildrenOK, StatusOK
<1>5. PICK h : h = Head(waitq)
  OBVIOUS
<1>6. PICK e : e = [h EXCEPT !.io_burst = h.io_burst - 1]
  OBVIOUS
<1>7. waitq \in Seq(Pcb) /\ waitq # <<>>
  <2>1. InHandler("iowait")
    BY <1>1, FrameType DEF At, Top, InHandler, IInv, TypeOK, FramesOK
  <2>2. loop <= Len(waitq) /\ loop \in Nat /\ waitq \in Seq(Pcb)
    BY <2>1 DEF IInv, LoopWithinQueue, TypeOK
  <2> QED
    BY <1>1, <2>2
<1>8. /\ HomesOK("iowait") /\ FreshOK /\ ReadyOK /\ WaitOK /\ OrderOK
      /\ OnCpu("iowait")' = OnCpu("iowait")
  BY <1>2, <1>3, AtCount DEF OnCpu
<1>9. PICK p : p = h.idx
  OBVIOUS
<1>10. /\ h \in Elements(waitq) /\ h \in Pcb /\ p \in Idxs(waitq) /\ p \in Procs
       /\ Tail(waitq) \in Seq(Pcb)
       /\ Elements(Tail(waitq)) = Elements(waitq) \ {h}
       /\ DistinctIdx(Tail(waitq)) /\ DistinctIdx(waitq)
       /\ Idxs(Tail(waitq)) = Idxs(waitq) \ {p}
  <2>1. DistinctIdx(waitq)
    BY <1>8 DEF HomesOK
  <2>2. /\ h \in Elements(waitq)
        /\ Elements(Tail(waitq)) = Elements(waitq) \ {h}
        /\ DistinctIdx(Tail(waitq))
        /\ \A x \in Elements(Tail(waitq)) : x.idx # p
    BY <1>5, <1>7, <1>9, <2>1, TailOf
  <2>3. Tail(waitq) \in Seq(Pcb)
    BY <1>7, HeadTailProperties
  <2> QED
    BY <1>8, <1>9, <2>1, <2>2, <2>3, HomeTypes DEF Idxs
<1>11. WaitPcb(h)
  BY <1>8, <1>10 DEF WaitOK
<1>12. /\ e \in Pcb /\ e.idx = p /\ e.cpu_burst = h.cpu_burst /\ e.io_burst = h.io_burst - 1
  BY <1>6, <1>9, <1>10, CountedDown DEF Pcb
<1>13. p \notin Idxs(readyq) /\ p \notin OnCpu("iowait") /\ p < forked
       /\ Idxs(readyq) \subseteq Procs
  BY <1>8, <1>10, HomeTypes DEF HomesOK
<1>14. MailOK("ALRM", "iowait")'
  <2>1. ~Mailed("ALRM", "iowait")
    BY DEF Mailed
  <2> QED
    BY <1>2, <1>3, <2>1, AtCount, NoMail
<1>15. ASSUME \A q \in Procs : q # p => service_time'[q] = service_time[q]
       PROVE  CurOK("ALRM", "iowait")' /\ FreshOK'
  <2>1. FreshOK'
    <3> SUFFICES ASSUME NEW q \in Procs, q >= forked
                 PROVE  (Owes(q, 0) /\ service_time[q] = 0)'
      BY <1>1 DEF FreshOK
    <3>1. q # p
      <4>1. p \in Nat /\ forked \in Nat
        BY <1>8, <1>10, HomeTypes, SchedulerAssumption DEF Procs
      <4> QED
        BY <1>13, <4>1
    <3>2. service_time'[q] = service_time[q]
      BY <1>15, <3>1
    <3> QED
      BY <1>1, <1>3, <1>8, <3>2 DEF FreshOK, Owes, workload
  <2>2. CurOK("ALRM", "iowait")'
    <3> SUFFICES ASSUME CurIdx # -1 PROVE CurPcb(Stage("ALRM", "iowait"))'
      BY <1>3 DEF CurOK
    <3>1. CurIdx # p /\ CurIdx \in Procs
      BY <1>13, CurIdxType DEF OnCpu
    <3>2. service_time'[CurIdx] = service_time[CurIdx]
      BY <1>15, <3>1
    <3>3. CurPcb("charged") /\ Stage("ALRM", "iowait")' = "charged"
      BY ZenonT(60), <1>2, AtCount, Stages DEF Stage
    <3> QED
      BY <1>1, <1>3, <3>2, <3>3 DEF CurPcb, Owes, SliceIs, workload
  <2> QED
    BY <2>1, <2>2
<1>16. CASE e.io_burst = 0
  <2>1. /\ readyq' = PutReady(readyq, e) /\ waitq' = Tail(waitq)
        /\ arrival_time' = [arrival_time EXCEPT ![p] = Now]
        /\ service_time' = [service_time EXCEPT ![p] = 0]
    BY <1>5, <1>6, <1>12, <1>16 DEF CountIo, IoOver
  <2>2. \A q \in Procs : service_time'[q] = IF q = p THEN 0 ELSE service_time[q]
    BY <2>1 DEF IInv, TypeOK
  <2>3. /\ Elements(readyq') = Elements(readyq) \cup {e}
        /\ Idxs(readyq') = Idxs(readyq) \cup {p} /\ DistinctIdx(readyq')
    BY <1>8, <1>12, <1>13, <2>1, HomeTypes, PutAdds DEF HomesOK
  <2>4. HomesOK("iowait")'
    <3>1. /\ Idxs(readyq)' = Idxs(readyq') /\ Idxs(waitq)' = Idxs(waitq')
          /\ DistinctIdx(readyq)' = DistinctIdx(readyq')
          /\ DistinctIdx(waitq)' = DistinctIdx(waitq')
      BY DEF Idxs, DistinctIdx
    <3> QED
      BY <1>1, <1>8, <1>10, <1>13, <2>1, <2>3, <3>1 DEF HomesOK
  <2>5. WaitOK'
    <3> SUFFICES ASSUME NEW pcb \in Elements(waitq') PROVE WaitPcb(pcb)'
      BY DEF WaitOK
    <3>1. pcb \in Elements(waitq) /\ pcb.idx \in Idxs(Tail(waitq))
      BY <1>10, <2>1 DEF Idxs
    <3>2. pcb.idx # p /\ pcb.idx \in Procs
      BY <1>8, <1>10, <3>1, HomeTypes
    <3> QED
      BY <1>1, <1>3, <1>8, <2>2, <3>1, <3>2 DEF WaitOK, WaitPcb, Done, workload
  <2>6. ReadyOK'
    <3> SUFFICES ASSUME NEW pcb \in Elements(readyq') PROVE ReadyPcb(pcb)'
      BY DEF ReadyOK
    <3>1. CASE pcb \in Elements(readyq)
      <4>1. pcb.idx # p /\ pcb.idx \in Procs
        BY <1>13, <3>1 DEF Idxs
      <4> QED
        BY <1>1, <1>3, <1>8, <2>2, <3>1, <4>1
           DEF ReadyOK, ReadyPcb, Owes, AtQuantum, workload
    <3>2. CASE pcb = e
      <4>1. c_cpu[p] = cpu_burst[p] /\ e.cpu_burst = cpu_burst[p] /\ cpu_burst[p] >= 1
            /\ cpu_burst[p] \in Int
        BY SMTT(60), <1>9, <1>10, <1>11, <1>12, SchedulerAssumption DEF WaitPcb, Done, IInv, TypeOK
      <4>2. service_time'[p] = 0 /\ 0 % TIME_QUANTUM = 0
        BY <1>10, <2>2, SchedulerAssumption
      <4> QED
        BY <1>1, <1>3, <1>12, <3>2, <4>1, <4>2 DEF ReadyPcb, Owes, AtQuantum, workload
    <3> QED
      BY <2>3, <3>1, <3>2
  <2>7. OrderOK'
    BY <1>1, <1>8, <1>10, <1>12, <1>13, <2>1, OrderArrives DEF workload
  <2> QED
    BY <1>4, <1>14, <1>15, <2>2, <2>4, <2>5, <2>6, <2>7 DEF AtPlace, DataOK
<1>17. CASE e.io_burst # 0
  <2>1. waitq' = Append(Tail(waitq), e) /\ UNCHANGED <<readyq, times>>
    BY <1>5, <1>6, <1>17 DEF CountIo
  <2>2. /\ Elements(waitq') = Elements(Tail(waitq)) \cup {e}
        /\ Idxs(waitq') = Idxs(waitq) /\ DistinctIdx(waitq')
    <3>1. PICK t \in Seq(Pcb) : t = Tail(waitq)
      BY <1>10
    <3>2. p \notin Idxs(t) /\ DistinctIdx(t)
      BY <1>10, <3>1
    <3>3. \A x \in Elements(t) : x.idx # e.idx
      BY <1>12, <3>2 DEF Idxs
    <3>4. Elements(Append(t, e)) = Elements(t) \cup {e} /\ DistinctIdx(Append(t, e))
      BY <1>12, <3>2, <3>3, AppendsTo
    <3>5. Idxs(Append(t, e)) = Idxs(t) \cup {p}
      BY <1>12, PutAdds
    <3>6. Idxs(waitq) = Idxs(t) \cup {p}
      BY <1>10, <3>1
    <3> QED
      BY <2>1, <3>1, <3>4, <3>5, <3>6
  <2>3. HomesOK("iowait")'
    <3>1. /\ Idxs(readyq)' = Idxs(readyq) /\ Idxs(waitq)' = Idxs(waitq')
          /\ DistinctIdx(readyq)' = DistinctIdx(readyq)
          /\ DistinctIdx(waitq)' = DistinctIdx(waitq')
      BY <2>1 DEF Idxs, DistinctIdx
    <3> QED
      BY <1>1, <1>8, <2>2, <3>1 DEF HomesOK
  <2>4. ReadyOK'
    BY <1>1, <1>3, <1>8, <2>1 DEF ReadyOK, ReadyPcb, Owes, AtQuantum, workload, times
  <2>5. WaitOK'
    <3> SUFFICES ASSUME NEW pcb \in Elements(waitq') PROVE WaitPcb(pcb)'
      BY DEF WaitOK
    <3>1. WaitPcb(pcb)' <=> WaitPcb(pcb)
      BY <1>1, <1>3, <2>1 DEF WaitPcb, Done, workload, times
    <3>2. WaitPcb(e)
      <4>1. h.io_burst \in Int /\ io_burst[p] \in Int
        BY <1>10, SchedulerAssumption DEF Pcb, IInv, TypeOK
      <4> QED
        BY <1>9, <1>11, <1>12, <1>17, <4>1 DEF WaitPcb
    <3> QED
      BY <1>8, <1>10, <2>2, <3>1, <3>2 DEF WaitOK
  <2>6. OrderOK'
    <3>1. run_time' \in Int /\ run_time' <= run_time
      BY <1>1 DEF IInv, TypeOK
    <3> QED
      BY <1>1, <1>8, <2>1, <3>1, SameOrder DEF workload, times
  <2> QED
    BY <1>4, <1>14, <1>15, <2>1, <2>3, <2>4, <2>5, <2>6 DEF AtPlace, DataOK, times
<1> QED
  BY <1>16, <1>17

\* The loop over the wait queue is over.
LEMMA IoDoneAtPlace ==
  ASSUME NEW at, NEW pc, IInv, IInv', AtPlace(at, pc), CountIoDone
  PROVE  AtPlace("ALRM", "cont")'
<1>1. /\ At("ALRM", "iowait") /\ Goto("cont")
      /\ UNCHANGED <<workload, forked, status, children, pending, loop, queues,
                     run_time, results, times>>
  BY DEF CountIoDone
<1>2. at = "ALRM" /\ pc = "iowait"
  BY <1>1, WhereAt DEF AtPlace
<1>3. CurIdx' = CurIdx /\ UNCHANGED <<child, c_cpu, mq>> /\ <<"ALRM", "cont">> \in Places
  BY <1>1 DEF CurIdx, queues, children, Places
<1>4. ControlOK("ALRM", "cont")' /\ Closing' = Closing
  BY <1>1, <1>2, <1>3, CountGoes
<1>5. DataOK("ALRM", "cont")'
  <2>1. run_time' \in Int /\ run_time' <= run_time
    BY <1>1 DEF IInv, TypeOK
  <2>2. Stage("ALRM", "cont")' = Stage("ALRM", "iowait")
    BY DEF Stage
  <2>3. ~Mailed("ALRM", "iowait") /\ ~Mailed("ALRM", "cont")
    BY DEF Mailed
  <2> QED
    BY <1>1, <1>2, <1>3, <1>4, <2>1, <2>2, <2>3, DataMoves DEF AtPlace
<1> QED
  BY <1>4, <1>5 DEF AtPlace

\* The child is continued; when the cpu is idle there is none.
LEMMA ContAtPlace ==
  ASSUME NEW at, NEW pc, IInv, IInv', AtPlace(at, pc), CountCont
  PROVE  AtPlace("none", "none")' \/ AtPlace("child", "run")'
<1>1. /\ At("ALRM", "cont") /\ Goto("timer") /\ cur_ready # NULL
      /\ child' = IF cur_ready.idx # -1 /\ child[cur_ready.idx] = "stopped"
                  THEN [child EXCEPT ![cur_ready.idx] = "run"]
                  ELSE child
      /\ UNCHANGED <<workload, forked, status, c_cpu, mq, pending, loop, queues,
                     run_time, results, times>>
  BY DEF CountCont
<1>2. at = "ALRM" /\ pc = "cont"
  BY <1>1, WhereAt DEF AtPlace
<1>3. /\ \A p \in Procs : child[p] = "stopped" /\ mq[p] = <<>>
      /\ pending = {} /\ status # "boot" /\ StackOK("ALRM", "cont")
      /\ HomesOK("cont") /\ FreshOK /\ ReadyOK /\ WaitOK /\ OrderOK
  BY <1>2, AtCount
<1>4. CurIdx' = CurIdx /\ UNCHANGED <<readyq, waitq, cur_ready>>
  BY <1>1 DEF CurIdx, queues
<1>5. run_time' \in Int /\ run_time' <= run_time
  BY <1>1 DEF IInv, TypeOK
<1>6. FreshOK' /\ ReadyOK' /\ WaitOK' /\ OrderOK'
  BY <1>1, <1>3, <1>4, <1>5, OthersKept, SameOrder DEF times, workload
<1>7. CASE CurIdx = -1
  <2>1. StackOK("none", "none")' /\ ~Closing'
    BY <1>1, <1>3, ContGoto
  <2>2. child' = child
    BY <1>1, <1>7 DEF CurIdx
  <2>3. ChildrenOK("none", "none")' /\ StatusOK("none")'
    BY <1>1, <1>2, <1>3, <2>2 DEF ChildrenOK, StatusOK, Early, Active, AtPlace, ControlOK
  <2>4. ControlOK("none", "none")'
    BY <1>1, <1>3, <2>1, <2>3 DEF ControlOK, Places
  <2>5. HomesOK("none")' /\ CurOK("none", "none")'
    BY <1>1, <1>3, <1>4, <1>7, SameHomes DEF OnCpu, CurOK
  <2>6. MailOK("none", "none")'
    <3>1. ~Mailed("none", "none")
      BY DEF Mailed
    <3> QED
      BY <1>1, <1>3, <3>1, NoMail
  <2> QED
    BY <1>6, <2>4, <2>5, <2>6 DEF AtPlace, DataOK
<1>8. CASE CurIdx # -1
  <2>0. PICK p : p = CurIdx
    OBVIOUS
  <2>1. p \in Procs /\ p # -1 /\ cur_ready.idx = p /\ CurIdx' = p
    BY <1>4, <1>8, <2>0, CurIdxType
  <2>2. \A q \in Procs : child'[q] = IF q = p THEN "run" ELSE "stopped"
    BY <1>1, <1>3, <2>1 DEF IInv, TypeOK
  <2>3. StackOK("child", "run")' /\ ~Closing'
    BY <1>1, <1>3, ContGoto
  <2>4. ChildrenOK("child", "run")' /\ StatusOK("child")'
    BY <1>1, <1>2, <1>3, <2>1, <2>2
       DEF ChildrenOK, StatusOK, Early, Active, AtPlace, ControlOK
  <2>5. ControlOK("child", "run")'
    BY <1>1, <1>3, <2>3, <2>4 DEF ControlOK, Places, Active
  <2>6. HomesOK("run")'
    BY <1>1, <1>3, <1>4, SameHomes DEF OnCpu
  <2>7. CurOK("child", "run")'
    <3>1. CurPcb("charged") /\ Stage("child", "run")' = "charged"
      BY ZenonT(60), <1>2, <1>8, AtCount, Stages DEF Stage
    <3> QED
      BY <1>1, <1>4, <3>1 DEF CurOK, CurPcb, Owes, SliceIs, workload, times, queues
  <2>8. MailOK("child", "run")'
    <3>1. ~Mailed("child", "run")
      BY DEF Mailed
    <3> QED
      BY <1>1, <1>3, <3>1, NoMail
  <2> QED
    BY <1>6, <2>5, <2>6, <2>7, <2>8 DEF AtPlace, DataOK
<1> QED
  BY <1>7, <1>8

-----------------------------------------------------------------------------
(* The rest of signal_count *)

\* The work of the tick is elsewhere.
LEMMA AtLate ==
  ASSUME NEW at, NEW pc, IInv, AtPlace(at, pc),
         NEW q \in {"timer", "rmid", "kill", "exit"}, At("ALRM", q)
  PROVE  /\ at \notin Signals /\ ~Early(at, pc) /\ Depth = 1
         /\ Closing <=> q # "timer"
         /\ pc # "dispatch" /\ at # "USR1" /\ at # "USR2" /\ at # "ALRM" /\ status # "boot"
<1>1. at \notin Signals /\ ~Early(at, pc) /\ Depth = 1
  BY WhereAt DEF AtPlace
<1>2. Closing <=> q # "timer"
  BY <1>1 DEF Closing, At, Top
<1>3. at # "USR1" /\ at # "USR2" /\ at # "ALRM" /\ status # "boot"
  BY <1>1 DEF Signals, At
<1>4. pc # "dispatch"
  BY <1>3 DEF AtPlace, ControlOK, Places, Signals, Active
<1> QED
  BY <1>1, <1>2, <1>3, <1>4

\* The tick is counted.
LEMMA TimerAtPlace ==
  ASSUME NEW at, NEW pc, IInv, IInv', AtPlace(at, pc), CountTimer
  PROVE  AtPlace(at, pc)'
<1>1. /\ At("ALRM", "timer") /\ Return /\ run_time' = run_time - 1
      /\ UNCHANGED <<workload, forked, status, children, pending, loop, queues,
                     results, times>>
  BY DEF CountTimer
<1>2. at \notin Signals /\ ~Early(at, pc) /\ Depth = 1 /\ ~Closing
  BY <1>1, AtLate
<1>3. StackOK(at, pc)' /\ ~Closing'
  BY <1>1, <1>2, LateReturn
<1>4. CurIdx' = CurIdx /\ UNCHANGED <<child, c_cpu, mq>>
  BY <1>1 DEF CurIdx, queues, children
<1>5. ControlOK(at, pc)'
  BY <1>1, <1>2, <1>3, <1>4 DEF AtPlace, ControlOK, ChildrenOK, StatusOK, queues
<1>6. DataOK(at, pc)'
  <2>1. run_time' <= run_time
    BY <1>1 DEF IInv, TypeOK
  <2>2. Closing' = Closing
    BY <1>2, <1>3 DEF Closing
  <2> QED
    BY <1>1, <1>4, <2>1, <2>2, DataStays DEF AtPlace
<1> QED
  BY <1>5, <1>6 DEF AtPlace

\* What a shutdown step leaves in place, when the stage of the current process is
\* what it was or over.
LEMMA LateStage ==
  ASSUME NEW at, NEW pc, <<at, pc>> \in Places, Closing'
  PROVE  Stage(at, pc)' \in {Stage(at, pc), "over"}
<1>1. CASE at = "none"
  BY <1>1 DEF Stage
<1>2. CASE at # "none"
  <2>1. at \in {"pending", "child", "ALRM", "USR1", "USR2"}
    BY <1>2 DEF Places, Signals
  <2> QED
    BY <2>1 DEF Stage
<1> QED
  BY <1>1, <1>2

\* The time is up.
LEMMA ShutdownAtPlace ==
  ASSUME NEW at, NEW pc, IInv, IInv', AtPlace(at, pc), ShutdownStart
  PROVE  AtPlace(at, pc)'
<1>1. /\ At("ALRM", "timer") /\ Goto("rmid")
      /\ UNCHANGED <<workload, forked, status, children, pending, queues, run_time,
                     results, times>>
  BY DEF ShutdownStart
<1>2. at \notin Signals /\ ~Early(at, pc) /\ Depth = 1 /\ ~Closing /\ pc # "dispatch"
      /\ at # "USR2"
  BY <1>1, AtLate
<1>3. StackOK(at, pc)' /\ Closing'
  BY <1>1, <1>2, LateGoto
<1>4. CurIdx' = CurIdx /\ UNCHANGED <<child, c_cpu, mq>>
  BY <1>1 DEF CurIdx, queues, children
<1>5. ControlOK(at, pc)'
  BY <1>1, <1>2, <1>3, <1>4 DEF AtPlace, ControlOK, ChildrenOK, StatusOK, queues
<1>6. DataOK(at, pc)'
  <2>1. run_time' \in Int /\ run_time' <= run_time
    BY <1>1 DEF IInv, TypeOK
  <2>2. Stage(at, pc)' \in {Stage(at, pc), "over"}
    BY <1>3, LateStage DEF AtPlace, ControlOK
  <2> QED
    BY <1>1, <1>2, <1>3, <1>4, <2>1, <2>2, DataMoves DEF AtPlace
<1> QED
  BY <1>5, <1>6 DEF AtPlace

\* The message queue of a child is removed.
LEMMA RemoveAtPlace ==
  ASSUME NEW at, NEW pc, IInv, IInv', AtPlace(at, pc), RemoveStep
  PROVE  AtPlace(at, pc)'
<1>0. PICK q \in {"rmid", "kill"}, next \in {"rmid", "kill", "exit"} :
        At("ALRM", q) /\ Goto(next)
  BY DEF RemoveStep, CloseStep
<1>1. /\ mq' = mq \/ \E k : mq' = [mq EXCEPT ![k] = <<>>]
      /\ UNCHANGED <<workload, forked, status, child, c_cpu, pending, queues, run_time,
                     results, times>>
  BY DEF RemoveStep, CloseStep
<1>2. at \notin Signals /\ ~Early(at, pc) /\ Depth = 1 /\ Closing /\ at # "USR2"
  BY <1>0, AtLate
<1>3. StackOK(at, pc)' /\ Closing'
  BY <1>0, <1>2, LateGoto
<1>4. CurIdx' = CurIdx
  BY <1>1 DEF CurIdx, queues
<1>5. ControlOK(at, pc)'
  BY <1>1, <1>2, <1>3, <1>4 DEF AtPlace, ControlOK, ChildrenOK, StatusOK, queues
<1>6. run_time' \in Int /\ run_time' <= run_time /\ OnCpu(pc)' = OnCpu(pc)
  BY <1>1, <1>4 DEF IInv, TypeOK, OnCpu
<1>7. HomesOK(pc)' /\ FreshOK' /\ ReadyOK' /\ WaitOK' /\ OrderOK'
  BY <1>1, <1>6, SameHomes, SameOrder, OthersKept
     DEF AtPlace, DataOK, queues, times, workload
<1>8. CurOK(at, pc)'
  <2>1. Stage(at, pc)' \in {Stage(at, pc), "over"}
    BY <1>3, LateStage DEF AtPlace, ControlOK
  <2>2. CASE Stage(at, pc)' = "over"
    BY <2>2 DEF CurOK, CurPcb
  <2>3. CASE Stage(at, pc)' = Stage(at, pc)
    BY <1>1, <1>4, <2>3
       DEF AtPlace, DataOK, CurOK, CurPcb, Owes, Done, SliceIs, AtQuantum, queues, times,
           workload
  <2> QED
    BY <2>1, <2>2, <2>3
<1>9. MailOK(at, pc)'
  <2>1. \A p \in Procs : mq'[p] = mq[p] \/ mq'[p] = <<>>
    BY <1>1 DEF IInv, TypeOK
  <2>2. Mailed(at, pc)' <=> Mailed(at, pc)
    BY DEF Mailed
  <2> QED
    BY <1>1, <1>2, <1>3, <1>4, <2>1, <2>2 DEF AtPlace, DataOK, MailOK, workload
<1> QED
  BY <1>5, <1>7, <1>8, <1>9 DEF AtPlace, DataOK

\* A child is killed.  It may be the one that runs.
LEMMA KillAtPlace ==
  ASSUME NEW at, NEW pc, IInv, IInv', AtPlace(at, pc), KillStep
  PROVE  AtPlace(at, pc)' \/ AtPlace("none", "none")'
<1>0. PICK q \in {"rmid", "kill"}, next \in {"rmid", "kill", "exit"} :
        At("ALRM", q) /\ Goto(next)
  BY DEF KillStep, CloseStep
<1>1. PICK k : child' = [child EXCEPT ![k] = "dead"]
  BY DEF KillStep
<1>2. UNCHANGED <<workload, forked, status, c_cpu, mq, pending, queues, run_time, results,
                  times>>
  BY DEF KillStep, CloseStep
<1>3. /\ at \notin Signals /\ ~Early(at, pc) /\ Depth = 1 /\ Closing
      /\ at # "USR1" /\ at # "USR2" /\ at # "ALRM" /\ pc # "dispatch" /\ status # "boot"
  BY <1>0, AtLate
<1>4. "none" \notin Signals /\ ~Early("none", "none")
  BY DEF Signals, Early
<1>5. StackOK(at, pc)' /\ StackOK("none", "none")' /\ Closing'
  BY <1>0, <1>3, <1>4, LateGoto
<1>6. CurIdx' = CurIdx
  BY <1>2 DEF CurIdx, queues
<1>7. run_time' \in Int /\ run_time' <= run_time
  BY <1>2 DEF IInv, TypeOK
<1>8. \A p \in Procs : child'[p] = IF p = k THEN "dead" ELSE child[p]
  BY <1>1 DEF IInv, TypeOK
<1>9. CASE at = "child" /\ CurIdx = k
  <2>1. ChildrenOK("none", "none")'
    <3>1. \A p \in Procs : child'[p] \notin Active
      BY <1>8, <1>9 DEF AtPlace, ControlOK, ChildrenOK, Active
    <3> QED
      BY <1>4, <1>5, <3>1 DEF ChildrenOK
  <2>2. pending = {}
    BY <1>9 DEF AtPlace, ControlOK
  <2>3. ControlOK("none", "none")'
    BY <1>2, <1>3, <1>5, <2>1, <2>2 DEF AtPlace, ControlOK, StatusOK, Places
  <2>4. DataOK("none", "none")'
    <3>1. Stage("none", "none")' = "over"
      BY <1>5 DEF Stage
    <3>2. ~Mailed("none", "none")
      BY DEF Mailed
    <3> QED
      BY <1>2, <1>3, <1>5, <1>7, <3>1, <3>2, DataMoves DEF AtPlace
  <2> QED
    BY <2>3, <2>4 DEF AtPlace
<1>10. CASE ~(at = "child" /\ CurIdx = k)
  <2>1. ChildrenOK(at, pc)'
    <3>1. \A p \in Procs : child'[p] \in Active => child[p] \in Active
      BY <1>8 DEF Active
    <3>2. at = "child" => child'[CurIdx] = child[CurIdx]
      BY <1>8, <1>10, CurIdxType DEF AtPlace, ControlOK, ChildrenOK
    <3> QED
      BY <1>3, <1>5, <1>6, <3>1, <3>2 DEF AtPlace, ControlOK, ChildrenOK
  <2>2. ControlOK(at, pc)'
    BY <1>2, <1>3, <1>5, <2>1 DEF AtPlace, ControlOK, StatusOK
  <2>3. DataOK(at, pc)'
    <3>1. Stage(at, pc)' \in {Stage(at, pc), "over"}
      BY <1>5, LateStage DEF AtPlace, ControlOK
    <3> QED
      BY <1>2, <1>3, <1>5, <1>7, <3>1, DataMoves DEF AtPlace
  <2> QED
    BY <2>2, <2>3 DEF AtPlace
<1> QED
  BY <1>9, <1>10

-----------------------------------------------------------------------------
(* The inductive invariant of ticks in time *)

LEMMA InitTimeInv ==
  ASSUME Init
  PROVE  TimeInv
<1>1. IInv
  BY InitIInv
<1>2. /\ Depth = 0 /\ CurIdx = -1 /\ readyq = <<>> /\ waitq = <<>> /\ forked = 0
      /\ pending = {} /\ status = "boot" /\ counter = 0
      /\ child = [p \in Procs |-> "none"] /\ mq = [p \in Procs |-> <<>>]
      /\ c_cpu = cpu_burst /\ service_time = [p \in Procs |-> 0]
      /\ arrival_time = [p \in Procs |-> 0] /\ run_time = RUN_TIME
      /\ cpu_burst \in [Procs -> 1..MaxLimit]
  BY NullAssumption DEF Init, Depth, CurIdx, Idle, Pcb
<1>3. ControlOK("none", "none")
  BY <1>2 DEF ControlOK, Places, StackOK, ChildrenOK, StatusOK, Early, Signals, Active
<1>4. HomesOK("none") /\ ReadyOK /\ WaitOK
  <2>1. Elements(readyq) = {} /\ Elements(waitq) = {}
    BY <1>2 DEF Elements
  <2>2. 0..(0 - 1) = {} /\ Idxs(readyq) = {} /\ Idxs(waitq) = {} /\ OnCpu("none") = {}
    BY <1>2, <2>1 DEF Idxs, OnCpu
  <2>3. DistinctIdx(readyq) /\ DistinctIdx(waitq)
    BY <1>2 DEF DistinctIdx
  <2> QED
    BY <1>2, <2>1, <2>2, <2>3 DEF HomesOK, ReadyOK, WaitOK
<1>5. FreshOK
  BY <1>2, SchedulerAssumption DEF FreshOK, Owes
<1>6. CurOK("none", "none") /\ MailOK("none", "none")
  BY <1>2 DEF CurOK, MailOK, Mailed
<1>7. OrderOK
  BY <1>2, SchedulerAssumption DEF OrderOK, Now, HeapOrdered, ByArrival
<1>8. <<"none", "none">> \in Places
  BY DEF Places
<1>9. AtPlace("none", "none")
  BY <1>3, <1>4, <1>5, <1>6, <1>7 DEF AtPlace, DataOK
<1> QED
  BY <1>1, <1>8, <1>9 DEF TimeInv

\* A step leads from a place to a place.
LEMMA NextPlace ==
  ASSUME NEW at, NEW pc, InTime, IInv, IInv', AtPlace(at, pc), [Next]_vars
  PROVE  \E at2, pc2 : AtPlace(at2, pc2)'
<1>1. CASE Tick
  BY <1>1, TickAtPlace
<1>2. ASSUME NEW p \in Procs, ChildStep(p) PROVE \E at2, pc2 : AtPlace(at2, pc2)'
  BY <1>2, StopAtPlace, BurstAtPlace, SendAtPlace, NotifyAtPlace DEF ChildStep
<1>3. CASE Fork \/ StartTimer
  BY <1>3, ForkAtPlace, StartAtPlace
<1>4. CASE ForkFails \/ Segfault \/ ShutdownExit
  <2>1. /\ status' \in {"failed", "exited", "crashed"}
        /\ UNCHANGED <<workload, forked, children, pending, frames, loop, queues,
                       run_time, results, times>>
    BY <1>4 DEF ForkFails, Segfault, ShutdownExit
  <2> QED
    BY <2>1, StatusAtPlace
<1>5. CASE \E sig \in Signals : Deliver(sig)
  BY <1>5, DeliverAtPlace
<1>6. CASE IoInterrupted
  <2>1. at = "USR2" /\ pc = "eintr"
    BY <1>6, WhereAt DEF IoInterrupted, AtPlace
  <2> QED
    BY <2>1 DEF AtPlace, ControlOK, Places, Signals
<1>7. CASE IoReceive \/ IoSleep
  BY <1>7, ReceiveAtPlace, SleepAtPlace
<1>8. CASE IoRequeue \/ IoDispatch
  BY <1>8, IoRequeueAtPlace, IoDispatchAtPlace
<1>9. CASE BurstStep \/ BurstRequeue \/ BurstDispatch
  BY <1>9, StepAtPlace, BurstRequeueAtPlace, BurstDispatchAtPlace
<1>10. CASE CountAccount \/ CountIo \/ CountIoDone \/ CountCont \/ CountTimer
  BY <1>10, AccountAtPlace, IoAtPlace, IoDoneAtPlace, ContAtPlace, TimerAtPlace
<1>11. CASE ShutdownStart \/ ShutdownRmid \/ ShutdownKill
  <2>1. loop \in Nat
    BY DEF IInv, TypeOK
  <2> QED
    BY <1>11, <2>1, ShutdownCloses, ShutdownAtPlace, RemoveAtPlace, KillAtPlace
<1>12. CASE UNCHANGED vars
  <2>1. Closing' = Closing /\ StackOK(at, pc)' /\ CurIdx' = CurIdx
    BY <1>12 DEF vars, Closing, StackOK, Depth, CurIdx, queues, AtPlace, ControlOK
  <2>2. ControlOK(at, pc)'
    BY <1>12, <2>1 DEF vars, AtPlace, ControlOK, ChildrenOK, StatusOK, children, queues
  <2>3. run_time' <= run_time
    BY <1>12 DEF vars, IInv, TypeOK
  <2>4. DataOK(at, pc)'
    BY <1>12, <2>1, <2>3, DataStays DEF vars, AtPlace, children
  <2> QED
    BY <2>2, <2>4 DEF AtPlace
<1> QED
  BY <1>1, <1>2, <1>3, <1>4, <1>5, <1>6, <1>7, <1>8, <1>9, <1>10, <1>11, <1>12
     DEF Next, ParentStep, HandlerStep

LEMMA NextTimeInv ==
  ASSUME InTime, TimeInv, [Next]_vars
  PROVE  TimeInv'
<1>1. IInv /\ IInv'
  BY NextIInv DEF TimeInv
<1>2. PICK place \in Places : AtPlace(place[1], place[2])
  BY DEF TimeInv
<1>3. PICK at, pc : AtPlace(at, pc)'
  BY <1>1, <1>2, NextPlace
<1>4. <<at, pc>> \in Places
  BY <1>3 DEF AtPlace, ControlOK, Places
<1> QED
  BY <1>1, <1>3, <1>4 DEF TimeInv

\* Nor does the order matter in which a shutdown removes queues and kills children.
LEMMA CloseTimeInv ==
  ASSUME TimeInv, RemoveStep \/ KillStep
  PROVE  TimeInv'
<1>1. IInv /\ IInv'
  BY CloseIInv DEF TimeInv
<1>2. PICK place \in Places : AtPlace(place[1], place[2])
  BY DEF TimeInv
<1>3. PICK at, pc : AtPlace(at, pc)'
  BY <1>1, <1>2, RemoveAtPlace, KillAtPlace
<1>4. <<at, pc>> \in Places
  BY <1>3 DEF AtPlace, ControlOK, Places
<1> QED
  BY <1>1, <1>3, <1>4 DEF TimeInv

-----------------------------------------------------------------------------
(* The theorems of ticks in time *)

\* A put and a take are in progress at the dispatch of the handler where the work
\* is, and nowhere else.
LEMMA DispatchPlace ==
  ASSUME NEW at, NEW pc, IInv, AtPlace(at, pc)
  PROVE  /\ InHandler("dispatch") <=> pc = "dispatch"
         /\ InHandler("asleep") => at = "USR2" /\ pc = "asleep"
<1>1. Depth \in Nat
  BY FrameType DEF IInv, TypeOK, FramesOK
<1>2. \A f \in LateFrames : f.pc # "dispatch" /\ f.pc # "asleep"
  BY DEF LateFrames
<1>3. CASE at \in Signals
  <2>1. /\ Depth \in {1, 2} /\ frames[Depth] = [sig |-> at, pc |-> pc]
        /\ Depth = 2 => frames[1] \in LateFrames
    BY <1>3 DEF AtPlace, ControlOK, StackOK
  <2>2. Depth \in 1..Depth /\ frames[Depth].pc = pc
    BY <1>1, <2>1
  <2>3. \A i \in 1..Depth : i = Depth \/ frames[i] \in LateFrames
    BY <2>1
  <2>4. pc = "asleep" => at = "USR2"
    BY DEF AtPlace, ControlOK, Places, Signals, Active
  <2> QED
    BY <1>2, <2>2, <2>3, <2>4 DEF InHandler
<1>4. CASE at \notin Signals
  <2>1. \A i \in 1..Depth : frames[i] \in LateFrames
    BY <1>4 DEF AtPlace, ControlOK, StackOK
  <2>2. pc # "dispatch" /\ pc # "asleep"
    BY <1>4 DEF AtPlace, ControlOK, Places, Signals, Active
  <2> QED
    BY <1>2, <2>1, <2>2 DEF InHandler
<1> QED
  BY <1>3, <1>4

\* Where a process is in a queue that has each once.
LEMMA OnePosition ==
  ASSUME NEW q \in Seq(Pcb), DistinctIdx(q), NEW p
  PROVE  /\ p \notin Idxs(q) => {j \in DOMAIN q : q[j].idx = p} = {}
         /\ p \in Idxs(q) => \E k : {j \in DOMAIN q : q[j].idx = p} = {k}
<1>1. DOMAIN q = 1..Len(q) /\ Idxs(q) = {q[i].idx : i \in 1..Len(q)}
  BY LenProperties DEF Idxs, Elements
<1>2. ASSUME p \in Idxs(q) PROVE \E k : {j \in DOMAIN q : q[j].idx = p} = {k}
  <2>1. PICK k \in 1..Len(q) : q[k].idx = p
    BY <1>1, <1>2
  <2>2. \A j \in 1..Len(q) : q[j].idx = p => j = k
    BY <2>1 DEF DistinctIdx
  <2> QED
    BY <1>1, <2>1, <2>2
<1>3. ASSUME p \notin Idxs(q) PROVE {j \in DOMAIN q : q[j].idx = p} = {}
  BY <1>1, <1>3
<1> QED
  BY <1>2, <1>3

\* The invariant of ticks in time.
THEOREM InTimeInvariance ==
  ASSUME InTime
  PROVE  Spec => []TimeInv
<1>1. Init => TimeInv
  BY InitTimeInv
<1>2. TimeInv /\ [Next]_vars => TimeInv'
  BY NextTimeInv
<1> QED
  BY <1>1, <1>2, PTL DEF Spec

LEMMA HomeIsOne ==
  ASSUME TimeInv
  PROVE  OneHome
<1> SUFFICES ASSUME NEW p \in Procs
             PROVE  Cardinality(Homes(p)) = IF p < forked THEN 1 ELSE 0
  BY DEF OneHome
<1>1. PICK at, pc : AtPlace(at, pc)
  BY DEF TimeInv
<1>2. IInv /\ HomesOK(pc)
  BY <1>1 DEF TimeInv, AtPlace, DataOK
<1>3. readyq \in Seq(Pcb) /\ waitq \in Seq(Pcb) /\ forked \in Nat /\ p \in Nat /\ p # -1
  BY <1>2, SchedulerAssumption DEF IInv, TypeOK, Procs
<1>4. PICK ready : ready = {j \in DOMAIN readyq : readyq[j].idx = p}
  OBVIOUS
<1>5. PICK wait : wait = {j \in DOMAIN waitq : waitq[j].idx = p}
  OBVIOUS
<1>6. PICK cpu : cpu = IF p \in OnCpu(pc) THEN {<<"cpu", 0>>} ELSE {}
  OBVIOUS
<1>7. Homes(p) = {<<"ready", i>> : i \in ready} \cup {<<"wait", i>> : i \in wait} \cup cpu
  <2>1. p \in OnCpu(pc) <=> CurIdx = p /\ ~InHandler("dispatch")
    BY <1>1, <1>2, <1>3, DispatchPlace DEF OnCpu
  <2> QED
    BY <1>4, <1>5, <1>6, <2>1 DEF Homes
<1>8. /\ p \notin Idxs(readyq) => ready = {}
      /\ p \in Idxs(readyq) => \E k : ready = {k}
      /\ p \notin Idxs(waitq) => wait = {}
      /\ p \in Idxs(waitq) => \E k : wait = {k}
  BY <1>2, <1>3, <1>4, <1>5, OnePosition DEF HomesOK
<1>9. CASE p \in Idxs(readyq)
  <2>1. p \notin Idxs(waitq) /\ p \notin OnCpu(pc) /\ p < forked
    BY <1>2, <1>3, <1>9 DEF HomesOK
  <2>2. \E k : Homes(p) = {<<"ready", k>>}
    BY <1>6, <1>7, <1>8, <1>9, <2>1
  <2> QED
    BY <2>1, <2>2, FS_Singleton
<1>10. CASE p \in Idxs(waitq)
  <2>1. p \notin Idxs(readyq) /\ p \notin OnCpu(pc) /\ p < forked
    BY <1>2, <1>3, <1>10 DEF HomesOK
  <2>2. \E k : Homes(p) = {<<"wait", k>>}
    BY <1>6, <1>7, <1>8, <1>10, <2>1
  <2> QED
    BY <2>1, <2>2, FS_Singleton
<1>11. CASE p \notin Idxs(readyq) /\ p \notin Idxs(waitq)
  <2>1. Homes(p) = cpu
    BY <1>7, <1>8, <1>11
  <2>2. p \in OnCpu(pc) <=> p < forked
    BY <1>2, <1>3, <1>11 DEF HomesOK
  <2>3. CASE p \in OnCpu(pc)
    BY <1>6, <2>1, <2>2, <2>3, FS_Singleton
  <2>4. CASE p \notin OnCpu(pc)
    BY <1>6, <2>1, <2>2, <2>4, FS_EmptySet
  <2> QED
    BY <2>3, <2>4
<1> QED
  BY <1>9, <1>10, <1>11

\* No PCB is lost or duplicated, for any number of processes: at every moment each
\* process that has been created is in one place (main.c, u_signal.c).
THEOREM EachHasOneHome ==
  ASSUME InTime
  PROVE  Spec => []OneHome
BY InTimeInvariance, HomeIsOne, PTL

\* Between ticks nothing is going on.
LEMMA QuietPlace ==
  ASSUME TimeInv, Quiescent
  PROVE  AtPlace("none", "none") /\ ~Closing
<1>1. PICK at, pc : AtPlace(at, pc)
  BY DEF TimeInv
<1>2. /\ Depth = 0 /\ ~Closing /\ pending = {}
      /\ \A p \in Procs : child[p] \in {"stopped", "dead"}
  BY DEF Quiescent, Depth, Closing
<1>3. at \notin Signals /\ at # "pending"
  BY <1>1, <1>2 DEF AtPlace, ControlOK, StackOK
<1>4. at # "child"
  <2> SUFFICES ASSUME at = "child" PROVE FALSE
    OBVIOUS
  <2>1. CurIdx \in Procs /\ child[CurIdx] = pc
    BY <1>1, CurIdxType DEF AtPlace, ControlOK, ChildrenOK, TimeInv
  <2>2. pc \in Active
    BY <1>1 DEF AtPlace, ControlOK, Places, Signals
  <2> QED
    BY <1>2, <2>1, <2>2 DEF Active
<1>5. at = "none" /\ pc = "none"
  BY <1>1, <1>3, <1>4 DEF AtPlace, ControlOK, Places, Signals
<1> QED
  BY <1>1, <1>2, <1>5

LEMMA CountsAgree ==
  ASSUME TimeInv
  PROVE  BurstsAgree
<1> DEFINE waiting(p) == \E i \in DOMAIN waitq : waitq[i].idx = p
<1> SUFFICES ASSUME status = "running", Quiescent, NEW p \in Procs
             PROVE  /\ PcbOf(p).cpu_burst = c_cpu[p]
                    /\ service_time[p] + c_cpu[p] =
                         (IF waiting(p) THEN 2 ELSE 1) * cpu_burst[p]
  BY DEF BurstsAgree
<1>1. AtPlace("none", "none") /\ IInv /\ Stage("none", "none") = "before"
  BY QuietPlace, Stages DEF TimeInv
<1>2. HomesOK("none") /\ ReadyOK /\ WaitOK /\ CurOK("none", "none") /\ forked = MAX_PROCESS
  BY <1>1 DEF AtPlace, ControlOK, StatusOK, DataOK
<1>3. p \in Idxs(readyq) \cup Idxs(waitq) \cup OnCpu("none")
  BY <1>2 DEF HomesOK, Procs
<1>4. waiting(p) <=> p \in Idxs(waitq)
  BY DEF Idxs, Elements
<1>5. /\ service_time[p] \in Int /\ c_cpu[p] \in Int /\ cpu_burst[p] \in Int
      /\ p \in OnCpu("none") <=> p = CurIdx
  <2>1. p # -1
    BY <1>1, CurIdxType
  <2>2. p \in OnCpu("none") <=> p = CurIdx
    BY <2>1 DEF OnCpu
  <2> QED
    BY <1>1, <2>2, SchedulerAssumption DEF IInv, TypeOK
<1> HIDE DEF waiting
<1>6. CASE p = CurIdx
  <2>1. ~waiting(p)
    BY <1>2, <1>4, <1>5, <1>6 DEF HomesOK
  <2>2. PcbOf(p).cpu_burst = c_cpu[p] /\ Owes(p, 0)
    BY <1>1, <1>2, <1>6, CurIdxType DEF CurOK, CurPcb, PcbOf
  <2> QED
    BY <1>5, <2>1, <2>2 DEF Owes
<1>7. CASE p # CurIdx
  <2>1. \E pcb \in Elements(readyq) \cup Elements(waitq) : pcb.idx = p
    BY <1>3, <1>5, <1>7 DEF Idxs
  <2>2. PICK pcb : pcb = PcbOf(p)
    OBVIOUS
  <2>3. pcb \in Elements(readyq) \cup Elements(waitq) /\ pcb.idx = p
    BY <1>7, <2>1, <2>2 DEF PcbOf
  <2>4. CASE pcb \in Elements(readyq)
    <3>1. ~waiting(p)
      BY <1>2, <1>4, <2>3, <2>4 DEF HomesOK, Idxs
    <3>2. ReadyPcb(pcb)
      BY <1>2, <2>4 DEF ReadyOK
    <3> QED
      BY <1>5, <2>2, <2>3, <3>1, <3>2 DEF ReadyPcb, Owes
  <2>5. CASE pcb \in Elements(waitq)
    <3>1. waiting(p)
      BY <1>4, <2>3, <2>5 DEF Idxs
    <3>2. WaitPcb(pcb)
      BY <1>2, <2>5 DEF WaitOK
    <3> QED
      BY <1>5, <2>2, <2>3, <3>1, <3>2 DEF WaitPcb, Done
  <2> QED
    BY <2>3, <2>4, <2>5
<1> QED
  BY <1>6, <1>7

\* Parent and child, told only by signals and messages, agree on every burst
\* whenever nothing is going on, for bursts of any length (main.c, u_signal.c).
THEOREM BurstsAlwaysAgree ==
  ASSUME InTime
  PROVE  Spec => []BurstsAgree
BY InTimeInvariance, CountsAgree, PTL

LEMMA OneCpu ==
  ASSUME TimeInv
  PROVE  CpuKept
<1>1. PICK at, pc : AtPlace(at, pc)
  BY DEF TimeInv
<1>2. OnlyCurrentRuns
  BY <1>1 DEF OnlyCurrentRuns, AtPlace, ControlOK, ChildrenOK, Active
<1>3. SliceFromDispatch
  <2> SUFFICES ASSUME Quiescent, CurIdx # -1, set_scheduler = RR
               PROVE  counter = service_time[CurIdx] % TIME_QUANTUM
    BY DEF SliceFromDispatch
  <2>1. SliceIs(CurIdx, 0)
    BY QuietPlace, Stages DEF AtPlace, DataOK, CurOK, CurPcb
  <2>2. service_time[CurIdx] \in Int
    BY CurIdxType DEF TimeInv, IInv, TypeOK
  <2>3. service_time[CurIdx] - 0 = service_time[CurIdx]
    BY <2>2
  <2> QED
    BY <2>1, <2>3 DEF SliceIs
<1>4. SleepOnlyInShutdown
  <2> SUFFICES ASSUME InHandler("asleep")
               PROVE  \E q \in {"rmid", "kill", "exit"} : InHandler(q)
    BY DEF SleepOnlyInShutdown
  <2>1. Closing
    BY <1>1, DispatchPlace DEF TimeInv, AtPlace, DataOK, MailOK
  <2>2. Depth \in Nat
    BY FrameType DEF TimeInv, IInv, TypeOK, FramesOK
  <2>3. 1 \in 1..Depth /\ frames[1].pc \in {"rmid", "kill", "exit"}
    BY <2>1, <2>2 DEF Closing
  <2> QED
    BY <2>3 DEF InHandler
<1> QED
  BY <1>2, <1>3, <1>4 DEF CpuKept

\* Two children never run together, the slice of RR lasts since the dispatch, and
\* the parent waits for a message in the shutdown alone (u_signal.c).
THEOREM CpuIsKept ==
  ASSUME InTime
  PROVE  Spec => []CpuKept
BY InTimeInvariance, OneCpu, PTL

LEMMA WaitIsBounded ==
  ASSUME TimeInv
  PROVE  WaitersReturn
<1> SUFFICES ASSUME NEW i \in DOMAIN waitq
             PROVE  waitq[i].idx # -1 /\ waitq[i].io_burst \in 1..io_burst[waitq[i].idx]
  BY DEF WaitersReturn
<1>1. PICK at, pc : AtPlace(at, pc)
  BY DEF TimeInv
<1>2. IInv /\ HomesOK(pc) /\ WaitOK
  BY <1>1 DEF TimeInv, AtPlace, DataOK
<1>3. waitq[i] \in Elements(waitq) /\ waitq[i].idx \in Idxs(waitq)
  BY DEF Elements, Idxs
<1>4. waitq[i].idx \in Procs
  BY <1>2, <1>3, HomeTypes
<1> QED
  BY <1>2, <1>3, <1>4, CurIdxType DEF WaitOK, WaitPcb

\* The countdown of the i/o, tested for zero only, does not run past it
\* (u_signal.c, the loop of signal_count).
THEOREM WaitersAlwaysReturn ==
  ASSUME InTime
  PROVE  Spec => []WaitersReturn
BY InTimeInvariance, WaitIsBounded, PTL

-----------------------------------------------------------------------------
(* Action properties *)

\* The current process changes in a dispatch, or when main starts.
LEMMA CurIdxMoves ==
  ASSUME NEW at, NEW pc, IInv, AtPlace(at, pc), [Next]_vars, CurIdx' # CurIdx
  PROVE  /\ cur_ready' = FirstReady(readyq) /\ readyq' = RestReady(readyq)
         /\ \/ CurIdx = -1
            \/ at = "USR2" /\ pc = "dispatch"
            \/ at = "USR1" /\ pc = "dispatch"
<1>1. cur_ready' # cur_ready
  BY DEF CurIdx
<1>2. CASE StartTimer
  <2>1. status = "boot" /\ cur_ready' = FirstReady(readyq) /\ readyq' = RestReady(readyq)
    BY <1>2 DEF StartTimer
  <2> QED
    BY <2>1 DEF AtPlace, ControlOK, StatusOK
<1>3. CASE IoDispatch
  BY <1>3, WhereAt DEF IoDispatch, AtPlace
<1>4. CASE BurstDispatch
  BY <1>4, WhereAt DEF BurstDispatch, AtPlace
<1>5. ~IoReceive
  <2> SUFFICES ASSUME IoReceive PROVE FALSE
    OBVIOUS
  <2>1. cur_ready # NULL /\ cur_ready' = Received(cur_ready, Head(Inbox))
    BY DEF IoReceive
  <2>2. PICK msg : msg = Head(Inbox)
    OBVIOUS
  <2>3. cur_ready \in Pcb
    BY <2>1 DEF IInv, TypeOK
  <2>4. cur_ready' =
          [cur_ready EXCEPT !.cpu_burst = msg.cpu_time, !.io_burst = msg.io_time]
    BY <2>1, <2>2 DEF Received
  <2>5. cur_ready'.idx = cur_ready.idx
    BY <2>3, <2>4 DEF Pcb
  <2>6. CurIdx = cur_ready.idx
    BY <2>1 DEF CurIdx
  <2>7. CurIdx' = -1
    BY <2>5, <2>6 DEF CurIdx
  <2>8. cur_ready' = NULL
    BY <2>5, <2>6, <2>7 DEF CurIdx
  <2>9. CurIdx # -1
    BY <2>7
  <2>10. at = "USR2"
    BY WhereAt DEF IoReceive, AtPlace
  <2>11. mq[CurIdx] = <<[cpu_time |-> cpu_burst[CurIdx], io_time |-> io_burst[CurIdx]]>>
    BY <2>6, <2>9, CurIdxType DEF IoReceive, Inbox, AtPlace, DataOK, MailOK
  <2>12. msg.cpu_time \in Int /\ msg.io_time \in Int
    BY <2>2, <2>6, <2>9, <2>11, CurIdxType, SchedulerAssumption DEF Inbox, IInv, TypeOK
  <2>13. cur_ready' \in Pcb
    BY <2>3, <2>4, <2>12 DEF Pcb
  <2> QED
    BY <2>8, <2>13, NullAssumption
<1>6. ~BurstStep
  <2> SUFFICES ASSUME BurstStep PROVE FALSE
    OBVIOUS
  <2>1. cur_ready \in Pcb /\ cur_ready' = [cur_ready EXCEPT !.cpu_burst = @ - 1]
        /\ cur_ready # NULL
    BY DEF BurstStep, IInv, TypeOK
  <2>2. cur_ready' \in Pcb /\ cur_ready'.idx = cur_ready.idx
    BY <2>1, CountedDown DEF Pcb
  <2> QED
    BY <2>1, <2>2, NullAssumption DEF CurIdx
<1> QED
  BY <1>1, <1>2, <1>3, <1>4, <1>5, <1>6
     DEF Next, ParentStep, HandlerStep, ChildStep, vars, queues, Tick, Fork, ForkFails,
         Deliver, Segfault, IoSleep, IoInterrupted, IoRequeue, BurstRequeue, CountAccount,
         CountIo, CountIoDone, CountCont, CountTimer, ShutdownStart, ShutdownRmid,
         ShutdownKill, ShutdownExit, ChildStop, ChildBurst, ChildSend, ChildNotify

\* A process is preempted at the end of its burst, or under RR of its quantum,
\* never before (signal_fcfs, signal_sjf, signal_rr, signal_io).
THEOREM NeverPreemptedEarly ==
  ASSUME InTime
  PROVE  Spec => NoEarlyPreemption
<1>1. ASSUME TimeInv, [Next]_vars, CurIdx # -1, CurIdx' # CurIdx
      PROVE  \/ service_time[CurIdx] = cpu_burst[CurIdx]
             \/ set_scheduler = RR /\ service_time[CurIdx] % TIME_QUANTUM = 0
  <2>1. PICK at, pc : AtPlace(at, pc)
    BY <1>1 DEF TimeInv
  <2>2. at \in {"USR1", "USR2"} /\ pc = "dispatch" /\ CurPcb(Stage(at, pc))
    BY <1>1, <2>1, CurIdxMoves DEF TimeInv, AtPlace, DataOK, CurOK
  <2> QED
    BY <2>2, Stages DEF CurPcb, Done, AtQuantum
<1>2. TimeInv /\ [Next]_vars =>
        [ CurIdx # -1 /\ CurIdx' # CurIdx =>
            \/ service_time[CurIdx] = cpu_burst[CurIdx]
            \/ set_scheduler = RR /\ service_time[CurIdx] % TIME_QUANTUM = 0 ]_vars
  BY <1>1
<1> QED
  BY <1>2, InTimeInvariance, PTL DEF Spec, NoEarlyPreemption

\* Whom the ready queue gives, among those it keeps.
THEOREM DispatchIsInOrder ==
  ASSUME InTime
  PROVE  Spec => DispatchOrder
<1>1. ASSUME TimeInv, [Next]_vars, CurIdx' # CurIdx, CurIdx' # -1,
             NEW i \in DOMAIN readyq', NEW other, other = readyq'[i].idx
      PROVE  /\ set_scheduler = FCFS => arrival_time[CurIdx'] <= arrival_time[other]
             /\ set_scheduler = SJF => c_cpu[CurIdx'] <= c_cpu[other]
  <2>1. PICK at, pc : AtPlace(at, pc)
    BY <1>1 DEF TimeInv
  <2>2. PICK first : first = FirstReady(readyq)
    OBVIOUS
  <2>3. cur_ready' = first /\ readyq' = RestReady(readyq) /\ IInv
    BY <1>1, <2>1, <2>2, CurIdxMoves DEF TimeInv
  <2>4. HomesOK(pc) /\ ReadyOK /\ OrderOK
    BY <2>1 DEF AtPlace, DataOK
  <2>5. /\ readyq \in Seq(Pcb) /\ DistinctIdx(readyq) /\ Idxs(readyq) \subseteq Procs
    BY <2>3, <2>4, HomeTypes DEF HomesOK
  <2>6. readyq # <<>>
    BY <1>1, <2>2, <2>3 DEF FirstReady, CurIdx, Idle
  <2>7. first \in Elements(readyq) /\ Elements(readyq') = Elements(readyq) \ {first}
    BY <2>2, <2>3, <2>5, <2>6, TakeRemoves
  <2>8. CurIdx' = first.idx
    BY <1>1, <2>3 DEF CurIdx
  <2>9. PICK e : e = readyq'[i]
    OBVIOUS
  <2>10. e \in Elements(readyq) /\ other = e.idx
    BY <1>1, <2>7, <2>9 DEF Elements
  <2>11. set_scheduler = FCFS => arrival_time[first.idx] <= arrival_time[e.idx]
    BY <2>2, <2>3, <2>4, <2>5, <2>6, <2>10, TakeEarliest DEF OrderOK
  <2>12. set_scheduler = SJF => first.cpu_burst <= e.cpu_burst
    BY <2>2, <2>4, <2>5, <2>6, <2>10, TakeSmallest DEF OrderOK
  <2>13. first.cpu_burst = c_cpu[first.idx] /\ e.cpu_burst = c_cpu[e.idx]
    BY <2>4, <2>7, <2>10 DEF ReadyOK, ReadyPcb
  <2> QED
    BY <2>8, <2>10, <2>11, <2>12, <2>13
<1>2. TimeInv /\ [Next]_vars =>
        [ CurIdx' # CurIdx /\ CurIdx' # -1 =>
            \A i \in DOMAIN readyq' :
              LET other == readyq'[i].idx
              IN  /\ set_scheduler = FCFS => arrival_time[CurIdx'] <= arrival_time[other]
                  /\ set_scheduler = SJF => c_cpu[CurIdx'] <= c_cpu[other] ]_vars
  BY <1>1
<1> QED
  BY <1>2, InTimeInvariance, PTL DEF Spec, DispatchOrder

\* A burst that is accounted for has been charged in full, for bursts of any
\* length and whatever interrupts signal_count (u_signal.c).
THEOREM ChargedInFull ==
  ASSUME InTime
  PROVE  Spec => BurstChargedInFull
<1>1. ASSUME TimeInv, [Next]_vars, proc_count' = proc_count + 1
      PROVE  /\ service_time'[CurIdx] = cpu_burst[CurIdx]
             /\ (wait_time' - wait_time) - (turnaround_time' - turnaround_time)
                  = cpu_burst[CurIdx]
  <2>1. IInv /\ proc_count \in Nat /\ proc_count' # proc_count
    BY <1>1 DEF TimeInv, IInv, TypeOK
  <2>2. CountAccount
    BY <1>1, <2>1
       DEF Next, ParentStep, HandlerStep, ChildStep, vars, results, StartTimer, Tick, Fork,
           ForkFails, Deliver, Segfault, IoReceive, IoSleep, IoInterrupted, IoRequeue,
           IoDispatch, BurstStep, BurstRequeue, BurstDispatch, CountIo, CountIoDone,
           CountCont, CountTimer, ShutdownStart, ShutdownRmid, ShutdownKill, ShutdownExit,
           ChildStop, ChildBurst, ChildSend, ChildNotify
  <2>3. PICK at, pc : AtPlace(at, pc)
    BY <1>1 DEF TimeInv
  <2>4. at = "ALRM" /\ pc = "account"
    BY <2>1, <2>2, <2>3, WhereAt DEF CountAccount, AtPlace
  <2>5. PICK p : p = CurIdx
    OBVIOUS
  <2>6. cur_ready # NULL /\ cur_ready.idx = p /\ p # -1
    BY <2>1, <2>2, <2>5 DEF CountAccount, results, CurIdx
  <2>7. PICK served : served = service_time[p] + 1
    OBVIOUS
  <2>8. /\ service_time' = [service_time EXCEPT ![p] = served]
        /\ cur_ready.cpu_burst = 1
        /\ wait_time' = wait_time + (Now - arrival_time[p])
        /\ turnaround_time' = turnaround_time + (Now - served - arrival_time[p])
    BY <2>1, <2>2, <2>6, <2>7 DEF CountAccount, results
  <2>9. p \in Procs
    BY <2>1, <2>5, <2>6, CurIdxType
  <2>10. c_cpu[p] = 1 /\ service_time[p] + c_cpu[p] = cpu_burst[p] + 0
    BY <2>1, <2>3, <2>4, <2>5, <2>6, <2>8, AtCount, Stages DEF CurPcb, Owes
  <2>11. /\ service_time[p] \in Int /\ cpu_burst[p] \in Int /\ arrival_time[p] \in Int
         /\ wait_time \in Int /\ turnaround_time \in Int /\ Now \in Int
         /\ service_time'[p] = served
    BY <2>1, <2>8, <2>9, SchedulerAssumption DEF IInv, TypeOK, Now
  <2>12. served = cpu_burst[p]
    BY <2>7, <2>10, <2>11
  <2> QED
    BY <2>5, <2>8, <2>11, <2>12
<1>2. TimeInv /\ [Next]_vars =>
        [ proc_count' = proc_count + 1 =>
            /\ service_time'[CurIdx] = cpu_burst[CurIdx]
            /\ (wait_time' - wait_time) - (turnaround_time' - turnaround_time)
                 = cpu_burst[CurIdx] ]_vars
  BY <1>1
<1> QED
  BY <1>2, InTimeInvariance, PTL DEF Spec, BurstChargedInFull
=============================================================================
