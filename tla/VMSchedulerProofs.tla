------------------------- MODULE VMSchedulerProofs -------------------------
(***************************************************************************)
(* Proofs about VMScheduler, for any number of processes, any bursts and   *)
(* the three algorithms.                                                   *)
(*                                                                         *)
(* First, with ticks at any time: each step is one of four moves of the    *)
(* loop of signal_count, and none takes it past the wait queue.            *)
(*                                                                         *)
(* Then, with ticks in time.  Bar is the stack of handlers without the     *)
(* memory calls, on which SchedulerProofs can be instantiated: a step here *)
(* is one of Scheduler, a memory call, which Bar does not show, or one of  *)
(* the loops of the shutdown.  So the work of a tick is at one place, and  *)
(* the addresses of its unit can be followed: sent, taken, performed.      *)
(***************************************************************************)
EXTENDS MCVMScheduler, SequenceTheorems, TLAPS

USE DEF workload, children, queues, results, times

-----------------------------------------------------------------------------
(* The stack of handlers, with ticks at any time *)

MemoryPoints == {"memory", "memory_asleep", "mmu"}

VHandlerPoints ==
  HandlerPoints
  \cup [sig : {"USR1", "USR2"}, pc : MemoryPoints]
  \cup [sig : {"USR1"}, pc : {"eintr"}]
  \cup [sig : {"ALRM"}, pc : {"rmid_memory"}]

\* A signal has at most one handler in progress.
OneFrameEach ==
  \A i, j \in 1..Depth : frames[i].sig = frames[j].sig => i = j

VFramesOK == frames \in Seq(VHandlerPoints) /\ OneFrameEach

\* A frame is a record of VHandlerPoints; only a signal_count is at its loop.
LEMMA VFrameType ==
  ASSUME VFramesOK
  PROVE  /\ Depth \in Nat
         /\ \A i \in 1..Depth : frames[i] \in VHandlerPoints
         /\ Depth > 0 => Depth \in 1..Depth
BY DEF VFramesOK, Depth

LEMMA VFrameFields ==
  ASSUME NEW f \in VHandlerPoints
  PROVE  /\ f = [sig |-> f.sig, pc |-> f.pc] /\ f.sig \in Signals
         /\ f.pc = "iowait" => f.sig = "ALRM"
<1>1. f = [sig |-> f.sig, pc |-> f.pc] /\ f.sig \in Signals
  BY DEF VHandlerPoints, HandlerPoints, MemoryPoints, Signals
<1>2. f.pc = "iowait" => f.sig = "ALRM"
  BY DEF VHandlerPoints, HandlerPoints, MemoryPoints
<1> QED
  BY <1>1, <1>2

\* What a step of the topmost handler does to the stack when it goes on.
LEMMA VGotoFrames ==
  ASSUME VFramesOK, NEW sig, NEW pc, NEW next, At(sig, pc), Goto(next),
         [sig |-> sig, pc |-> next] \in VHandlerPoints
  PROVE  /\ VFramesOK'
         /\ Depth' = Depth
         /\ frames'[Depth] = [sig |-> sig, pc |-> next]
         /\ \A i \in 1..(Depth - 1) : frames'[i] = frames[i]
<1>1. Depth \in Nat /\ Depth > 0 /\ Depth \in 1..Depth
      /\ frames[Depth] = [sig |-> sig, pc |-> pc]
  BY VFrameType DEF At, Top
<1>2. frames' = [frames EXCEPT ![Depth] = [sig |-> sig, pc |-> next]]
  <2>1. [frames[Depth] EXCEPT !.pc = next] = [sig |-> sig, pc |-> next]
    BY <1>1
  <2>2. frames' = [frames EXCEPT ![Depth] = [frames[Depth] EXCEPT !.pc = next]]
    BY DEF Goto
  <2> QED
    BY <2>1, <2>2
<1>3. frames' \in Seq(VHandlerPoints) /\ Len(frames') = Depth
      /\ \A i \in 1..Depth :
           frames'[i] = IF i = Depth THEN [sig |-> sig, pc |-> next] ELSE frames[i]
  BY <1>1, <1>2, ExceptSeq DEF VFramesOK, Depth
<1>4. \A i \in 1..Depth : frames'[i].sig = frames[i].sig
  BY <1>1, <1>3
<1>5. Depth' = Depth
  BY <1>3 DEF Depth
<1>6. OneFrameEach'
  BY <1>4, <1>5 DEF VFramesOK, OneFrameEach
<1> QED
  BY <1>1, <1>3, <1>5, <1>6 DEF VFramesOK

\* What its return does.
LEMMA VReturnFrames ==
  ASSUME VFramesOK, Depth > 0, Return
  PROVE  /\ VFramesOK'
         /\ Depth' = Depth - 1
         /\ \A i \in 1..(Depth - 1) : frames'[i] = frames[i]
<1>1. Depth \in Nat /\ Depth - 1 \in Nat
  BY VFrameType
<1>2. frames' \in Seq(VHandlerPoints) /\ Len(frames') = Depth - 1
      /\ \A i \in 1..(Depth - 1) : frames'[i] = frames[i]
  <2>1. frames' = SubSeq(frames, 1, Depth - 1)
    BY DEF Return
  <2>2. \A i \in 1..(Depth - 1) : frames[i] \in VHandlerPoints
    BY <1>1, VFrameType
  <2>3. /\ SubSeq(frames, 1, Depth - 1) \in Seq(VHandlerPoints)
        /\ Len(SubSeq(frames, 1, Depth - 1)) =
             IF 1 <= Depth - 1 THEN (Depth - 1) - 1 + 1 ELSE 0
        /\ \A i \in 1..((Depth - 1) - 1 + 1) :
             SubSeq(frames, 1, Depth - 1)[i] = frames[1 + i - 1]
    BY <1>1, <2>2, SubSeqProperties
  <2> QED
    BY <1>1, <2>1, <2>3
<1>3. Depth' = Depth - 1
  BY <1>2 DEF Depth
<1>4. OneFrameEach'
  BY <1>1, <1>2, <1>3 DEF VFramesOK, OneFrameEach
<1> QED
  BY <1>2, <1>3, <1>4 DEF VFramesOK

\* What the delivery of a signal does; a receive it interrupts will fail.
Interrupted ==
  IF Depth > 0 /\ Top.pc \in {"asleep", "memory_asleep"}
  THEN [frames EXCEPT ![Depth].pc = "eintr"]
  ELSE frames

LEMMA VDeliverFrames ==
  ASSUME VFramesOK, NEW sig \in Signals, \A i \in 1..Depth : frames[i].sig # sig,
         frames' = Append(Interrupted, [sig |-> sig, pc |-> Entry(sig)])
  PROVE  /\ VFramesOK'
         /\ Depth' = Depth + 1
         /\ frames'[Depth + 1] = [sig |-> sig, pc |-> Entry(sig)]
         /\ \A i \in 1..Depth :
              /\ frames'[i].sig = frames[i].sig
              /\ frames'[i] = frames[i] \/ frames'[i].pc = "eintr"
              /\ frames[i].pc \notin {"asleep", "memory_asleep"} => frames'[i] = frames[i]
<1> DEFINE entry == [sig |-> sig, pc |-> Entry(sig)]
<1>1. entry \in VHandlerPoints /\ entry.sig = sig
  BY DEF Entry, VHandlerPoints, HandlerPoints, Signals
<1>2. /\ Interrupted \in Seq(VHandlerPoints)
      /\ Len(Interrupted) = Depth
      /\ \A i \in 1..Depth :
           /\ Interrupted[i].sig = frames[i].sig
           /\ Interrupted[i] = frames[i] \/ Interrupted[i].pc = "eintr"
           /\ frames[i].pc \notin {"asleep", "memory_asleep"} => Interrupted[i] = frames[i]
  <2>1. CASE Depth > 0 /\ Top.pc \in {"asleep", "memory_asleep"}
    <3>1. PICK f : f = [sig |-> Top.sig, pc |-> "eintr"]
      OBVIOUS
    <3>2. Depth \in 1..Depth /\ Depth \in Nat
          /\ frames[Depth] \in VHandlerPoints /\ Top = frames[Depth]
          /\ frames[Depth] = [sig |-> Top.sig, pc |-> Top.pc]
      BY <2>1, VFrameType, VFrameFields DEF Top
    <3>3. f \in VHandlerPoints /\ f.sig = Top.sig /\ f.pc = "eintr"
      BY <2>1, <3>1, <3>2 DEF VHandlerPoints, HandlerPoints, MemoryPoints
    <3>4. Interrupted = [frames EXCEPT ![Depth] = f]
      <4>1. [frames[Depth] EXCEPT !.pc = "eintr"] = f
        BY <3>1, <3>2
      <4>2. Interrupted = [frames EXCEPT ![Depth] = [frames[Depth] EXCEPT !.pc = "eintr"]]
        BY <2>1 DEF Interrupted
      <4> QED
        BY <4>1, <4>2
    <3>5. Interrupted \in Seq(VHandlerPoints) /\ Len(Interrupted) = Depth
          /\ \A i \in 1..Depth : Interrupted[i] = IF i = Depth THEN f ELSE frames[i]
      BY <3>2, <3>3, <3>4, ExceptSeq DEF VFramesOK, Depth
    <3> QED
      BY <2>1, <3>2, <3>3, <3>5
  <2>2. CASE ~(Depth > 0 /\ Top.pc \in {"asleep", "memory_asleep"})
    <3>1. Interrupted = frames
      BY <2>2 DEF Interrupted
    <3> QED
      BY <3>1 DEF VFramesOK, Depth
  <2> QED
    BY <2>1, <2>2
<1>3. Depth \in Nat
  BY VFrameType
<1> HIDE DEF entry
<1>4. /\ frames' \in Seq(VHandlerPoints)
      /\ Len(frames') = Depth + 1
      /\ \A i \in 1..Depth : frames'[i] = Interrupted[i]
      /\ frames'[Depth + 1] = entry
  <2>1. frames' = Append(Interrupted, entry)
    BY DEF entry
  <2>2. /\ Interrupted \in Seq(VHandlerPoints) /\ Len(Interrupted) = Depth
        /\ entry \in VHandlerPoints
    BY <1>1, <1>2
  <2>3. /\ Append(Interrupted, entry) \in Seq(VHandlerPoints)
        /\ Len(Append(Interrupted, entry)) = Depth + 1
        /\ \A i \in 1..Depth : Append(Interrupted, entry)[i] = Interrupted[i]
        /\ Append(Interrupted, entry)[Depth + 1] = entry
    BY <2>2, AppendProperties
  <2> QED
    BY <2>1, <2>3
<1>5. Depth' = Depth + 1
  BY <1>4 DEF Depth
<1>6. OneFrameEach'
  <2>1. \A i \in 1..Depth : frames'[i].sig = frames[i].sig /\ frames'[i].sig # sig
    <3>1. \A i \in 1..Depth : Interrupted[i].sig = frames[i].sig
      BY <1>2
    <3> QED
      BY <1>4, <3>1
  <2>a. frames'[Depth + 1].sig = sig
    BY <1>1, <1>4
  <2> SUFFICES ASSUME NEW i \in 1..(Depth + 1), NEW j \in 1..(Depth + 1),
                      frames'[i].sig = frames'[j].sig
               PROVE  i = j
    BY <1>5 DEF OneFrameEach
  <2>2. i \in 1..Depth \/ i = Depth + 1
    BY <1>3
  <2>3. j \in 1..Depth \/ j = Depth + 1
    BY <1>3
  <2>4. CASE i \in 1..Depth /\ j \in 1..Depth
    BY <2>1, <2>4 DEF VFramesOK, OneFrameEach
  <2> QED
    BY <2>1, <2>a, <2>2, <2>3, <2>4
<1>7. \A i \in 1..Depth :
        /\ frames'[i].sig = frames[i].sig
        /\ frames'[i] = frames[i] \/ frames'[i].pc = "eintr"
        /\ frames[i].pc \notin {"asleep", "memory_asleep"} => frames'[i] = frames[i]
  BY <1>2, <1>4
<1> QED
  BY <1>4, <1>5, <1>6, <1>7 DEF VFramesOK, entry

-----------------------------------------------------------------------------
(* The loop over the wait queue, with ticks at any time *)

\* The handler of sig goes from one statement to another.
Jump(sig, pc, next) ==
  At(sig, pc) /\ Goto(next) /\ [sig |-> sig, pc |-> next] \in VHandlerPoints

\* What a step may do to the stack, to loop and to the wait queue.  Nothing here
\* depends on the constants.
Stays ==
  /\ \/ frames' = frames
     \/ \E sig, pc, next : next # "iowait" /\ Jump(sig, pc, next)
     \/ Depth > 0 /\ Return
     \/ \E sig \in Signals :
          /\ \A i \in 1..Depth : frames[i].sig # sig
          /\ frames' = Append(Interrupted, [sig |-> sig, pc |-> Entry(sig)])
  /\ loop' = loop
  /\ waitq' = waitq \/ \E pcb : waitq' = Append(waitq, pcb)

EntersLoop ==
  Jump("ALRM", "account", "iowait") /\ loop' = Len(waitq) /\ waitq' = waitq

Loops ==
  /\ frames' = frames /\ At("ALRM", "iowait") /\ loop > 0 /\ loop' = loop - 1
  /\ waitq' = Tail(waitq) \/ \E pcb : waitq' = Append(Tail(waitq), pcb)

Closes ==
  /\ \E pc, next : pc # "iowait" /\ next # "iowait" /\ Jump("ALRM", pc, next)
  /\ loop' \in Nat /\ waitq' = waitq

LoopMove == Stays \/ EntersLoop \/ Loops \/ Closes

LoopInv ==
  VFramesOK /\ (\E R : waitq \in Seq(R)) /\ loop \in Nat /\ LoopWithinQueue

\* The queue and the two things done to it.
LEMMA QueueLengths ==
  ASSUME NEW S, NEW q \in Seq(S), NEW x
  PROVE  /\ Len(q) \in Nat
         /\ \E T : Append(q, x) \in Seq(T)
         /\ Len(Append(q, x)) = Len(q) + 1
         /\ Len(q) > 0 => /\ \E T : Tail(q) \in Seq(T)
                          /\ \E T : Append(Tail(q), x) \in Seq(T)
                          /\ Len(Tail(q)) = Len(q) - 1
                          /\ Len(Append(Tail(q), x)) = Len(q)
<1> DEFINE T == S \cup {x}
<1>1. Len(q) \in Nat /\ q \in Seq(T) /\ x \in T
  <2>1. \A i \in 1..Len(q) : q[i] \in T
    OBVIOUS
  <2> QED
    BY <2>1
<1> HIDE DEF T
<1>2. Append(q, x) \in Seq(T) /\ Len(Append(q, x)) = Len(q) + 1
  BY <1>1, AppendProperties
<1>3. ASSUME Len(q) > 0
      PROVE  /\ Tail(q) \in Seq(T) /\ Append(Tail(q), x) \in Seq(T)
             /\ Len(Tail(q)) = Len(q) - 1 /\ Len(Append(Tail(q), x)) = Len(q)
  <2>1. q # <<>>
    BY <1>3, EmptySeq
  <2>2. Tail(q) \in Seq(T) /\ Len(Tail(q)) = Len(q) - 1
    BY <1>1, <2>1, HeadTailProperties
  <2>3. Append(Tail(q), x) \in Seq(T) /\ Len(Append(Tail(q), x)) = Len(Tail(q)) + 1
    BY <1>1, <2>2, AppendProperties
  <2> QED
    BY <1>1, <2>2, <2>3
<1> QED
  BY <1>1, <1>2, <1>3

\* No frame goes to the loop but by EntersLoop.
LEMMA StaysOut ==
  ASSUME VFramesOK, Stays
  PROVE  VFramesOK' /\ (InHandler("iowait")' => InHandler("iowait"))
<1>1. Depth \in Nat
  BY VFrameType
<1>2. CASE frames' = frames
  BY <1>2 DEF VFramesOK, OneFrameEach, InHandler, Depth
<1>3. ASSUME NEW sig, NEW pc, NEW next, next # "iowait", Jump(sig, pc, next)
      PROVE  VFramesOK' /\ (InHandler("iowait")' => InHandler("iowait"))
  <2>1. /\ VFramesOK' /\ Depth' = Depth /\ frames'[Depth].pc = next
        /\ \A i \in 1..(Depth - 1) : frames'[i] = frames[i]
    BY <1>3, VGotoFrames DEF Jump
  <2> QED
    BY <1>1, <1>3, <2>1 DEF InHandler
<1>4. CASE Depth > 0 /\ Return
  <2>1. /\ VFramesOK' /\ Depth' = Depth - 1
        /\ \A i \in 1..(Depth - 1) : frames'[i] = frames[i]
    BY <1>4, VReturnFrames
  <2> QED
    BY <1>1, <2>1 DEF InHandler
<1>5. ASSUME NEW sig \in Signals, \A i \in 1..Depth : frames[i].sig # sig,
             frames' = Append(Interrupted, [sig |-> sig, pc |-> Entry(sig)])
      PROVE  VFramesOK' /\ (InHandler("iowait")' => InHandler("iowait"))
  <2>1. /\ VFramesOK' /\ Depth' = Depth + 1 /\ frames'[Depth + 1].pc # "iowait"
        /\ \A i \in 1..Depth : frames'[i] = frames[i] \/ frames'[i].pc = "eintr"
    <3>1. /\ VFramesOK' /\ Depth' = Depth + 1
          /\ frames'[Depth + 1] = [sig |-> sig, pc |-> Entry(sig)]
          /\ \A i \in 1..Depth : frames'[i] = frames[i] \/ frames'[i].pc = "eintr"
      BY <1>5, VDeliverFrames
    <3>2. Entry(sig) # "iowait"
      BY DEF Entry
    <3> QED
      BY <3>1, <3>2
  <2>2. ASSUME NEW i \in 1..(Depth + 1), frames'[i].pc = "iowait"
        PROVE  i \in 1..Depth /\ frames[i].pc = "iowait"
    <3>1. i # Depth + 1
      BY <2>1, <2>2
    <3> QED
      BY <1>1, <2>1, <2>2, <3>1
  <2> QED
    BY <2>1, <2>2 DEF InHandler
<1> QED
  BY <1>2, <1>3, <1>4, <1>5 DEF Stays

\* signal_count, at another statement than its loop, is alone.
LEMMA VNotInLoop ==
  ASSUME VFramesOK, NEW pc, pc # "iowait", At("ALRM", pc)
  PROVE  ~InHandler("iowait")
<1> SUFFICES ASSUME NEW i \in 1..Depth, frames[i].pc = "iowait"
             PROVE  FALSE
  BY DEF InHandler
<1>1. Depth \in 1..Depth /\ frames[Depth] = [sig |-> "ALRM", pc |-> pc]
  BY VFrameType DEF At, Top
<1>2. frames[i].sig = "ALRM"
  BY VFrameType, VFrameFields
<1>3. i = Depth
  BY <1>1, <1>2 DEF VFramesOK, OneFrameEach
<1> QED
  BY <1>1, <1>3

\* None of them takes the loop past the queue.
LEMMA LoopMoves ==
  ASSUME LoopInv, LoopMove
  PROVE  LoopInv'
<1> USE DEF LoopInv
<1>1. PICK S : waitq \in Seq(S)
  OBVIOUS
<1>2. Len(waitq) \in Nat
  BY <1>1, LenProperties
<1>3. CASE Stays
  <2>1. VFramesOK' /\ (InHandler("iowait")' => InHandler("iowait"))
    BY <1>3, StaysOut
  <2>2. loop' = loop /\ (waitq' = waitq \/ \E pcb : waitq' = Append(waitq, pcb))
    BY <1>3 DEF Stays
  <2>3. (\E T : waitq' \in Seq(T)) /\ Len(waitq') \in Nat /\ Len(waitq) <= Len(waitq')
    <3>1. ASSUME NEW pcb, waitq' = Append(waitq, pcb)
          PROVE  (\E T : waitq' \in Seq(T)) /\ Len(waitq') = Len(waitq) + 1
      BY <1>1, <3>1, QueueLengths
    <3> QED
      BY <1>1, <1>2, <2>2, <3>1
  <2>4. LoopWithinQueue'
    BY <1>2, <2>1, <2>2, <2>3 DEF LoopWithinQueue
  <2> QED
    BY <2>1, <2>2, <2>3, <2>4
<1>4. CASE EntersLoop
  BY <1>1, <1>2, <1>4, VGotoFrames DEF EntersLoop, Jump, LoopWithinQueue
<1>5. CASE Loops
  <2>1. frames' = frames /\ loop > 0 /\ loop' = loop - 1 /\ loop <= Len(waitq)
    <3>1. Depth \in 1..Depth /\ Top = frames[Depth] /\ Top.pc = "iowait"
      BY <1>5, VFrameType DEF Loops, At, Top
    <3>2. InHandler("iowait")
      BY <3>1 DEF InHandler
    <3> QED
      BY <1>5, <3>2 DEF Loops, LoopWithinQueue
  <2>2. VFramesOK'
    BY <2>1 DEF VFramesOK, OneFrameEach, Depth
  <2>3. Len(waitq) > 0 /\ loop' \in Nat
    BY <1>2, <2>1
  <2>4. (\E T : waitq' \in Seq(T)) /\ Len(waitq') \in Nat /\ Len(waitq') >= Len(waitq) - 1
    <3>1. CASE waitq' = Tail(waitq)
      BY <1>1, <1>2, <2>3, <3>1, QueueLengths
    <3>2. ASSUME NEW pcb, waitq' = Append(Tail(waitq), pcb)
          PROVE  (\E T : waitq' \in Seq(T)) /\ Len(waitq') = Len(waitq)
      BY <1>1, <1>2, <2>3, <3>2, QueueLengths
    <3> QED
      BY <1>2, <1>5, <3>1, <3>2 DEF Loops
  <2>5. LoopWithinQueue'
    BY <1>2, <2>1, <2>4 DEF LoopWithinQueue
  <2> QED
    BY <2>2, <2>3, <2>4, <2>5
<1>6. CASE Closes
  <2>1. PICK pc, next : pc # "iowait" /\ next # "iowait" /\ Jump("ALRM", pc, next)
    BY <1>6 DEF Closes
  <2>2. ~InHandler("iowait")
    BY <2>1, VNotInLoop DEF Jump
  <2>3. /\ VFramesOK' /\ Depth' = Depth /\ frames'[Depth].pc = next
        /\ \A i \in 1..(Depth - 1) : frames'[i] = frames[i]
    BY <2>1, VGotoFrames DEF Jump
  <2>4. ~InHandler("iowait")'
    <3>1. Depth \in Nat
      BY VFrameType
    <3> QED
      BY <2>1, <2>2, <2>3, <3>1 DEF InHandler
  <2> QED
    BY <1>1, <1>6, <2>3, <2>4 DEF Closes, LoopWithinQueue
<1> QED
  BY <1>3, <1>4, <1>5, <1>6 DEF LoopMove

\* The statements of the handlers.
LEMMA Points ==
  /\ \A pc \in {"receive", "asleep", "eintr", "memory", "memory_asleep", "mmu", "requeue",
                "dispatch"} : [sig |-> "USR2", pc |-> pc] \in VHandlerPoints
  /\ \A pc \in {"burst", "eintr", "memory", "memory_asleep", "mmu", "requeue", "dispatch"} :
       [sig |-> "USR1", pc |-> pc] \in VHandlerPoints
  /\ \A pc \in {"account", "iowait", "cont", "timer", "rmid", "rmid_memory", "kill", "exit"} :
       [sig |-> "ALRM", pc |-> pc] \in VHandlerPoints
BY DEF VHandlerPoints, HandlerPoints, MemoryPoints

LEMMA NextQueueMoves ==
  ASSUME loop \in Nat, NEW pc, pc \in {"rmid", "rmid_memory", "kill"},
         NEW after, after \in {"rmid_memory", "kill", "exit"},
         At("ALRM", pc), NextQueue(pc, after), waitq' = waitq
  PROVE  LoopMove
<1>0. loop + 1 \in Nat /\ 0 \in Nat
  OBVIOUS
<1>2. loop' \in Nat
  BY <1>0 DEF NextQueue
<1>1. PICK next : next = IF loop + 1 < MAX_PROCESS THEN pc ELSE after
  OBVIOUS
<1>3. next # "iowait" /\ pc # "iowait"
  BY <1>1
<1>4. Goto(next)
  <2>1. CASE loop + 1 < MAX_PROCESS 
    BY <1>1, <2>1 DEF NextQueue
  <2>2. CASE ~(loop + 1 < MAX_PROCESS )
    BY <1>1, <2>2 DEF NextQueue
  <2> QED
    BY <2>1, <2>2
<1>5. Goto(next)
  BY <1>4
<1>6. [sig |-> "ALRM", pc |-> next] \in VHandlerPoints
  BY <1>1, Points
<1> QED
  BY <1>2, <1>3, <1>5, <1>6 DEF LoopMove, Closes, Jump

\* Every step is one of these, whatever the constants are.
LEMMA VLoops ==
  ASSUME loop \in Nat, [VNext]_vmVars
  PROVE  LoopMove
<1>1. CASE \/ VTick \/ VFork \/ VForkFails \/ VStartTimer \/ VSegfault \/ VInterrupted
           \/ VShutdownExit \/ (\E p \in Procs : VChildStep(p)) \/ UNCHANGED vmVars
  <2>1. UNCHANGED <<frames, loop, waitq>>
    BY <1>1
       DEF VTick, Tick, VFork, Fork, VForkFails, ForkFails, VStartTimer, StartTimer, VSegfault,
           VInterrupted, VShutdownExit, ShutdownExit, VChildStep, VChildStop, ChildStop,
           VChildBurst,
           ChildBurst, VChildSend, ChildSend, VChildNotify, ChildNotify, vmVars, vars
  <2> QED
    BY <2>1 DEF LoopMove, Stays
<1>2. ASSUME NEW sig \in Signals, VDeliver(sig) PROVE LoopMove
  BY <1>2 DEF VDeliver, Interrupted, LoopMove, Stays
<1>3. CASE VIoReceive \/ VIoSleep \/ VIoRequeue \/ VIoDispatch
  BY <1>3, Points
     DEF VIoReceive, VIoSleep, IoSleep, VIoRequeue, IoRequeue, VIoDispatch, IoDispatch,
         LoopMove,
         Stays, Jump, At
<1>4. CASE VBurstStep \/ VBurstRequeue \/ VBurstDispatch
  BY <1>4, Points
     DEF VBurstStep, VBurstRequeue, BurstRequeue, VBurstDispatch, BurstDispatch, LoopMove,
         Stays, Jump,
         At
<1>5. ASSUME NEW sig \in {"USR1", "USR2"},
             MemoryReceive(sig) \/ MemorySleep(sig) \/ CallMMU(sig)
      PROVE  LoopMove
  <2>1. UNCHANGED <<loop, waitq>>
    BY <1>5 DEF MemoryReceive, MemorySleep, CallMMU
  <2>2. CASE MemoryReceive(sig)
    <3>1. (At(sig, "memory") \/ At(sig, "memory_asleep")) /\ Goto("mmu")
      BY <2>2 DEF MemoryReceive
    <3> QED
      BY <2>1, <3>1, Points DEF LoopMove, Stays, Jump, At
  <2>3. CASE MemorySleep(sig)
    <3>1. (At(sig, "memory") \/ At(sig, "memory_asleep")) /\ Goto("memory_asleep")
      BY <2>3 DEF MemorySleep
    <3> QED
      BY <2>1, <3>1, Points DEF LoopMove, Stays, Jump, At
  <2>4. CASE CallMMU(sig)
    <3>1. At(sig, "mmu") /\ (Goto("requeue") \/ Return)
      <4>1. At(sig, "mmu") /\ AfterMemory(sig)
        BY <2>4 DEF CallMMU
      <4>2. Goto("requeue") \/ Return
        BY <4>1 DEF AfterMemory
      <4> QED
        BY <4>1, <4>2
    <3> QED
      BY <2>1, <3>1, Points DEF LoopMove, Stays, Jump, At
  <2> QED
    BY <1>5, <2>2, <2>3, <2>4
<1>6. CASE VCountAccount
  BY <1>6, Points DEF VCountAccount, CountAccount, IoIterations, LoopMove, EntersLoop, Jump
<1>7. CASE VCountIo
  <2>1. CASE CountIo
    BY <2>1 DEF CountIo, IoOver, LoopMove, Loops
  <2>2. CASE CountIoDone
    BY <2>2, Points DEF CountIoDone, LoopMove, Stays, Jump
  <2> QED
    BY <1>7, <2>1, <2>2 DEF VCountIo
<1>8. CASE VCountCont \/ VCountTimer
  BY <1>8, Points
     DEF VCountCont, CountCont, VCountTimer, CountTimer, LoopMove, Stays, Jump, At
<1>9. CASE VShutdownStart
  BY <1>9, Points DEF VShutdownStart, ShutdownStart, LoopMove, Closes, Jump
<1>11. CASE VShutdownRmid \/ VShutdownRmidMemory \/ VShutdownKill
  BY <1>11, NextQueueMoves DEF vmVars, VShutdownRmid, VShutdownRmidMemory, VShutdownKill
<1> QED
  BY <1>1, <1>2, <1>3, <1>4, <1>5, <1>6, <1>7, <1>8, <1>9, <1>11
     DEF VNext, VParentStep, VHandlerStep

\* The same of the late instance.
LEMMA LateStack ==
  /\ Late!Depth = Depth /\ Late!Top = Top /\ Late!Return = Return
  /\ \A sig, pc : (Late!At(sig, pc) <=> At(sig, pc)) /\ (Late!Goto(pc) <=> Goto(pc))
  /\ \A sig : Late!Entry(sig) = Entry(sig)
  /\ Late!Signals = Signals
BY DEF Late!Depth, Depth, Late!Top, Top, Late!Return, Return, Late!At, At, Late!Goto, Goto,
       Late!Entry, Entry, Late!Signals, Signals

LEMMA LateNextQueueMoves ==
  ASSUME loop \in Nat, NEW pc, pc \in {"rmid", "rmid_memory", "kill"},
         NEW after, after \in {"rmid_memory", "kill", "exit"},
         At("ALRM", pc), Late!NextQueue(pc, after), waitq' = waitq
  PROVE  LoopMove
<1>0. loop + 1 \in Nat /\ 0 \in Nat
  OBVIOUS
<1>2. loop' \in Nat
  BY <1>0 DEF Late!NextQueue
<1>1. PICK next : next = IF loop + 1 < 2 THEN pc ELSE after
  OBVIOUS
<1>3. next # "iowait" /\ pc # "iowait"
  BY <1>1
<1>4. Late!Goto(next)
  <2>1. CASE loop + 1 < 2 
    BY <1>1, <2>1 DEF Late!NextQueue
  <2>2. CASE ~(loop + 1 < 2 )
    BY <1>1, <2>2 DEF Late!NextQueue
  <2> QED
    BY <2>1, <2>2
<1>5. Goto(next)
  BY <1>4, LateStack
<1>6. [sig |-> "ALRM", pc |-> next] \in VHandlerPoints
  BY <1>1, Points
<1> QED
  BY <1>2, <1>3, <1>5, <1>6 DEF LoopMove, Closes, Jump

USE DEF Late!workload, Late!children, Late!queues, Late!results, Late!times, Late!memoryVars

\* Every step of the late instance is one of the same moves.
LEMMA LateVLoops ==
  ASSUME loop \in Nat, [Late!VNext]_vmVars
  PROVE  LoopMove
<1>1. CASE \/ Late!VTick \/ Late!VFork \/ Late!VForkFails \/ Late!VStartTimer
           \/ Late!VSegfault \/ Late!VInterrupted
           \/ Late!VShutdownExit \/ (\E p \in Late!Procs : Late!VChildStep(p)) \/ UNCHANGED vmVars
  <2>1. UNCHANGED <<frames, loop, waitq>>
    BY <1>1, LateStack
       DEF Late!VTick, Late!Tick, Late!VFork, Late!Fork, Late!VForkFails, Late!ForkFails,
           Late!VStartTimer, Late!StartTimer, Late!VSegfault,
           Late!VInterrupted, Late!VShutdownExit, Late!ShutdownExit, Late!VChildStep,
           Late!VChildStop, Late!ChildStop, Late!VChildBurst,
           Late!ChildBurst, Late!VChildSend, Late!ChildSend, Late!VChildNotify,
           Late!ChildNotify, vmVars, vars
  <2> QED
    BY <2>1 DEF LoopMove, Stays
<1>2. ASSUME NEW sig \in Late!Signals, Late!VDeliver(sig) PROVE LoopMove
  BY <1>2, LateStack DEF Late!VDeliver, Interrupted, LoopMove, Stays, Late!Entry, Entry
<1>3. CASE Late!VIoReceive \/ Late!VIoSleep \/ Late!VIoRequeue \/ Late!VIoDispatch
  <2>1. loop' = loop /\ (waitq' = waitq \/ \E pcb : waitq' = Append(waitq, pcb))
    BY <1>3 DEF Late!VIoReceive, Late!VIoSleep, Late!IoSleep, Late!VIoRequeue, Late!IoRequeue,
                Late!VIoDispatch, Late!IoDispatch
  <2>2. ASSUME Late!VIoDispatch PROVE Depth > 0 /\ Return
    BY <2>2, LateStack DEF Late!VIoDispatch, Late!IoDispatch, At
  <2>3. ASSUME ~Late!VIoDispatch
        PROVE  \E pc, next \in {"receive", "asleep", "memory", "requeue", "dispatch"} :
                 Jump("USR2", pc, next)
    <3>1. PICK pc, next \in {"receive", "asleep", "memory", "requeue", "dispatch"} :
            At("USR2", pc) /\ Goto(next)
      BY <1>3, <2>3, LateStack
         DEF Late!VIoReceive, Late!VIoSleep, Late!IoSleep, Late!VIoRequeue, Late!IoRequeue
    <3> QED
      BY <3>1, Points DEF Jump
  <2> QED
    BY <2>1, <2>2, <2>3 DEF LoopMove, Stays
<1>4. CASE Late!VBurstStep \/ Late!VBurstRequeue \/ Late!VBurstDispatch
  <2>1. loop' = loop /\ waitq' = waitq
    BY <1>4 DEF Late!VBurstStep, Late!VBurstRequeue, Late!BurstRequeue, Late!VBurstDispatch,
                Late!BurstDispatch
  <2>2. ASSUME Late!VBurstDispatch PROVE Depth > 0 /\ Return
    BY <2>2, LateStack DEF Late!VBurstDispatch, Late!BurstDispatch, At
  <2>3. ASSUME ~Late!VBurstDispatch
        PROVE  \E pc, next \in {"burst", "memory", "requeue", "dispatch"} :
                 Jump("USR1", pc, next)
    <3>1. PICK pc, next \in {"burst", "memory", "requeue", "dispatch"} :
            At("USR1", pc) /\ Goto(next)
      BY <1>4, <2>3, LateStack DEF Late!VBurstStep, Late!VBurstRequeue, Late!BurstRequeue
    <3> QED
      BY <3>1, Points DEF Jump
  <2> QED
    BY <2>1, <2>2, <2>3 DEF LoopMove, Stays
<1>5. ASSUME NEW sig \in {"USR1", "USR2"},
             Late!MemoryReceive(sig) \/ Late!MemorySleep(sig) \/ Late!CallMMU(sig)
      PROVE  LoopMove
  <2>1. UNCHANGED <<loop, waitq>>
    BY <1>5 DEF Late!MemoryReceive, Late!MemorySleep, Late!CallMMU
  <2>2. CASE Late!MemoryReceive(sig)
    <3>1. (At(sig, "memory") \/ At(sig, "memory_asleep")) /\ Goto("mmu")
      BY <2>2, LateStack DEF Late!MemoryReceive
    <3> QED
      BY <2>1, <3>1, Points DEF LoopMove, Stays, Jump, At
  <2>3. CASE Late!MemorySleep(sig)
    <3>1. (At(sig, "memory") \/ At(sig, "memory_asleep")) /\ Goto("memory_asleep")
      BY <2>3, LateStack DEF Late!MemorySleep
    <3> QED
      BY <2>1, <3>1, Points DEF LoopMove, Stays, Jump, At
  <2>4. CASE Late!CallMMU(sig)
    <3>1. At(sig, "mmu") /\ (Goto("requeue") \/ Return)
      <4>1. Late!At(sig, "mmu") /\ Late!AfterMemory(sig)
        BY <2>4 DEF Late!CallMMU
      <4>2. Late!Goto("requeue") \/ Late!Return
        BY <4>1 DEF Late!AfterMemory
      <4> QED
        BY <4>1, <4>2, LateStack
    <3> QED
      BY <2>1, <3>1, Points DEF LoopMove, Stays, Jump, At
  <2> QED
    BY <1>5, <2>2, <2>3, <2>4
<1>6. CASE Late!VCountAccount
  BY <1>6, Points, LateStack
     DEF Late!VCountAccount, Late!CountAccount, Late!IoIterations, LoopMove, EntersLoop, Jump
<1>7. CASE Late!VCountIo
  <2>1. CASE Late!CountIo
    BY <2>1, LateStack DEF Late!CountIo, Late!IoOver, LoopMove, Loops
  <2>2. CASE Late!CountIoDone
    BY <2>2, Points, LateStack DEF Late!CountIoDone, LoopMove, Stays, Jump
  <2> QED
    BY <1>7, <2>1, <2>2 DEF Late!VCountIo
<1>8. CASE Late!VCountCont \/ Late!VCountTimer
  <2>1. loop' = loop /\ waitq' = waitq
    BY <1>8 DEF Late!VCountCont, Late!CountCont, Late!VCountTimer, Late!CountTimer
  <2>2. ASSUME Late!VCountCont PROVE Jump("ALRM", "cont", "timer")
    BY <2>2, Points, LateStack DEF Late!VCountCont, Late!CountCont, Jump
  <2>3. ASSUME Late!VCountTimer PROVE Depth > 0 /\ Return
    BY <2>3, LateStack DEF Late!VCountTimer, Late!CountTimer, At
  <2> QED
    BY <1>8, <2>1, <2>2, <2>3 DEF LoopMove, Stays
<1>9. CASE Late!VShutdownStart
  BY <1>9, Points, LateStack DEF Late!VShutdownStart, Late!ShutdownStart, LoopMove, Closes, Jump
<1>11. CASE Late!VShutdownRmid \/ Late!VShutdownRmidMemory \/ Late!VShutdownKill
  BY <1>11, LateNextQueueMoves, LateStack
     DEF vmVars, Late!VShutdownRmid, Late!VShutdownRmidMemory, Late!VShutdownKill
<1> QED
  BY <1>1, <1>2, <1>3, <1>4, <1>5, <1>6, <1>7, <1>8, <1>9, <1>11
     DEF Late!VNext, Late!VParentStep, Late!VHandlerStep

-----------------------------------------------------------------------------
(* In time: the stack that Scheduler would have *)

\* The topmost handler is receiving addresses or about to have them performed.
InMemory == Depth > 0 /\ Top.pc \in MemoryPoints

\* It will return at once when they are.
Leaves == InMemory /\ ~(Top.sig = "USR2" \/ Preempt(cur_ready.cpu_burst, counter))

\* The statement of Scheduler's handler that comes next.
Plain(pc) ==
  CASE pc = "rmid_memory" -> "rmid"
    [] pc \in MemoryPoints -> "requeue"
    [] OTHER -> pc

BarDepth == IF Leaves THEN Depth - 1 ELSE Depth
Bar == [i \in 1..BarDepth |-> [sig |-> frames[i].sig, pc |-> Plain(frames[i].pc)]]

S == INSTANCE SchedulerProofs WITH frames <- Bar

USE DEF S!workload, S!children, S!queues, S!results, S!times

\* What SchedulerProofs assumes.
LEMMA Constants ==
  /\ MAX_PROCESS \in Nat \ {0}
  /\ RUN_TIME \in Nat \ {0}
  /\ TIME_QUANTUM \in Nat \ {0}
  /\ MaxLimit \in Nat \ {0}
  /\ Schedulers \subseteq {S!FCFS, S!SJF, S!RR}
  /\ InTime \in BOOLEAN
  /\ NULL \notin S!Pcb
BY SchedulerAssumption, NullAssumption
   DEF S!FCFS, S!SJF, S!RR, S!Pcb, S!Procs, Pcb, Procs, FCFS, SJF, RR

\* Nothing but the stack is seen otherwise.
LEMMA SameOps ==
  /\ S!Procs = Procs /\ S!Signals = Signals /\ S!Idle = Idle
  /\ S!FCFS = FCFS /\ S!SJF = SJF /\ S!RR = RR
  /\ S!Now = Now /\ S!CurIdx = CurIdx /\ S!Inbox = Inbox
  /\ S!Active = {"run", "send", "usr1", "usr2"}
  /\ S!IoIterations = IoIterations
  /\ \A sig : S!Entry(sig) = Entry(sig)
BY DEF S!Procs, Procs, S!Signals, Signals, S!Idle, Idle, S!FCFS, FCFS, S!SJF, SJF, S!RR, RR,
       S!Now, Now, S!CurIdx, CurIdx, S!Inbox, Inbox, S!Active, S!IoIterations, IoIterations,
       S!Entry, Entry

LEMMA SameQueueOps ==
  ASSUME NEW q, NEW pcb
  PROVE  /\ S!PutReady(q, pcb) = PutReady(q, pcb)
         /\ S!FirstReady(q) = FirstReady(q)
         /\ S!RestReady(q) = RestReady(q)
<1>1. S!insertHeap(q, pcb) = insertHeap(q, pcb)
  BY DEF S!insertHeap, insertHeap, S!Risen, Risen, S!SmallerThanParent, SmallerThanParent,
         S!Swap, Swap, S!parent, parent, S!Elements, Elements
<1>2. S!RestOfHeap(q) = RestOfHeap(q)
  BY DEF S!RestOfHeap, RestOfHeap, S!heapify, heapify, S!Sunk, Sunk, S!SmallestOf, SmallestOf,
         S!Swap, Swap, S!left_child, left_child, S!right_child, right_child, S!Elements,
         Elements
<1> QED
  BY <1>1, <1>2, SameOps
     DEF S!PutReady, PutReady, S!FirstReady, FirstReady, S!RestReady, RestReady

-----------------------------------------------------------------------------
(* The two stacks *)

Frame(i) == [sig |-> frames[i].sig, pc |-> Plain(frames[i].pc)]

\* What that stack is.
LEMMA BarIs ==
  ASSUME VFramesOK
  PROVE  /\ BarDepth \in Nat /\ BarDepth <= Depth
         /\ Len(Bar) = BarDepth /\ S!Depth = BarDepth
         /\ \A i \in 1..BarDepth : Bar[i] = Frame(i)
         /\ Bar \in Seq({Frame(i) : i \in 1..BarDepth})
         /\ Bar = [i \in 1..BarDepth |-> Frame(i)]
         /\ ~InMemory => BarDepth = Depth
<1>1. BarDepth \in Nat /\ BarDepth <= Depth /\ (~InMemory => BarDepth = Depth)
  BY VFrameType DEF BarDepth, Leaves, InMemory
<1>2. Bar = [i \in 1..BarDepth |-> Frame(i)]
  BY DEF Bar, Frame
<1>3. Len(Bar) = BarDepth
  BY <1>1, <1>2
<1> QED
  BY <1>1, <1>2, <1>3 DEF S!Depth

\* A sequence that is what Bar becomes.
LEMMA BarBecomes ==
  ASSUME NEW n \in Nat, NEW q, BarDepth' = n, q = [i \in 1..n |-> q[i]],
         \A i \in 1..n : q[i] = Frame(i)'
  PROVE  Bar' = q
BY DEF Bar, Frame

\* The handler of sig, outside of the memory calls.
LEMMA BarAt ==
  ASSUME VFramesOK, NEW sig, NEW pc, At(sig, pc), pc \notin MemoryPoints
  PROVE  /\ S!At(sig, Plain(pc)) /\ ~InMemory /\ BarDepth = Depth /\ Depth > 0
<1>1. Depth \in Nat /\ Depth > 0 /\ frames[Depth] = [sig |-> sig, pc |-> pc] /\ ~InMemory
      /\ status = "running"
  BY VFrameType DEF At, Top, InMemory
<1>2. S!Depth = Depth /\ Bar[Depth] = [sig |-> sig, pc |-> Plain(pc)] /\ BarDepth = Depth
  BY <1>1, BarIs DEF Frame
<1> QED
  BY <1>1, <1>2 DEF S!At, S!Top

\* A handler goes on, or returns, outside of the memory calls.
LEMMA BarGoes ==
  ASSUME VFramesOK, NEW sig, NEW pc, NEW next, At(sig, pc), pc \notin MemoryPoints,
         Goto(next), next \notin MemoryPoints, [sig |-> sig, pc |-> next] \in VHandlerPoints
  PROVE  VFramesOK' /\ S!At(sig, Plain(pc)) /\ S!Goto(Plain(next)) /\ ~InMemory'
<1>1. /\ VFramesOK' /\ Depth' = Depth /\ frames'[Depth] = [sig |-> sig, pc |-> next]
      /\ \A i \in 1..(Depth - 1) : frames'[i] = frames[i]
  BY VGotoFrames
<1>2. S!At(sig, Plain(pc)) /\ BarDepth = Depth /\ Depth > 0 /\ Depth \in Nat
      /\ frames[Depth].sig = sig
  BY BarAt, VFrameType DEF At, Top
<1>3. ~InMemory'
  BY <1>1 DEF InMemory, Top
<1>4. BarDepth' = Depth
  BY <1>1, <1>3 DEF BarDepth, Leaves
<1> DEFINE q == [Bar EXCEPT ![Depth].pc = Plain(next)]
<1>5. Bar = [i \in 1..Depth |-> Frame(i)] /\ S!Depth = Depth
  BY <1>2, BarIs
<1>6. q = [i \in 1..Depth |-> q[i]]
  BY <1>5
<1>7. \A i \in 1..Depth : q[i] = Frame(i)'
  <2>1. ASSUME NEW i \in 1..Depth, i # Depth PROVE q[i] = Frame(i)'
    BY <1>1, <1>2, <1>5, <2>1 DEF Frame
  <2>2. q[Depth] = [sig |-> sig, pc |-> Plain(next)]
    <3>1. Depth \in 1..Depth /\ Bar[Depth] = Frame(Depth)
      BY <1>2, <1>5
    <3>2. q[Depth] = [Bar[Depth] EXCEPT !.pc = Plain(next)]
      BY <1>5, <3>1
    <3>3. Frame(Depth) = [sig |-> sig, pc |-> Plain(frames[Depth].pc)]
      BY <1>2 DEF Frame
    <3> QED
      BY <3>1, <3>2, <3>3
  <2>3. Frame(Depth)' = [sig |-> sig, pc |-> Plain(next)]
    BY <1>1 DEF Frame, Plain
  <2> HIDE DEF q
  <2> QED
    BY <1>1, <2>1, <2>2, <2>3 DEF Frame
<1>8. Bar' = q
  BY <1>2, <1>4, <1>6, <1>7, BarBecomes
<1> QED
  BY <1>1, <1>2, <1>3, <1>5, <1>8 DEF S!Goto

\* The sequences that end one frame earlier.
LEMMA BarShorter ==
  ASSUME VFramesOK, BarDepth > 0
  PROVE  /\ SubSeq(Bar, 1, BarDepth - 1) = [i \in 1..(BarDepth - 1) |-> Frame(i)]
<1>1. BarDepth - 1 \in Nat /\ Len(Bar) = BarDepth
      /\ \A i \in 1..(BarDepth - 1) : Bar[i] = Frame(i)
  BY BarIs
<1> DEFINE q == SubSeq(Bar, 1, BarDepth - 1)
           R == {Frame(i) : i \in 1..BarDepth}
<1>2. \A i \in 1..(BarDepth - 1) : Bar[i] \in R
  BY <1>1
<1>3. /\ q \in Seq(R) /\ Len(q) = BarDepth - 1
      /\ \A i \in 1..(BarDepth - 1) : q[i] = Bar[i]
  <2>1. /\ q \in Seq(R)
        /\ Len(q) = IF 1 <= BarDepth - 1 THEN (BarDepth - 1) - 1 + 1 ELSE 0
        /\ \A i \in 1..((BarDepth - 1) - 1 + 1) : q[i] = Bar[1 + i - 1]
    BY <1>1, <1>2, SubSeqProperties
  <2> QED
    BY <1>1, <2>1
<1>4. q = [i \in 1..(BarDepth - 1) |-> q[i]]
  BY <1>3
<1> QED
  BY <1>1, <1>3, <1>4

LEMMA BarReturns ==
  ASSUME VFramesOK, NEW sig, NEW pc, At(sig, pc), pc \notin MemoryPoints, Return,
         \A i \in 1..(Depth - 1) : frames[i].pc \notin MemoryPoints
  PROVE  VFramesOK' /\ S!At(sig, Plain(pc)) /\ S!Return /\ ~InMemory'
<1>1. S!At(sig, Plain(pc)) /\ BarDepth = Depth /\ Depth > 0 /\ Depth \in Nat
      /\ S!Depth = Depth
  BY BarAt, BarIs, VFrameType
<1>2. VFramesOK' /\ Depth' = Depth - 1 /\ \A i \in 1..(Depth - 1) : frames'[i] = frames[i]
  BY <1>1, VReturnFrames
<1>3. ~InMemory'
  BY <1>1, <1>2 DEF InMemory, Top
<1>4. BarDepth' = Depth - 1
  BY <1>2, <1>3 DEF BarDepth, Leaves
<1>5. Bar' = [i \in 1..(Depth - 1) |-> Frame(i)]
  BY <1>1, <1>2, <1>4 DEF Bar, Frame
<1> QED
  BY <1>1, <1>2, <1>3, <1>5, BarShorter DEF S!Return

LEMMA BarSame ==
  ASSUME VFramesOK, frames' = frames,
         InMemory => UNCHANGED <<set_scheduler, cur_ready, counter>>
  PROVE  VFramesOK' /\ Bar' = Bar /\ (InMemory' <=> InMemory) /\ Depth' = Depth /\ Top' = Top
<1>1. VFramesOK' /\ (InMemory' <=> InMemory) /\ Depth' = Depth /\ Top' = Top
  BY DEF VFramesOK, OneFrameEach, Depth, InMemory, Top
<1>2. Leaves' <=> Leaves
  BY <1>1 DEF Leaves, Preempt, FCFS, SJF, RR
<1>3. BarDepth' = BarDepth
  BY <1>1, <1>2 DEF BarDepth
<1> QED
  BY <1>1, <1>3 DEF Bar

\* A handler of a unit asks for addresses: Scheduler's goes on or returns.
LEMMA BarEnters ==
  ASSUME VFramesOK, NEW sig \in {"USR1", "USR2"}, NEW pc, At(sig, pc), pc \notin MemoryPoints,
         Goto("memory")
  PROVE  /\ VFramesOK' /\ S!At(sig, Plain(pc)) /\ InMemory' /\ Depth' = Depth
         /\ Top' = [sig |-> sig, pc |-> "memory"]
         /\ ~Leaves' => S!Goto("requeue")
         /\ Leaves' => S!Return
         /\ \A i \in 1..(Depth - 1) : frames'[i] = frames[i]
<1>0. [sig |-> sig, pc |-> "memory"] \in VHandlerPoints
  BY Points
<1>1. /\ VFramesOK' /\ Depth' = Depth /\ frames'[Depth] = [sig |-> sig, pc |-> "memory"]
      /\ \A i \in 1..(Depth - 1) : frames'[i] = frames[i]
  BY <1>0, VGotoFrames
<1>2. S!At(sig, Plain(pc)) /\ BarDepth = Depth /\ Depth > 0 /\ Depth \in Nat
      /\ frames[Depth].sig = sig
  BY BarAt, VFrameType DEF At, Top
<1>3. InMemory' /\ Top' = [sig |-> sig, pc |-> "memory"]
  BY <1>1, <1>2 DEF InMemory, Top, MemoryPoints
<1>5. Bar = [i \in 1..Depth |-> Frame(i)] /\ S!Depth = Depth
  BY <1>2, BarIs
<1>6. ASSUME Leaves' PROVE S!Return
  <2>1. BarDepth' = Depth - 1
    BY <1>1, <1>6 DEF BarDepth
  <2>2. Bar' = [i \in 1..(Depth - 1) |-> Frame(i)]
    BY <1>1, <1>2, <2>1 DEF Bar, Frame
  <2> QED
    BY <1>2, <1>5, <2>2, BarShorter DEF S!Return
<1>7. ASSUME ~Leaves' PROVE S!Goto("requeue")
  <2> DEFINE q == [Bar EXCEPT ![Depth].pc = "requeue"]
  <2>1. BarDepth' = Depth
    BY <1>1, <1>7 DEF BarDepth
  <2>2. q = [i \in 1..Depth |-> q[i]]
    BY <1>5
  <2>3. ASSUME NEW i \in 1..Depth, i # Depth PROVE q[i] = Frame(i)'
    BY <1>1, <1>2, <1>5, <2>3 DEF Frame
  <2>4. q[Depth] = [sig |-> sig, pc |-> "requeue"]
    <3>1. Depth \in 1..Depth /\ Bar[Depth] = Frame(Depth)
      BY <1>2, <1>5
    <3>2. q[Depth] = [Bar[Depth] EXCEPT !.pc = "requeue"]
      BY <1>5, <3>1
    <3>3. Frame(Depth) = [sig |-> sig, pc |-> Plain(frames[Depth].pc)]
      BY <1>2 DEF Frame
    <3> QED
      BY <3>1, <3>2, <3>3
  <2>5. Frame(Depth)' = [sig |-> sig, pc |-> "requeue"]
    BY <1>1 DEF Frame, Plain, MemoryPoints
  <2>6. Bar' = q
    <3> HIDE DEF q
    <3>1. \A i \in 1..Depth : q[i] = Frame(i)'
      BY <1>1, <2>3, <2>4, <2>5 DEF Frame
    <3> QED
      BY <1>2, <2>1, <2>2, <3>1, BarBecomes
  <2> QED
    BY <1>5, <2>6 DEF S!Goto
<1> QED
  BY <1>1, <1>2, <1>3, <1>6, <1>7

\* Within the memory calls and at their end Scheduler's handler stands still.
LEMMA BarStands ==
  ASSUME VFramesOK, NEW sig \in {"USR1", "USR2"}, NEW pc \in MemoryPoints, At(sig, pc),
         NEW next \in MemoryPoints \cup {"requeue"}, Goto(next),
         next = "requeue" => ~Leaves,
         UNCHANGED <<set_scheduler, cur_ready, counter>>
  PROVE  /\ VFramesOK' /\ Bar' = Bar /\ Depth' = Depth /\ Top' = [sig |-> sig, pc |-> next]
         /\ \A i \in 1..(Depth - 1) : frames'[i] = frames[i]
<1>0. [sig |-> sig, pc |-> next] \in VHandlerPoints
  BY Points DEF MemoryPoints
<1>1. /\ VFramesOK' /\ Depth' = Depth /\ frames'[Depth] = [sig |-> sig, pc |-> next]
      /\ \A i \in 1..(Depth - 1) : frames'[i] = frames[i]
  BY <1>0, VGotoFrames
<1>2. Depth \in Nat /\ Depth > 0 /\ frames[Depth] = [sig |-> sig, pc |-> pc] /\ InMemory
  BY VFrameType DEF At, Top, InMemory
<1>3. Top' = [sig |-> sig, pc |-> next] /\ Top.sig = sig
  BY <1>1, <1>2 DEF Top
<1>4. Leaves' <=> Leaves
  BY <1>0, <1>1, <1>2, <1>3 DEF Leaves, InMemory, Preempt, FCFS, SJF, RR, MemoryPoints
<1>5. BarDepth' = BarDepth
  BY <1>1, <1>4 DEF BarDepth
<1>6. \A i \in 1..Depth : Frame(i)' = Frame(i)
  <2>1. Frame(Depth)' = Frame(Depth)
    BY <1>1, <1>2 DEF Frame, Plain, MemoryPoints
  <2> QED
    BY <1>1, <1>2, <2>1 DEF Frame
<1>7. BarDepth <= Depth /\ BarDepth \in Nat
  BY BarIs
<1>8. [i \in 1..BarDepth |-> Frame(i)'] = [i \in 1..BarDepth |-> Frame(i)]
  BY <1>2, <1>6, <1>7
<1>9. Bar' = Bar
  BY <1>5, <1>8 DEF Bar, Frame
<1> QED
  BY <1>1, <1>3, <1>9

LEMMA BarLeaves ==
  ASSUME VFramesOK, Leaves, Return, \A i \in 1..(Depth - 1) : frames[i].pc \notin MemoryPoints
  PROVE  /\ VFramesOK' /\ Bar' = Bar /\ Depth' = Depth - 1 /\ ~InMemory'
         /\ \A i \in 1..(Depth - 1) : frames'[i] = frames[i]
<1>1. Depth \in Nat /\ Depth > 0 /\ BarDepth = Depth - 1
  BY VFrameType DEF Leaves, InMemory, BarDepth
<1>2. VFramesOK' /\ Depth' = Depth - 1 /\ \A i \in 1..(Depth - 1) : frames'[i] = frames[i]
  BY <1>1, VReturnFrames
<1>3. ~InMemory'
  BY <1>1, <1>2 DEF InMemory, Top
<1>4. BarDepth' = Depth - 1
  BY <1>2, <1>3 DEF BarDepth, Leaves
<1>5. Bar' = Bar
  BY <1>1, <1>2, <1>4 DEF Bar, Frame
<1> QED
  BY <1>2, <1>3, <1>5

\* A signal that finds no receive to interrupt.
LEMMA BarDelivers ==
  ASSUME VFramesOK, NEW sig \in Signals, VDeliver(sig), ~InMemory,
         Depth > 0 => Top.pc # "asleep"
  PROVE  /\ VFramesOK' /\ S!Deliver(sig) /\ ~InMemory'
         /\ frames' = Append(frames, [sig |-> sig, pc |-> Entry(sig)])
<1>1. Interrupted = frames
  BY DEF Interrupted, InMemory, MemoryPoints
<1>2. frames' = Append(Interrupted, [sig |-> sig, pc |-> Entry(sig)])
      /\ \A i \in 1..Depth : frames[i].sig # sig
  BY DEF VDeliver, Interrupted
<1>3. VFramesOK'
  BY <1>2, VDeliverFrames
<1>4. frames' = Append(frames, [sig |-> sig, pc |-> Entry(sig)])
  BY <1>1, <1>2
<1>5. Depth' = Depth + 1 /\ frames'[Depth + 1] = [sig |-> sig, pc |-> Entry(sig)]
      /\ \A i \in 1..Depth : frames'[i] = frames[i]
  <2>1. /\ Depth' = Depth + 1
        /\ frames'[Depth + 1] = [sig |-> sig, pc |-> Entry(sig)]
    BY <1>2, VDeliverFrames
  <2>2. \A i \in 1..Depth : frames'[i] = frames[i]
    BY <1>4, AppendProperties DEF VFramesOK, Depth
  <2> QED
    BY <2>1, <2>2
<1>6. ~InMemory' /\ Entry(sig) \notin MemoryPoints \cup {"rmid_memory"}
  BY <1>5, VFrameType DEF InMemory, Top, Entry, MemoryPoints
<1>7. BarDepth = Depth /\ BarDepth' = Depth + 1 /\ Depth \in Nat
  BY <1>5, <1>6, BarIs, VFrameType DEF BarDepth, Leaves
<1> DEFINE entry == [sig |-> sig, pc |-> Entry(sig)]
           q == Append(Bar, entry)
           R == {Frame(i) : i \in 1..BarDepth} \cup {entry}
<1>8. Bar \in Seq({Frame(i) : i \in 1..BarDepth}) /\ Len(Bar) = Depth
      /\ \A i \in 1..Depth : Bar[i] = Frame(i)
  BY <1>7, BarIs
<1>9. Bar \in Seq(R)
  BY <1>8
<1>10. Len(q) = Depth + 1 /\ q \in Seq(R) /\ q[Depth + 1] = entry
       /\ \A i \in 1..Depth : q[i] = Frame(i)
  <2> HIDE DEF R
  <2>1. entry \in R
    BY DEF R
  <2> HIDE DEF entry
  <2> QED
    BY <1>8, <1>9, <2>1, AppendProperties
<1>11. q = [i \in 1..(Depth + 1) |-> q[i]]
  BY <1>7, <1>10
<1>12. ASSUME NEW i \in 1..(Depth + 1)
       PROVE  q[i] = Frame(i)'
  <2> HIDE DEF q
  <2>1. CASE i = Depth + 1
    <3>1. Plain(Entry(sig)) = Entry(sig)
      BY <1>6 DEF Plain
    <3>2. frames'[i] = entry /\ q[i] = entry
      BY <1>5, <1>10, <2>1
    <3> QED
      BY <3>1, <3>2 DEF Frame
  <2>2. CASE i \in 1..Depth
    <3>1. frames'[i] = frames[i] /\ q[i] = Frame(i)
      BY <1>5, <1>10, <2>2
    <3> QED
      BY <3>1 DEF Frame
  <2> QED
    BY <1>7, <2>1, <2>2
<1>13. Bar' = q
  <2> HIDE DEF q
  <2> QED
    BY <1>7, <1>11, <1>12, BarBecomes
<1>14. S!Depth = Depth
  BY <1>7, BarIs
<1>15. \A i \in 1..Depth : Bar[i].sig # sig
  BY <1>2, <1>8 DEF Frame
<1>16. Depth > 0 => S!Top.pc # "asleep"
  <2>1. ASSUME Depth > 0 PROVE Bar[Depth].pc # "asleep"
    <3>1. Bar[Depth] = Frame(Depth) /\ frames[Depth].pc # "asleep"
      BY <1>7, <1>8, <2>1 DEF Top
    <3> QED
      BY <3>1 DEF Frame, Plain
  <2> QED
    BY <1>14, <2>1 DEF S!Top
<1>17. S!Deliver(sig)
  <2>1. /\ status = "running" /\ sig \in pending /\ pending' = pending \ {sig}
        /\ UNCHANGED <<workload, forked, status, children, loop, queues, run_time, results, times>>
    BY DEF VDeliver
  <2>2. Bar' = Append(Bar, [sig |-> sig, pc |-> S!Entry(sig)])
    BY <1>13, SameOps
  <2>3. ~(S!Depth > 0 /\ S!Top.pc = "asleep") /\ \A i \in 1..S!Depth : Bar[i].sig # sig
    BY <1>14, <1>15, <1>16
  <2> HIDE DEF entry, q, R
  <2> QED
    BY <2>1, <2>2, <2>3 DEF S!Deliver
<1> QED
  BY <1>3, <1>4, <1>6, <1>17

-----------------------------------------------------------------------------
(* Where the work of a tick is *)

\* The rest of signal_count, when the work is elsewhere.
LatePoints == {"timer", "rmid", "rmid_memory", "kill", "exit"}

Late1 == frames[1].sig = "ALRM" /\ frames[1].pc \in LatePoints

\* No handler is at work.
Rests == Depth = 0 \/ (Depth = 1 /\ Late1)

Closing == Depth > 0 /\ frames[1].pc \in {"rmid", "rmid_memory", "kill", "exit"}

NoneActive == \A p \in Procs : child[p] \notin S!Active

\* What else is known of the memory calls.
MemoryOK ==
  InMemory =>
    /\ status # "boot" /\ pending = {} /\ CurIdx # -1 /\ NoneActive
    /\ Depth \in 1..2 /\ (Depth = 2 => Late1)

\* No handler before the timer is armed.
BootOK == status = "boot" => frames = <<>>

StackInv == VFramesOK /\ MemoryOK /\ BootOK /\ S!TimeInv

\* The work is at one place: nowhere, a pending signal, a child, a handler, which may
\* have interrupted the rest of signal_count.
LEMMA Where ==
  ASSUME StackInv
  PROVE  /\ Depth \in 0..2 /\ (Depth = 2 => Late1 /\ Top.sig # "ALRM")
         /\ Depth > 0 => Top = frames[Depth] /\ Top \in VHandlerPoints /\ Top.pc # "eintr"
         /\ \A sig \in pending :
              /\ pending = {sig} /\ Rests /\ NoneActive /\ sig \in Signals
              /\ IF sig = "ALRM" THEN Depth = 0 ELSE CurIdx # -1
         /\ \A p \in Procs : child[p] \in S!Active => p = CurIdx /\ pending = {} /\ Rests
         /\ \A p \in Procs : child[p] = "dead" => Closing
         /\ ~Rests => /\ pending = {} /\ NoneActive /\ Top.pc \notin LatePoints
                      /\ Top.sig # "ALRM" => CurIdx # -1
                      /\ Top.sig = "ALRM" => Depth = 1 /\ \A p \in Procs : child[p] = "stopped"
         /\ status = "boot" => Rests /\ pending = {} /\ NoneActive /\ CurIdx = -1
<1> USE DEF StackInv
<1>1. PICK place \in S!Places : S!AtPlace(place[1], place[2])
  BY DEF S!TimeInv
<1> DEFINE at == place[1]
           pc == place[2]
<1>2. S!ControlOK(at, pc)
  BY <1>1 DEF S!AtPlace
<1> HIDE DEF at, pc
<1>3. /\ pending = (IF at = "pending" THEN {pc} ELSE {})
      /\ <<at, pc>> \in S!Places
      /\ \A p \in Procs : child[p] \in S!Active => at = "child" /\ p = CurIdx
      /\ \A p \in Procs : child[p] = "dead" => S!Closing
      /\ \A p \in Procs : S!Early(at, pc) => child[p] = "stopped"
      /\ at \in {"USR1", "USR2"} \/ (at = "pending" /\ pc # "ALRM") => CurIdx # -1
      /\ status = "boot" => at = "none" /\ CurIdx = -1
  BY <1>2, SameOps DEF S!ControlOK, S!ChildrenOK, S!StatusOK
<1>4. BarDepth \in Nat /\ BarDepth <= Depth /\ S!Depth = BarDepth /\ Depth \in Nat
      /\ (\A i \in 1..BarDepth : Bar[i] = Frame(i))
      /\ (~InMemory => BarDepth = Depth)
  BY BarIs, VFrameType
<1>5. ASSUME S!Closing PROVE Closing
  <2>1. BarDepth > 0 /\ Frame(1).pc \in {"rmid", "kill", "exit"}
    BY <1>4, <1>5 DEF S!Closing
  <2> QED
    BY <1>4, <2>1 DEF Frame, Plain, Closing, MemoryPoints
<1>6. Depth > 0 => Top = frames[Depth] /\ Top \in VHandlerPoints
  BY <1>4, VFrameType DEF Top
<1>7. \A p \in Procs : child[p] = "dead" => Closing
  BY <1>3, <1>5
<1>8. CASE InMemory
  <2>1. Top.pc \in MemoryPoints /\ Top.sig \in {"USR1", "USR2"}
    BY <1>6, <1>8 DEF InMemory, VHandlerPoints, HandlerPoints, MemoryPoints
  <2>2. ~Rests
    BY <1>6, <1>8, <2>1 DEF InMemory, Rests, Late1, LatePoints, MemoryPoints
  <2> QED
    BY <1>6, <1>7, <1>8, <2>1, <2>2 DEF MemoryOK, NoneActive, LatePoints, MemoryPoints
<1>9. CASE ~InMemory
  <2>1. Depth = BarDepth /\ \A i \in 1..Depth : Bar[i] = Frame(i)
    BY <1>4, <1>9
  <2>2. ASSUME Depth > 0, Bar[1] \in S!LateFrames PROVE Late1
    <3>1. Frame(1) \in S!LateFrames
      BY <1>4, <2>1, <2>2
    <3> QED
      BY <3>1 DEF S!LateFrames, Frame, Plain, Late1, LatePoints, MemoryPoints
  <2>3. CASE at \notin Signals
    <3>1. Depth \in {0, 1} /\ (Depth = 1 => Bar[1] \in S!LateFrames)
          /\ (S!Early(at, pc) => Depth = 0)
      BY <1>2, <1>4, <2>1, <2>3, SameOps DEF S!ControlOK, S!StackOK
    <3>2. Rests /\ (Depth = 1 => Late1)
      BY <2>2, <3>1 DEF Rests
    <3>3. Depth > 0 => Top.pc # "eintr"
      BY <3>1, <3>2 DEF Top, Late1, LatePoints
    <3>4. at = "pending" => pc \in Signals
      BY <1>3, SameOps DEF S!Places
    <3>5. NoneActive \/ at = "child"
      BY <1>3 DEF NoneActive
    <3> QED
      BY <1>3, <1>6, <1>7, <3>1, <3>2, <3>3, <3>4, <3>5 DEF S!Early, NoneActive, Rests
  <2>4. CASE at \in Signals
    <3>1. Depth \in {1, 2} /\ Bar[Depth] = [sig |-> at, pc |-> pc]
          /\ (Depth = 2 => Bar[1] \in S!LateFrames) /\ (at = "ALRM" => Depth = 1)
      BY <1>2, <1>4, <2>1, <2>4, SameOps DEF S!ControlOK, S!StackOK, S!Early
    <3>2. frames[Depth].sig = at /\ Plain(frames[Depth].pc) = pc
      <4>1. Frame(Depth) = [sig |-> at, pc |-> pc]
        BY <1>4, <2>1, <3>1
      <4>2. Frame(Depth).sig = at /\ Frame(Depth).pc = pc
        BY <4>1
      <4>3. Frame(Depth).sig = frames[Depth].sig /\ Frame(Depth).pc = Plain(frames[Depth].pc)
        BY DEF Frame
      <4> QED
        BY <4>2, <4>3
    <3>3. pc \notin {"timer", "rmid", "kill", "exit", "eintr"}
      BY <1>3, <2>4, SameOps DEF S!Places, Signals
    <3>4. Top = frames[Depth] /\ Top.sig = at /\ Top.pc \notin LatePoints \cup {"eintr"}
      BY <3>2, <3>3 DEF Top, Plain, LatePoints, MemoryPoints
    <3>5. ~Rests /\ (Depth = 2 => Late1)
      BY <1>4, <2>2, <3>1, <3>4 DEF Rests, Late1, Top
    <3>6. pending = {} /\ NoneActive
      BY <1>3, <2>4, SameOps DEF Signals, NoneActive
    <3>7. at = "ALRM" => \A p \in Procs : child[p] = "stopped"
      BY <1>3 DEF S!Early
    <3>8. at # "ALRM" => CurIdx # -1
      BY <1>3, <2>4, SameOps DEF Signals
    <3>9. status # "boot"
      BY <1>3, <2>4, SameOps DEF Signals
    <3> QED
      BY <1>6, <1>7, <3>1, <3>4, <3>5, <3>6, <3>7, <3>8, <3>9 DEF NoneActive
  <2> QED
    BY <2>3, <2>4
<1> QED
  BY <1>8, <1>9

-----------------------------------------------------------------------------
(* In time every step is one that Scheduler's parent and children could take,  *)
(* or one of the memory calls                                                  *)

Mapped == VFramesOK' /\ ([S!Next]_(S!vars) \/ S!RemoveStep \/ S!KillStep)

\* No handler, no handler.
LEMMA EmptyBar ==
  ASSUME VFramesOK, frames = <<>>
  PROVE  Bar = <<>> /\ ~InMemory
<1>1. Depth = 0 /\ ~InMemory
  BY DEF Depth, InMemory
<1>2. BarDepth = 0
  BY <1>1, BarIs
<1>3. Bar = [i \in 1..0 |-> Frame(i)] /\ 1..0 = {}
  BY <1>2, BarIs
<1> QED
  BY <1>1, <1>2, BarIs, EmptySeq

Others == MemoryPoints \cup {"rmid_memory"}

LEMMA Plains ==
  /\ \A pc : pc \notin Others => Plain(pc) = pc
  /\ Plain("rmid_memory") = "rmid"
BY DEF Others, Plain, MemoryPoints

\* The statements that both programs have.
LEMMA AtSame ==
  ASSUME StackInv, NEW sig, NEW pc, At(sig, pc), pc \notin Others
  PROVE  S!At(sig, pc) /\ ~InMemory
<1>1. S!At(sig, Plain(pc)) /\ ~InMemory
  BY BarAt DEF Others, StackInv
<1>2. Plain(pc) = pc
  BY Plains
<1> QED
  BY <1>1, <1>2

LEMMA GoesSame ==
  ASSUME StackInv, NEW sig, NEW pc, NEW next, At(sig, pc), pc \notin Others, Goto(next),
         next \notin Others, [sig |-> sig, pc |-> next] \in VHandlerPoints
  PROVE  VFramesOK' /\ S!At(sig, pc) /\ S!Goto(next) /\ ~InMemory'
<1>1. VFramesOK' /\ S!At(sig, Plain(pc)) /\ S!Goto(Plain(next)) /\ ~InMemory'
  BY BarGoes DEF Others, StackInv
<1>2. Plain(pc) = pc /\ Plain(next) = next
  BY Plains
<1> QED
  BY <1>1, <1>2

LEMMA ReturnsSame ==
  ASSUME StackInv, NEW sig, NEW pc, At(sig, pc), pc \notin Others, Return
  PROVE  VFramesOK' /\ S!At(sig, pc) /\ S!Return /\ ~InMemory'
<1>1. \A i \in 1..(Depth - 1) : frames[i].pc \notin MemoryPoints
  BY Where DEF Late1, LatePoints, MemoryPoints
<1>2. VFramesOK' /\ S!At(sig, Plain(pc)) /\ S!Return /\ ~InMemory'
  BY <1>1, BarReturns DEF Others, StackInv
<1>3. Plain(pc) = pc
  BY Plains
<1> QED
  BY <1>2, <1>3

\* The steps of both programs.
LEMMA ChildMapped ==
  ASSUME StackInv, NEW p \in Procs, VChildStep(p)
  PROVE  Mapped
<1>1. Bar' = Bar /\ VFramesOK'
  BY BarSame
     DEF StackInv, VChildStep, VChildStop, ChildStop, VChildBurst, ChildBurst, VChildSend,
                 ChildSend, VChildNotify, ChildNotify
<1>2. S!ChildStep(p)
  BY <1>1
     DEF VChildStep, S!ChildStep, VChildStop, ChildStop, S!ChildStop, VChildBurst, ChildBurst,
              S!ChildBurst, BurstLeft, S!BurstLeft, VChildSend, ChildSend, S!ChildSend, Sent,
              S!Sent,
              VChildNotify, ChildNotify, S!ChildNotify, Alive, S!Alive
<1> QED
  BY <1>1, <1>2, SameOps DEF Mapped, S!Next

LEMMA StartMapped ==
  ASSUME StackInv, VTick \/ VFork \/ VForkFails \/ VStartTimer
  PROVE  Mapped
<1>1. Bar' = Bar /\ VFramesOK'
  BY BarSame
     DEF StackInv, MemoryOK, VTick, Tick, VFork, Fork, VForkFails, ForkFails, VStartTimer,
                 StartTimer
<1>2. CASE VTick
  <2>1. Quiescent => S!Quiescent
    BY EmptyBar, SameOps DEF StackInv, Quiescent, S!Quiescent
  <2> QED
    BY <1>1, <1>2, <2>1 DEF VTick, Tick, S!Tick, Mapped, S!Next
<1>3. CASE VFork
  BY <1>1, <1>3, SameQueueOps DEF VFork, Fork, S!Fork, Mapped, S!Next, S!ParentStep
<1>4. CASE VForkFails
  BY <1>1, <1>4 DEF VForkFails, ForkFails, S!ForkFails, Mapped, S!Next, S!ParentStep
<1>5. CASE VStartTimer
  BY <1>1, <1>5, SameQueueOps
     DEF VStartTimer, StartTimer, S!StartTimer, Mapped, S!Next, S!ParentStep
<1> QED
  BY <1>2, <1>3, <1>4, <1>5

LEMMA DeliverMapped ==
  ASSUME StackInv, NEW sig \in Signals, VDeliver(sig)
  PROVE  /\ Mapped /\ Rests /\ ~InMemory'
         /\ frames' = Append(frames, [sig |-> sig, pc |-> Entry(sig)])
<1>1. Rests /\ (Depth > 0 => Top = frames[Depth])
  BY Where DEF VDeliver
<1>2. ~InMemory /\ (Depth > 0 => Top.pc # "asleep")
  BY <1>1 DEF Rests, Late1, LatePoints, InMemory, MemoryPoints
<1>3. VFramesOK' /\ S!Deliver(sig)
      /\ frames' = Append(frames, [sig |-> sig, pc |-> Entry(sig)]) /\ ~InMemory'
  BY <1>2, BarDelivers DEF StackInv
<1> QED
  BY <1>1, <1>3, SameOps DEF Mapped, S!Next, S!ParentStep

LEMMA StopMapped ==
  ASSUME StackInv, VSegfault \/ VInterrupted \/ VShutdownExit
  PROVE  Mapped /\ ~VInterrupted
<1>1. ~VInterrupted
  BY Where DEF VInterrupted, At
<1>2. Bar' = Bar /\ VFramesOK'
  BY BarSame DEF StackInv, VSegfault, VInterrupted, VShutdownExit, ShutdownExit
<1>3. CASE VSegfault
  <2>1. cur_ready = NULL /\ ~InMemory /\ Depth > 0 /\ Depth \in Nat
        /\ Top.pc \in {"receive", "requeue", "burst", "account", "cont"}
    BY <1>3, VFrameType DEF VSegfault, StackInv, MemoryOK, InMemory, MemoryPoints, CurIdx
  <2>2. S!Depth = Depth /\ S!Top = Frame(Depth)
    BY <2>1, BarIs DEF S!Top, StackInv
  <2>3. S!Top.pc = Top.pc
    <3>1. Plain(Top.pc) = Top.pc
      BY <2>1, Plains DEF Others, MemoryPoints
    <3> QED
      BY <2>2, <3>1 DEF Frame, Top
  <2> QED
    BY <1>1, <1>2, <1>3, <2>1, <2>2, <2>3
       DEF VSegfault, S!Segfault, Mapped, S!Next, S!ParentStep, S!HandlerStep
<1>4. CASE VShutdownExit
  <2>1. S!At("ALRM", "exit")
    BY <1>4, AtSame DEF VShutdownExit, ShutdownExit, Others, MemoryPoints
  <2> QED
    BY <1>1, <1>2, <1>4, <2>1
       DEF VShutdownExit, ShutdownExit, S!ShutdownExit, Mapped, S!Next, S!ParentStep,
           S!HandlerStep
<1> QED
  BY <1>1, <1>3, <1>4

LEMMA IoMapped ==
  ASSUME StackInv, VIoReceive \/ VIoSleep \/ VIoRequeue \/ VIoDispatch
  PROVE  Mapped
<1> USE DEF Others, MemoryPoints
<1>1. CASE VIoReceive
  <2>1. PICK pc \in {"receive", "asleep"} : At("USR2", pc)
    BY <1>1 DEF VIoReceive
  <2>2. S!At("USR2", pc)
    BY <2>1, AtSame
  <2>3. VFramesOK' /\ Top' = [sig |-> "USR2", pc |-> "memory"] /\ (~Leaves' => S!Goto("requeue"))
    BY <1>1, <2>1, BarEnters DEF VIoReceive, StackInv
  <2>4. S!Goto("requeue")
    BY <2>3 DEF Leaves
  <2> QED
    BY <1>1, <2>2, <2>3, <2>4, SameOps
       DEF VIoReceive, S!IoReceive, Received, S!Received, Mapped, S!Next, S!ParentStep,
           S!HandlerStep
<1>2. CASE VIoSleep
  <2>1. VFramesOK' /\ S!At("USR2", "receive") /\ S!Goto("asleep")
    BY <1>2, Points, GoesSame DEF VIoSleep, IoSleep
  <2> QED
    BY <1>2, <2>1, SameOps
       DEF VIoSleep, IoSleep, S!IoSleep, Mapped, S!Next, S!ParentStep, S!HandlerStep
<1>3. CASE VIoRequeue
  <2>1. VFramesOK' /\ S!At("USR2", "requeue") /\ S!Goto("dispatch")
    BY <1>3, Points, GoesSame DEF VIoRequeue, IoRequeue
  <2> QED
    BY <1>3, <2>1, SameQueueOps
       DEF VIoRequeue, IoRequeue, S!IoRequeue, Mapped, S!Next, S!ParentStep, S!HandlerStep
<1>4. CASE VIoDispatch
  <2>1. VFramesOK' /\ S!At("USR2", "dispatch") /\ S!Return
    BY <1>4, ReturnsSame DEF VIoDispatch, IoDispatch
  <2> QED
    BY <1>4, <2>1, SameQueueOps
       DEF VIoDispatch, IoDispatch, S!IoDispatch, Mapped, S!Next, S!ParentStep, S!HandlerStep
<1> QED
  BY <1>1, <1>2, <1>3, <1>4

LEMMA BurstMapped ==
  ASSUME StackInv, VBurstStep \/ VBurstRequeue \/ VBurstDispatch
  PROVE  Mapped
<1> USE DEF Others, MemoryPoints
<1>1. CASE VBurstStep
  <2>1. S!At("USR1", "burst")
    BY <1>1, AtSame DEF VBurstStep
  <2>2. /\ VFramesOK' /\ InMemory' /\ Top' = [sig |-> "USR1", pc |-> "memory"]
        /\ ~Leaves' => S!Goto("requeue")
        /\ Leaves' => S!Return
    BY <1>1, BarEnters DEF VBurstStep, StackInv
  <2>3. set_scheduler' = set_scheduler
    BY <1>1 DEF VBurstStep
  <2>4. Leaves' <=> ~S!Preempt(cur_ready'.cpu_burst, counter')
    BY <2>2, <2>3, SameOps DEF Leaves, Preempt, S!Preempt, RR
  <2> QED
    BY <1>1, <2>1, <2>2, <2>4, SameOps
       DEF VBurstStep, S!BurstStep, Mapped, S!Next, S!ParentStep, S!HandlerStep
<1>2. CASE VBurstRequeue
  <2>1. VFramesOK' /\ S!At("USR1", "requeue") /\ S!Goto("dispatch")
    BY <1>2, Points, GoesSame DEF VBurstRequeue, BurstRequeue
  <2> QED
    BY <1>2, <2>1, SameQueueOps
       DEF VBurstRequeue, BurstRequeue, S!BurstRequeue, Mapped, S!Next, S!ParentStep,
           S!HandlerStep
<1>3. CASE VBurstDispatch
  <2>1. VFramesOK' /\ S!At("USR1", "dispatch") /\ S!Return
    BY <1>3, ReturnsSame DEF VBurstDispatch, BurstDispatch
  <2> QED
    BY <1>3, <2>1, SameQueueOps, SameOps
       DEF VBurstDispatch, BurstDispatch, S!BurstDispatch, Mapped, S!Next, S!ParentStep,
           S!HandlerStep
<1> QED
  BY <1>1, <1>2, <1>3

\* The memory calls.
LEMMA MemoryMapped ==
  ASSUME StackInv, NEW sig \in {"USR1", "USR2"},
         MemoryReceive(sig) \/ MemorySleep(sig) \/ CallMMU(sig)
  PROVE  VFramesOK' /\ Bar' = Bar /\ UNCHANGED S!vars
<1> USE DEF MemoryPoints, StackInv
<1>1. CASE MemoryReceive(sig)
  <2>1. PICK pc \in {"memory", "memory_asleep"} : At(sig, pc)
    BY <1>1 DEF MemoryReceive
  <2>2. VFramesOK' /\ Bar' = Bar
    BY <1>1, <2>1, BarStands DEF MemoryReceive
  <2> QED
    BY <1>1, <2>2 DEF MemoryReceive, S!vars
<1>2. CASE MemorySleep(sig)
  <2>1. VFramesOK' /\ Bar' = Bar
    BY <1>2, BarStands DEF MemorySleep
  <2> QED
    BY <1>2, <2>1 DEF MemorySleep, S!vars
<1>3. CASE CallMMU(sig)
  <2>1. At(sig, "mmu") /\ Top.sig = sig /\ InMemory
        /\ UNCHANGED <<set_scheduler, cur_ready, counter>> /\ AfterMemory(sig)
    BY <1>3 DEF CallMMU, At, InMemory
  <2>2. CASE Leaves
    <3>1. Return
      BY <2>1, <2>2 DEF AfterMemory, Leaves
    <3>2. \A i \in 1..(Depth - 1) : frames[i].pc \notin MemoryPoints
      BY Where DEF Late1, LatePoints
    <3>3. VFramesOK' /\ Bar' = Bar
      BY <2>2, <3>1, <3>2, BarLeaves
    <3> QED
      BY <1>3, <3>3 DEF CallMMU, S!vars
  <2>3. CASE ~Leaves
    <3>1. Goto("requeue")
      BY <2>1, <2>3 DEF AfterMemory, Leaves
    <3>2. VFramesOK' /\ Bar' = Bar
      BY <2>1, <2>3, <3>1, BarStands
    <3> QED
      BY <1>3, <3>2 DEF CallMMU, S!vars
  <2> QED
    BY <2>2, <2>3
<1> QED
  BY <1>1, <1>2, <1>3

LEMMA CountMapped ==
  ASSUME StackInv, VCountAccount \/ VCountIo \/ VCountCont \/ VCountTimer \/ VShutdownStart
  PROVE  Mapped
<1> USE DEF Others, MemoryPoints
<1>1. CASE VCountAccount
  <2>1. VFramesOK' /\ S!At("ALRM", "account") /\ S!Goto("iowait")
    BY <1>1, Points, GoesSame DEF VCountAccount, CountAccount
  <2> QED
    BY <1>1, <2>1, SameOps
       DEF VCountAccount, CountAccount, S!CountAccount, Mapped, S!Next, S!ParentStep,
           S!HandlerStep
<1>2. CASE VCountIo
  <2>1. CASE CountIo
    <3>1. S!At("ALRM", "iowait") /\ ~InMemory
      BY <2>1, AtSame DEF CountIo
    <3>2. VFramesOK' /\ Bar' = Bar
      BY <2>1, <3>1, BarSame DEF CountIo, StackInv
    <3>3. \A pcb : IoOver(pcb) => S!IoOver(pcb)
      BY SameQueueOps, SameOps DEF IoOver, S!IoOver
    <3> QED
      BY <2>1, <3>1, <3>2, <3>3
         DEF CountIo, S!CountIo, Mapped, S!Next, S!ParentStep, S!HandlerStep
  <2>2. CASE CountIoDone
    <3>1. VFramesOK' /\ S!At("ALRM", "iowait") /\ S!Goto("cont")
      BY <2>2, Points, GoesSame DEF CountIoDone
    <3> QED
      BY <2>2, <3>1
         DEF CountIoDone, S!CountIoDone, Mapped, S!Next, S!ParentStep, S!HandlerStep
  <2> QED
    BY <1>2, <2>1, <2>2 DEF VCountIo
<1>3. CASE VCountCont
  <2>1. VFramesOK' /\ S!At("ALRM", "cont") /\ S!Goto("timer")
    BY <1>3, Points, GoesSame DEF VCountCont, CountCont
  <2> QED
    BY <1>3, <2>1
       DEF VCountCont, CountCont, S!CountCont, Mapped, S!Next, S!ParentStep, S!HandlerStep
<1>4. CASE VCountTimer
  <2>1. VFramesOK' /\ S!At("ALRM", "timer") /\ S!Return
    BY <1>4, ReturnsSame DEF VCountTimer, CountTimer
  <2> QED
    BY <1>4, <2>1
       DEF VCountTimer, CountTimer, S!CountTimer, Mapped, S!Next, S!ParentStep, S!HandlerStep
<1>5. CASE VShutdownStart
  <2>1. VFramesOK' /\ S!At("ALRM", "timer") /\ S!Goto("rmid")
    BY <1>5, Points, GoesSame DEF VShutdownStart, ShutdownStart
  <2> QED
    BY <1>5, <2>1
       DEF VShutdownStart, ShutdownStart, S!ShutdownStart, Mapped, S!Next, S!ParentStep,
           S!HandlerStep
<1> QED
  BY <1>1, <1>2, <1>3, <1>4, <1>5
\* The loops of the shutdown.
LEMMA NextQueueGoes ==
  ASSUME StackInv, NEW pc, NEW after, At("ALRM", pc), NextQueue(pc, after),
         <<pc, after>> \in {<<"rmid", "rmid_memory">>, <<"rmid_memory", "kill">>,
                            <<"kill", "exit">>}
  PROVE  /\ VFramesOK' /\ loop' \in Nat /\ ~InMemory'
         /\ S!At("ALRM", IF pc = "kill" THEN "kill" ELSE "rmid")
         /\ \E next \in {"rmid", "kill", "exit"} : S!Goto(next)
         /\ \E next \in {pc, after} : Goto(next)
<1>1. PICK next \in {pc, after} : Goto(next)
  BY DEF NextQueue
<1>2. loop' \in Nat
  BY DEF NextQueue, StackInv, S!TimeInv, S!IInv, S!TypeOK
<1>3. /\ pc \in {"rmid", "rmid_memory", "kill"}
      /\ next \in {"rmid", "rmid_memory", "kill", "exit"}
  BY <1>1
<1>4. [sig |-> "ALRM", pc |-> next] \in VHandlerPoints
  BY <1>3, Points
<1>5. VFramesOK' /\ S!At("ALRM", Plain(pc)) /\ S!Goto(Plain(next)) /\ ~InMemory'
  BY <1>1, <1>3, <1>4, BarGoes DEF MemoryPoints, StackInv
<1>6. Plain(pc) = (IF pc = "kill" THEN "kill" ELSE "rmid")
      /\ Plain(next) \in {"rmid", "kill", "exit"}
  BY <1>3 DEF Plain, MemoryPoints
<1> QED
  BY <1>1, <1>2, <1>5, <1>6

\* The shutdown, which here has three loops of one statement each.
LEMMA CloseMapped ==
  ASSUME StackInv, VShutdownRmid \/ VShutdownRmidMemory \/ VShutdownKill
  PROVE  Mapped
<1>1. CASE VShutdownRmid \/ VShutdownRmidMemory
  <2>1. /\ VFramesOK' /\ loop' \in Nat /\ S!At("ALRM", "rmid")
        /\ \E next \in {"rmid", "kill", "exit"} : S!Goto(next)
    BY <1>1, NextQueueGoes DEF VShutdownRmid, VShutdownRmidMemory
  <2>2. S!RemoveStep
    BY <1>1, <2>1 DEF VShutdownRmid, VShutdownRmidMemory, S!RemoveStep, S!CloseStep
  <2> QED
    BY <2>1, <2>2 DEF Mapped
<1>2. CASE VShutdownKill
  <2>1. /\ VFramesOK' /\ loop' \in Nat /\ S!At("ALRM", "kill")
        /\ \E next \in {"rmid", "kill", "exit"} : S!Goto(next)
    BY <1>2, NextQueueGoes DEF VShutdownKill
  <2>2. S!KillStep
    BY <1>2, <2>1 DEF VShutdownKill, S!KillStep, S!CloseStep
  <2> QED
    BY <2>1, <2>2 DEF Mapped
<1> QED
  BY <1>1, <1>2

\* Every step is one of Scheduler, one of the shutdown, or a stutter.
LEMMA NextMapped ==
  ASSUME StackInv, [VNext]_vmVars
  PROVE  Mapped
<1>1. ASSUME UNCHANGED vmVars PROVE Mapped
  <2>1. VFramesOK' /\ Bar' = Bar
    BY <1>1, BarSame DEF vmVars, vars, StackInv
  <2> QED
    BY <1>1, <2>1 DEF vmVars, vars, S!vars, Mapped
<1>2. ASSUME NEW sig \in {"USR1", "USR2"}, MemoryReceive(sig) \/ MemorySleep(sig) \/ CallMMU(sig)
      PROVE  Mapped
  BY <1>2, MemoryMapped DEF Mapped
<1> QED
  BY <1>1, <1>2, ChildMapped, StartMapped, DeliverMapped, StopMapped, IoMapped, BurstMapped,
     CountMapped, CloseMapped
     DEF VNext, VParentStep, VHandlerStep

\* What Scheduler promises of its stack, it promises of this one.
LEMMA NextPromised ==
  ASSUME InTime, StackInv, [VNext]_vmVars
  PROVE  VFramesOK' /\ S!TimeInv'
<1>1. Mapped /\ S!TimeInv
  BY NextMapped DEF StackInv
<1>2. [S!Next]_(S!vars) => S!TimeInv'
  BY <1>1, S!NextTimeInv, Constants
<1>3. S!RemoveStep \/ S!KillStep => S!TimeInv'
  BY <1>1, S!CloseTimeInv, Constants
<1> QED
  BY <1>1, <1>2, <1>3 DEF Mapped

-----------------------------------------------------------------------------
(* What is known of the memory calls *)

\* The other statements lead to no memory call.
LEMMA OutOfMemory ==
  ASSUME StackInv,
         \/ VIoSleep \/ VIoRequeue \/ VIoDispatch \/ VBurstRequeue \/ VBurstDispatch
         \/ VCountAccount \/ VCountIo \/ VCountCont \/ VCountTimer \/ VShutdownStart
         \/ VShutdownRmid \/ VShutdownRmidMemory \/ VShutdownKill \/ VShutdownExit
  PROVE  ~InMemory'
<1> USE DEF Others, MemoryPoints
<1>1. CASE VIoSleep \/ VIoRequeue \/ VBurstRequeue
  BY <1>1, Points, GoesSame
     DEF VIoSleep, IoSleep, VIoRequeue, IoRequeue, VBurstRequeue, BurstRequeue
<1>2. CASE VIoDispatch \/ VBurstDispatch \/ VCountTimer
  BY <1>2, ReturnsSame
     DEF VIoDispatch, IoDispatch, VBurstDispatch, BurstDispatch, VCountTimer, CountTimer
<1>3. CASE VCountAccount \/ CountIoDone \/ VCountCont \/ VShutdownStart
  BY <1>3, Points, GoesSame
     DEF VCountAccount, CountAccount, CountIoDone, VCountCont, CountCont, VShutdownStart,
         ShutdownStart
<1>4. CASE CountIo \/ VShutdownExit
  <2>1. ~InMemory /\ frames' = frames
    BY <1>4, AtSame DEF CountIo, VShutdownExit, ShutdownExit
  <2> QED
    BY <2>1 DEF InMemory, Top, Depth
<1>5. CASE VShutdownRmid \/ VShutdownRmidMemory \/ VShutdownKill
  BY <1>5, NextQueueGoes DEF VShutdownRmid, VShutdownRmidMemory, VShutdownKill
<1> QED
  BY <1>1, <1>2, <1>3, <1>4, <1>5 DEF VCountIo

\* A step into the memory calls: the process that is current stays.
LEMMA IntoMemory ==
  ASSUME StackInv, VIoReceive \/ VBurstStep
  PROVE  /\ CurIdx' = CurIdx /\ CurIdx # -1 /\ pending = {} /\ NoneActive
         /\ Depth' = Depth /\ Depth \in 1..2 /\ (Depth = 2 => Late1 /\ Late1')
         /\ InMemory' /\ Top'.pc = "memory" /\ Top.pc \in {"receive", "asleep", "burst"}
<1>0. Depth \in 0..2 /\ Depth > 0 /\ (Depth = 2 => Late1)
      /\ \E sig \in {"USR1", "USR2"}, pc \in {"receive", "asleep", "burst"} :
           At(sig, pc) /\ Goto("memory")
  BY Where DEF VIoReceive, VBurstStep, At
<1>1. PICK sig \in {"USR1", "USR2"}, pc \in {"receive", "asleep", "burst"} :
        At(sig, pc) /\ Goto("memory")
  BY <1>0
<1>2. /\ InMemory' /\ Depth' = Depth /\ Top' = [sig |-> sig, pc |-> "memory"]
      /\ \A i \in 1..(Depth - 1) : frames'[i] = frames[i]
  BY <1>1, BarEnters DEF MemoryPoints, StackInv
<1>3. ~Rests /\ Top.sig # "ALRM"
  BY <1>0, <1>1, Where DEF At, Rests, Late1, LatePoints
<1>4. CurIdx # -1 /\ pending = {} /\ NoneActive
  BY <1>3, Where
<1>5. cur_ready \in Pcb /\ mq \in [Procs -> Seq(Message)]
  BY <1>4 DEF StackInv, S!TimeInv, S!IInv, S!TypeOK, S!Pcb, Pcb, S!Procs, Procs, S!Message,
              Message, CurIdx
<1>6. cur_ready' \in Pcb /\ cur_ready'.idx = cur_ready.idx
  <2>1. CASE VBurstStep
    <3>1. cur_ready' = [cur_ready EXCEPT !.cpu_burst = @ - 1]
      BY <2>1 DEF VBurstStep
    <3>2. cur_ready.cpu_burst - 1 \in Int
      BY <1>5 DEF Pcb
    <3> QED
      BY <1>5, <3>1, <3>2 DEF Pcb
  <2>2. CASE VIoReceive
    <3>1. cur_ready.idx \in Procs /\ mq[cur_ready.idx] \in Seq(Message)
          /\ mq[cur_ready.idx] # <<>>
      BY <1>4, <1>5, <2>2 DEF VIoReceive, Inbox, Pcb, CurIdx
    <3>2. Head(mq[cur_ready.idx]) \in Message
      BY <3>1, HeadTailProperties
    <3>3. cur_ready' = Received(cur_ready, Head(mq[cur_ready.idx]))
      BY <2>2, <1>4 DEF VIoReceive, Inbox, CurIdx
    <3> QED
      BY <1>5, <3>2, <3>3 DEF Received, Pcb, Message
  <2> QED
    BY <2>1, <2>2
<1>7. CurIdx' = CurIdx
  BY <1>5, <1>6, NullAssumption DEF CurIdx
<1> QED
  BY <1>0, <1>1, <1>2, <1>4, <1>7 DEF Late1, At

\* The process whose addresses are received stays current until MMU has returned.
LEMMA NextMemoryOK ==
  ASSUME InTime, StackInv, [VNext]_vmVars
  PROVE  MemoryOK'
<1>0. VFramesOK /\ MemoryOK /\ S!TimeInv
  BY DEF StackInv
<1> SUFFICES ASSUME InMemory'
             PROVE  /\ status' # "boot" /\ pending' = {} /\ CurIdx' # -1 /\ NoneActive'
                    /\ Depth' \in 1..2 /\ (Depth' = 2 => Late1')
  BY DEF MemoryOK
<1>1. ASSUME frames' = frames, status # "boot" => status' # "boot",
             status # "boot" => cur_ready' = cur_ready,
             pending' = pending, NoneActive => NoneActive'
      PROVE  /\ status' # "boot" /\ pending' = {} /\ CurIdx' # -1 /\ NoneActive'
             /\ Depth' \in 1..2 /\ (Depth' = 2 => Late1')
  BY <1>0, <1>1 DEF MemoryOK, InMemory, Top, Depth, Late1, CurIdx
<1>2. CASE UNCHANGED vmVars
  BY <1>1, <1>2 DEF vmVars, vars, NoneActive, S!Active, Procs
<1>3. CASE VTick
  BY <1>0, <1>3, EmptyBar DEF VTick, Tick, Quiescent, InMemory, Top, Depth
<1>4. CASE VFork \/ VForkFails \/ VStartTimer
  BY <1>0, <1>4
     DEF VFork, Fork, VForkFails, ForkFails, VStartTimer, StartTimer, MemoryOK, InMemory,
                    Top, Depth
<1>5. ASSUME NEW p \in Procs, VChildStep(p)
      PROVE  /\ status' # "boot" /\ pending' = {} /\ CurIdx' # -1 /\ NoneActive'
             /\ Depth' \in 1..2 /\ (Depth' = 2 => Late1')
  <2>1. frames' = frames /\ status' = status /\ cur_ready' = cur_ready
    BY <1>5
       DEF VChildStep, VChildStop, ChildStop, VChildBurst, ChildBurst, VChildSend, ChildSend,
                VChildNotify, ChildNotify
  <2>2. NoneActive
    BY <1>0, <2>1 DEF MemoryOK, InMemory, Top, Depth
  <2>3. ChildStop(p)
    BY <1>5, <2>2 DEF NoneActive, S!Active, VChildStep, VChildStop, VChildBurst, ChildBurst,
                      VChildSend, ChildSend, VChildNotify, ChildNotify
  <2>4. NoneActive' /\ pending' = pending
    BY <2>2, <2>3 DEF ChildStop, NoneActive, S!Active, Procs
  <2> QED
    BY <1>1, <2>1, <2>4
<1>6. ASSUME NEW sig \in Signals, VDeliver(sig) PROVE FALSE
  BY <1>6, DeliverMapped
<1>7. CASE VSegfault \/ VInterrupted
  BY <1>1, <1>7 DEF VSegfault, VInterrupted, NoneActive
<1>8. CASE VIoReceive \/ VBurstStep
  <2>1. UNCHANGED <<status, child, pending>> /\ status = "running"
    BY <1>8 DEF VIoReceive, VBurstStep, At
  <2>2. NoneActive'
    BY <1>8, <2>1, IntoMemory DEF NoneActive, S!Active, Procs
  <2> QED
    BY <1>8, <2>1, <2>2, IntoMemory
<1>9. ASSUME NEW sig \in {"USR1", "USR2"}, MemoryReceive(sig) \/ MemorySleep(sig) \/ CallMMU(sig)
      PROVE  /\ status' # "boot" /\ pending' = {} /\ CurIdx' # -1 /\ NoneActive'
             /\ Depth' \in 1..2 /\ (Depth' = 2 => Late1')
  <2>1. UNCHANGED <<status, child, pending, cur_ready>>
    BY <1>9 DEF MemoryReceive, MemorySleep, CallMMU
  <2>2. InMemory
    BY <1>9 DEF MemoryReceive, MemorySleep, CallMMU, At, InMemory, MemoryPoints
  <2>3. Depth' = Depth /\ \A i \in 1..(Depth - 1) : frames'[i] = frames[i]
    <3>1. CASE MemoryReceive(sig) \/ MemorySleep(sig)
      <4>1. PICK pc \in MemoryPoints, next \in MemoryPoints : At(sig, pc) /\ Goto(next)
        BY <3>1 DEF MemoryReceive, MemorySleep, MemoryPoints
      <4>2. [sig |-> sig, pc |-> next] \in VHandlerPoints
        BY Points DEF MemoryPoints
      <4> QED
        BY <1>0, <4>1, <4>2, VGotoFrames
    <3>2. CASE CallMMU(sig)
      <4>1. At(sig, "mmu") /\ (Goto("requeue") \/ Return)
        BY <3>2 DEF CallMMU, AfterMemory
      <4>2. CASE Goto("requeue")
        BY <1>0, <4>1, <4>2, VGotoFrames, Points
      <4>3. CASE Return
        <5>1. Depth' = Depth - 1 /\ \A i \in 1..(Depth - 1) : frames'[i] = frames[i]
          BY <1>0, <2>2, <4>3, VReturnFrames DEF InMemory
        <5>2. Top' = frames[Depth - 1] /\ Depth = 2 /\ Late1
          BY <1>0, <2>2, <5>1 DEF Top, InMemory, MemoryOK
        <5> QED
          BY <5>2 DEF InMemory, Late1, LatePoints, MemoryPoints
      <4> QED
        BY <4>1, <4>2, <4>3
    <3> QED
      BY <1>9, <3>1, <3>2
  <2> QED
    BY <1>0, <2>1, <2>2, <2>3 DEF MemoryOK, Late1, CurIdx, NoneActive
<1> QED
  BY <1>2, <1>3, <1>4, <1>5, <1>6, <1>7, <1>8, <1>9, OutOfMemory
     DEF VNext, VParentStep, VHandlerStep

\* No handler runs before the timer is armed.
LEMMA NextBootOK ==
  ASSUME StackInv, [VNext]_vmVars
  PROVE  BootOK'
<1> SUFFICES ASSUME status' = "boot"
             PROVE  status = "boot" /\ frames' = frames
  BY DEF BootOK, StackInv
<1>1. ASSUME NEW sig, NEW pc, At(sig, pc), status' = status PROVE FALSE
  BY <1>1 DEF At
<1>2. CASE VTick \/ VFork \/ VForkFails \/ VStartTimer \/ UNCHANGED vmVars
  BY <1>2
     DEF VTick, Tick, VFork, Fork, VForkFails, ForkFails, VStartTimer, StartTimer, vmVars, vars
<1>3. ASSUME NEW p \in Procs, VChildStep(p) PROVE status = "boot" /\ frames' = frames
  BY <1>3 DEF VChildStep, VChildStop, ChildStop, VChildBurst, ChildBurst, VChildSend, ChildSend,
              VChildNotify, ChildNotify
<1>4. ASSUME NEW sig \in Signals, VDeliver(sig) PROVE FALSE
  BY <1>4 DEF VDeliver
<1>5. ASSUME NEW sig \in {"USR1", "USR2"}, MemoryReceive(sig) \/ MemorySleep(sig) \/ CallMMU(sig)
      PROVE  FALSE
  BY <1>1, <1>5 DEF MemoryReceive, MemorySleep, CallMMU
<1>6. CASE \/ VSegfault \/ VInterrupted \/ VIoReceive \/ VIoSleep \/ VIoRequeue \/ VIoDispatch
           \/ VBurstStep \/ VBurstRequeue \/ VBurstDispatch
  BY <1>1, <1>6
     DEF VSegfault, VInterrupted, VIoReceive, VIoSleep, IoSleep, VIoRequeue, IoRequeue,
         VIoDispatch,
         IoDispatch, VBurstStep, VBurstRequeue, BurstRequeue, VBurstDispatch, BurstDispatch
<1>7. CASE \/ VCountAccount \/ VCountIo \/ VCountCont \/ VCountTimer \/ VShutdownStart
           \/ VShutdownRmid \/ VShutdownRmidMemory \/ VShutdownKill \/ VShutdownExit
  BY <1>1, <1>7
     DEF VCountAccount, CountAccount, VCountIo, CountIo, CountIoDone, VCountCont, CountCont,
         VCountTimer, CountTimer, VShutdownStart, ShutdownStart, VShutdownRmid,
         VShutdownRmidMemory, VShutdownKill, VShutdownExit, ShutdownExit
<1> QED
  BY <1>2, <1>3, <1>4, <1>5, <1>6, <1>7 DEF VNext, VParentStep, VHandlerStep

\* The stack and the place of the work are kept in every step.
LEMMA NextStackInv ==
  ASSUME InTime, StackInv, [VNext]_vmVars
  PROVE  StackInv'
BY NextPromised, NextMemoryOK, NextBootOK DEF StackInv

-----------------------------------------------------------------------------
(* Batches of addresses *)

\* A batch of the current process waits in its queue, or will when the child's signal
\* comes; and the handler of that signal has taken it.
Asking ==
  \/ \E p \in Procs : child[p] \in {"send", "usr1", "usr2"}
  \/ pending \cap {"USR1", "USR2"} # {}
  \/ Depth > 0 /\ Top.pc \in {"burst", "receive", "asleep", "memory", "memory_asleep"}

Taken == Depth > 0 /\ Top.pc = "mmu"

Working == Asking \/ Taken \/ \E p \in Procs : child[p] = "run"

\* In the shutdown, after the calls of the last tick; then MMU does nothing more.
Counting == Depth > 0 /\ frames[1].sig = "ALRM"
Over == run_time = 0 /\ flag /\ Counting

\* All but the last n batches of p have been performed, unless the time is over.
Agree(p, n) == sent[p] = done[p] + n \/ Over

Batch(p) == <<p, sent[p]>>

BatchOf(p) ==
  /\ vq[p] \in {<<>>, <<Batch(p)>>}
  /\ (sent[p] + c_cpu[p]) % cpu_burst[p] = 0
  /\ \/ p = CurIdx /\ (Asking \/ Taken)
     \/ child[p] = "dead"
     \/ Agree(p, 0) /\ vq[p] = <<>>

AskedFor == Agree(CurIdx, 1) /\ (vq[CurIdx] # <<>> \/ Closing)
TakenFor == Agree(CurIdx, 1) /\ vq[CurIdx] = <<>> /\ va_arr[Top.sig] = Batch(CurIdx)

BatchesOK ==
  /\ \A p \in Procs : BatchOf(p)
  /\ Asking => AskedFor
  /\ Taken => TakenFor
  /\ flag => run_time = 0 /\ (Working => Counting)

BatchType ==
  /\ sent \in [Procs -> Nat] /\ done \in [Procs -> Nat] /\ flag \in BOOLEAN
  /\ \E R : vq \in [Procs -> R]
  /\ \E R : va_arr \in [Signals -> R]

\* The inductive invariant.
BatchInv == StackInv /\ BatchType /\ BatchesOK /\ ServedInOwnName

\* A step of the handler on top.
LEMMA GoesOn ==
  ASSUME StackInv, NEW sig, NEW pc, NEW next, At(sig, pc), Goto(next),
         [sig |-> sig, pc |-> next] \in VHandlerPoints
  PROVE  /\ Depth' = Depth /\ Depth \in 1..2
         /\ Top = [sig |-> sig, pc |-> pc] /\ Top' = [sig |-> sig, pc |-> next]
         /\ Depth = 2 => frames'[1] = frames[1] /\ Late1
         /\ Depth = 1 => frames[1] = Top /\ frames'[1] = Top'
         /\ Counting' <=> Counting
<1>1. /\ Depth' = Depth /\ frames'[Depth] = [sig |-> sig, pc |-> next]
      /\ \A i \in 1..(Depth - 1) : frames'[i] = frames[i]
  BY VGotoFrames DEF StackInv
<1>2. Depth \in 0..2 /\ Depth > 0 /\ Top = [sig |-> sig, pc |-> pc] /\ (Depth = 2 => Late1)
  BY Where DEF At
<1>3. Top' = [sig |-> sig, pc |-> next]
  BY <1>1 DEF Top
<1>4. Depth = 1 => frames[1] = Top /\ frames'[1] = Top'
  BY <1>1 DEF Top
<1>5. Depth = 2 => frames'[1] = frames[1]
  BY <1>1, <1>2
<1>6. frames'[1].sig = frames[1].sig
  BY <1>2, <1>3, <1>4, <1>5
<1> QED
  BY <1>1, <1>2, <1>3, <1>4, <1>5, <1>6 DEF Counting

\* Its return.
LEMMA ComesBack ==
  ASSUME StackInv, NEW sig, NEW pc, At(sig, pc), Return
  PROVE  /\ Depth' = Depth - 1 /\ Depth \in 1..2 /\ Top = [sig |-> sig, pc |-> pc]
         /\ Depth = 2 => frames'[1] = frames[1] /\ Top' = frames[1] /\ Late1 /\ sig # "ALRM"
         /\ Depth = 1 => frames[1] = Top
<1>1. Depth \in 0..2 /\ Depth > 0 /\ Top = [sig |-> sig, pc |-> pc]
      /\ (Depth = 2 => Late1 /\ Top.sig # "ALRM")
  BY Where DEF At
<1>2. Depth' = Depth - 1 /\ \A i \in 1..(Depth - 1) : frames'[i] = frames[i]
  BY <1>1, VReturnFrames DEF StackInv
<1>3. Depth = 2 => frames'[1] = frames[1] /\ Top' = frames[1]
  BY <1>2 DEF Top
<1>4. Depth = 1 => frames[1] = Top
  BY DEF Top
<1> QED
  BY <1>1, <1>2, <1>3, <1>4

\* A step that has nothing to do with the batches.
Steady ==
  /\ UNCHANGED <<vq, sent, va_arr, flag, done, c_cpu, cpu_burst>>
  /\ Asking' => Asking
  /\ Asking => Asking' \/ child'[CurIdx] = "dead"
  /\ Taken' <=> Taken
  /\ Taken => Top' = Top
  /\ Asking \/ Taken => CurIdx' = CurIdx
  /\ \A p \in Procs : child[p] = "dead" => child'[p] = "dead"
  /\ Closing => Closing'
  /\ flag => run_time' = run_time /\ (Counting => Counting') /\ (Working' => Working \/ Counting')

\* Such a step keeps the batches.
LEMMA BatchesStay ==
  ASSUME BatchesOK, Steady
  PROVE  BatchesOK'
<1>1. \A p \in Procs, n \in {0, 1} : Agree(p, n) => Agree(p, n)'
  BY DEF BatchesOK, Steady, Agree, Over
<1>2. ASSUME NEW p \in Procs PROVE BatchOf(p)'
  <2>1. BatchOf(p)
    BY DEF BatchesOK
  <2>2. vq'[p] \in {<<>>, <<Batch(p)'>>} /\ ((sent[p] + c_cpu[p]) % cpu_burst[p] = 0)'
    BY <2>1 DEF BatchOf, Batch, Steady
  <2>3. CASE p = CurIdx /\ (Asking \/ Taken)
    BY <2>2, <2>3 DEF BatchOf, Steady
  <2>4. CASE child[p] = "dead"
    BY <2>2, <2>4 DEF BatchOf, Steady
  <2>5. CASE Agree(p, 0) /\ vq[p] = <<>>
    BY <1>1, <2>2, <2>5 DEF BatchOf, Steady
  <2> QED
    BY <2>1, <2>3, <2>4, <2>5 DEF BatchOf
<1>3. ASSUME Asking' PROVE AskedFor'
  <2>1. AskedFor /\ CurIdx' = CurIdx
    BY <1>3 DEF Steady, BatchesOK
  <2> QED
    BY <2>1 DEF AskedFor, Agree, Over, Steady, BatchesOK
<1>4. ASSUME Taken' PROVE TakenFor'
  <2>1. TakenFor /\ CurIdx' = CurIdx /\ Top' = Top
    BY <1>4 DEF Steady, BatchesOK
  <2> QED
    BY <2>1 DEF TakenFor, Agree, Over, Steady, BatchesOK, Batch
<1>5. flag' => run_time' = 0 /\ (Working' => Counting')
  BY DEF Steady, BatchesOK
<1> QED
  BY <1>2, <1>3, <1>4, <1>5 DEF BatchesOK

AskPoints == {"burst", "receive", "asleep", "memory", "memory_asleep"}
ClosePoints == {"rmid", "rmid_memory", "kill", "exit"}

\* The variables that hold the batches.
Batches == <<vq, sent, va_arr, flag, done, served, c_cpu, cpu_burst>>

\* What a step does to the children besides: it kills them, or signal_count continues
\* one.
ChildrenTurn(sig) ==
  \A p \in Procs :
    \/ child'[p] = child[p]
    \/ child'[p] = "dead"
    \/ child[p] = "stopped" /\ child'[p] = "run" /\ sig = "ALRM"

LEMMA SteadyGoes ==
  ASSUME StackInv, NEW sig, NEW pc, NEW next, At(sig, pc), Goto(next),
         [sig |-> sig, pc |-> next] \in VHandlerPoints,
         UNCHANGED Batches, UNCHANGED <<run_time, pending>>, CurIdx' = CurIdx,
         pc \in AskPoints <=> next \in AskPoints, pc # "mmu", next # "mmu",
         pc \in ClosePoints => next \in ClosePoints,
         ChildrenTurn(sig)
  PROVE  Steady
<1>1. /\ Depth' = Depth /\ Depth \in 1..2
      /\ Top = [sig |-> sig, pc |-> pc] /\ Top' = [sig |-> sig, pc |-> next]
      /\ Depth = 2 => frames'[1] = frames[1] /\ Late1
      /\ Depth = 1 => frames[1] = Top /\ frames'[1] = Top'
      /\ Counting' <=> Counting
  BY GoesOn
<1>2. ~Taken /\ ~Taken'
  BY <1>1 DEF Taken
<1>3. Closing => Closing'
  BY <1>1 DEF Closing, ClosePoints
<1>4. Asking' => Asking
  BY <1>1 DEF Asking, AskPoints, ChildrenTurn
<1>5. ASSUME Asking PROVE Asking' \/ child'[CurIdx] = "dead"
  <2>1. CASE pending \cap {"USR1", "USR2"} # {} \/ pc \in AskPoints
    BY <1>1, <2>1 DEF Asking, AskPoints
  <2>2. ASSUME NEW p \in Procs, child[p] \in {"send", "usr1", "usr2"}
        PROVE  Asking' \/ child'[CurIdx] = "dead"
    <3>1. p = CurIdx
      BY <2>2, Where DEF S!Active
    <3>2. child'[p] = child[p] \/ child'[p] = "dead"
      BY <2>2 DEF ChildrenTurn
    <3> QED
      BY <2>2, <3>1, <3>2 DEF Asking
  <2> QED
    BY <1>1, <1>5, <2>1, <2>2 DEF Asking, AskPoints
<1>6. \A p \in Procs : child[p] = "dead" => child'[p] = "dead"
  BY DEF ChildrenTurn
<1>7. sig = "ALRM" => Counting
  BY <1>1 DEF Counting, Late1
<1>8. Working' => Working \/ Counting'
  BY <1>1, <1>2, <1>4, <1>7 DEF Working, ChildrenTurn
<1> QED
  BY <1>1, <1>2, <1>3, <1>4, <1>5, <1>6, <1>8 DEF Steady, Batches

\* A step that leaves the stack alone, and the batches.
LEMMA SteadyStands ==
  ASSUME StackInv, frames' = frames, UNCHANGED Batches, run_time' = run_time,
         Asking' <=> Asking, Working' => Working, Asking \/ Taken => CurIdx' = CurIdx,
         \A p \in Procs : child[p] = "dead" => child'[p] = "dead"
  PROVE  Steady
<1>1. Depth' = Depth /\ Top' = Top
  BY DEF Depth, Top
<1>2. (Taken' <=> Taken) /\ (Closing' <=> Closing) /\ (Counting' <=> Counting)
  BY <1>1 DEF Taken, Closing, Counting
<1> QED
  BY <1>1, <1>2 DEF Steady, Batches

LEMMA SteadyStart ==
  ASSUME StackInv, \/ VTick \/ VFork \/ VForkFails \/ VStartTimer \/ VSegfault \/ VShutdownExit
                   \/ UNCHANGED vmVars
  PROVE  Steady /\ served' = served
<1>1. /\ frames' = frames /\ UNCHANGED Batches /\ run_time' = run_time
      /\ Depth' = Depth /\ Top' = Top
  BY DEF VTick, Tick, VFork, Fork, VForkFails, ForkFails, VStartTimer, StartTimer, VSegfault,
         VShutdownExit, ShutdownExit, vmVars, vars, memoryVars, Batches, Depth, Top
<1>2. CASE VFork
  <2>1. Depth = 0 /\ ~Asking /\ ~Working
    <3>1. Depth = 0 /\ pending = {} /\ NoneActive
      BY <1>2, Where DEF StackInv, BootOK, VFork, Fork, Depth
    <3> QED
      BY <3>1 DEF NoneActive, S!Active, Asking, Working, Taken
  <2>2. \A p \in Procs : child[p] # "dead"
    BY <2>1, Where DEF Closing
  <2>3. ~Asking' /\ ~Working'
    <3>1. pending' = pending /\ \A p \in Procs : child'[p] = child[p] \/ child'[p] = "start"
      BY <1>2 DEF VFork, Fork
    <3> QED
      BY <1>1, <2>1, <3>1 DEF Asking, Working, Taken
  <2> QED
    BY <1>1, <2>1, <2>2, <2>3, SteadyStands DEF Batches, Working
<1>3. CASE VTick
  <2>1. child' = child /\ pending' = pending \cup {"ALRM"} /\ cur_ready' = cur_ready
    BY <1>3 DEF VTick, Tick
  <2>2. (Asking' <=> Asking) /\ (Working' <=> Working)
    BY <1>1, <2>1 DEF Asking, Working, Taken
  <2> QED
    BY <1>1, <2>1, <2>2, SteadyStands DEF Batches, CurIdx
<1>4. CASE VForkFails \/ VSegfault \/ VShutdownExit \/ UNCHANGED vmVars
  <2>1. UNCHANGED <<child, pending, cur_ready>>
    BY <1>4 DEF VForkFails, ForkFails, VSegfault, VShutdownExit, ShutdownExit, vmVars, vars
  <2>2. (Asking' <=> Asking) /\ (Working' <=> Working)
    BY <1>1, <2>1 DEF Asking, Working, Taken
  <2> QED
    BY <1>1, <2>1, <2>2, SteadyStands DEF Batches, CurIdx
<1>5. CASE VStartTimer
  <2>1. UNCHANGED <<child, pending>> /\ Depth = 0 /\ pending = {} /\ NoneActive
    BY <1>5, Where DEF StackInv, BootOK, VStartTimer, StartTimer, Depth
  <2>2. (Asking' <=> Asking) /\ (Working' <=> Working) /\ ~Asking /\ ~Taken
    BY <1>1, <2>1 DEF Asking, Working, Taken, NoneActive, S!Active
  <2> QED
    BY <1>1, <2>1, <2>2, SteadyStands DEF Batches
<1> QED
  BY <1>2, <1>3, <1>4, <1>5

LEMMA SteadyChild ==
  ASSUME StackInv, NEW p \in Procs, VChildStop(p) \/ VChildSend(p) \/ VChildNotify(p)
  PROVE  Steady /\ served' = served
<1>0. child \in [Procs -> Positions]
  BY SameOps DEF StackInv, S!TimeInv, S!IInv, S!TypeOK, S!Positions, Positions
<1>1. frames' = frames /\ UNCHANGED Batches /\ UNCHANGED <<run_time, cur_ready>>
      /\ Depth' = Depth /\ Top' = Top
  BY DEF VChildStop, ChildStop, VChildSend, ChildSend, VChildNotify, ChildNotify, memoryVars,
         Batches, Depth, Top
<1>2. CASE VChildStop(p)
  <2>1. /\ pending' = pending /\ child[p] \in {"start", "stop"}
        /\ child' = [child EXCEPT ![p] = "stopped"]
    BY <1>2 DEF VChildStop, ChildStop
  <2>2. (Asking' <=> Asking) /\ (Working' <=> Working)
    BY <1>0, <1>1, <2>1 DEF Asking, Working, Taken
  <2> QED
    BY <1>0, <1>1, <2>1, <2>2, SteadyStands DEF Batches, CurIdx
<1>3. CASE VChildSend(p)
  <2>1. pending' = pending /\ child[p] = "send" /\ child' = [child EXCEPT ![p] = "usr2"]
    BY <1>3 DEF VChildSend, ChildSend
  <2>2. Asking /\ Asking' /\ Working
    BY <1>0, <2>1 DEF Asking, Working
  <2> QED
    BY <1>0, <1>1, <2>1, <2>2, SteadyStands DEF Batches, CurIdx
<1>4. CASE VChildNotify(p)
  <2>1. /\ child[p] \in {"usr1", "usr2"} /\ child' = [child EXCEPT ![p] = "stop"]
        /\ pending' = pending \cup {IF child[p] = "usr1" THEN "USR1" ELSE "USR2"}
    BY <1>4 DEF VChildNotify, ChildNotify
  <2>2. Asking /\ Asking' /\ Working
    BY <2>1 DEF Asking, Working
  <2> QED
    BY <1>0, <1>1, <2>1, <2>2, SteadyStands DEF Batches, CurIdx
<1> QED
  BY <1>2, <1>3, <1>4

LEMMA SteadyDeliver ==
  ASSUME StackInv, NEW sig \in Signals, VDeliver(sig)
  PROVE  Steady /\ served' = served
<1>1. /\ Depth \in 0..1 /\ Rests /\ NoneActive /\ pending = {sig}
      /\ IF sig = "ALRM" THEN Depth = 0 ELSE CurIdx # -1
  <2>1. sig \in pending
    BY DEF VDeliver
  <2>2. /\ pending = {sig} /\ Rests /\ NoneActive
        /\ IF sig = "ALRM" THEN Depth = 0 ELSE CurIdx # -1
    BY <2>1, Where
  <2>3. Depth \in 0..1
    BY <2>2 DEF Rests
  <2> QED
    BY <2>2, <2>3
<1>2. frames' = Append(frames, [sig |-> sig, pc |-> Entry(sig)])
  BY DeliverMapped
<1>3. /\ Depth' = Depth + 1 /\ frames'[Depth + 1] = [sig |-> sig, pc |-> Entry(sig)]
      /\ \A i \in 1..Depth : frames'[i] = frames[i]
  BY <1>2, AppendProperties DEF Depth, StackInv, VFramesOK
<1>4. Top' = [sig |-> sig, pc |-> Entry(sig)]
  BY <1>3 DEF Top
<1>5. Depth = 1 => frames'[1] = frames[1] /\ Top = frames[1] /\ Late1
  BY <1>1, <1>3 DEF Rests, Top
<1>6. UNCHANGED Batches /\ UNCHANGED <<run_time, cur_ready, child, served>>
      /\ pending' = {}
  BY <1>1 DEF VDeliver, Batches, memoryVars
<1>7. ~Taken /\ ~Taken'
  BY <1>1, <1>3, <1>4, <1>5 DEF Taken, Entry, Late1, LatePoints
<1>8. (Asking <=> sig # "ALRM") /\ (Asking' <=> sig # "ALRM")
  <2>1. \A p \in Procs : child[p] \notin {"send", "usr1", "usr2"}
    BY <1>1 DEF NoneActive, S!Active
  <2>2. Depth > 0 => Top.pc \in LatePoints
    BY <1>1, <1>5 DEF Late1
  <2>3. Asking <=> sig # "ALRM"
    BY <1>1, <2>1, <2>2 DEF Asking, LatePoints, Signals
  <2>4. Depth' > 0 /\ Top'.pc = Entry(sig)
    BY <1>1, <1>3, <1>4
  <2>5. Asking' <=> sig # "ALRM"
    BY <1>6, <2>1, <2>4 DEF Asking, Entry, Signals
  <2> QED
    BY <2>3, <2>5
<1>9. (Closing => Closing') /\ (Counting => Counting')
  BY <1>1, <1>3, <1>5 DEF Closing, Counting
<1>10. Working' => Working
  BY <1>6, <1>7, <1>8 DEF Working
<1> QED
  BY <1>6, <1>7, <1>8, <1>9, <1>10 DEF Steady, Batches, CurIdx

LEMMA SteadyReturns ==
  ASSUME StackInv, BatchesOK, VIoDispatch \/ VBurstDispatch \/ VCountTimer
  PROVE  Steady /\ served' = served
<1>0. UNCHANGED Batches /\ UNCHANGED <<child, pending, served>>
  BY DEF VIoDispatch, IoDispatch, VBurstDispatch, BurstDispatch, VCountTimer, CountTimer,
  Batches,
         memoryVars
<1>1. CASE VIoDispatch \/ VBurstDispatch
  <2>1. PICK sig \in {"USR1", "USR2"} : At(sig, "dispatch") /\ Return
    BY <1>1 DEF VIoDispatch, IoDispatch, VBurstDispatch, BurstDispatch
  <2>2. /\ Depth' = Depth - 1 /\ Depth \in 1..2 /\ Top = [sig |-> sig, pc |-> "dispatch"]
        /\ Depth = 2 => frames'[1] = frames[1] /\ Top' = frames[1] /\ Late1
        /\ Depth = 1 => frames[1] = Top
    BY <2>1, ComesBack
  <2>3. pending = {} /\ NoneActive
    BY <2>2, Where DEF Rests, Late1, LatePoints
  <2>4. ~Asking /\ ~Asking' /\ ~Taken /\ ~Taken'
    BY <1>0, <2>2, <2>3 DEF Asking, Taken, NoneActive, S!Active, Late1, LatePoints
  <2>5. (Closing => Closing') /\ (Counting => Counting') /\ run_time' = run_time
    BY <1>1, <2>2 DEF Closing, Counting, VIoDispatch, IoDispatch, VBurstDispatch, BurstDispatch
  <2>6. Working' => Working
    BY <1>0, <2>4 DEF Working
  <2> QED
    BY <1>0, <2>4, <2>5, <2>6 DEF Steady, Batches
<1>2. CASE VCountTimer
  <2>1. At("ALRM", "timer") /\ Return /\ run_time # 0 /\ cur_ready' = cur_ready
    BY <1>2 DEF VCountTimer, CountTimer
  <2>2. Depth = 1 /\ Depth' = 0 /\ Top = [sig |-> "ALRM", pc |-> "timer"] /\ frames[1] = Top
    BY <2>1, ComesBack
  <2>3. ~flag
    BY <2>1 DEF BatchesOK
  <2>4. ~Taken /\ ~Taken' /\ (Asking' <=> Asking) /\ ~Closing
    BY <1>0, <2>2 DEF Asking, Taken, Closing
  <2> QED
    BY <1>0, <2>1, <2>3, <2>4 DEF Steady, Batches, CurIdx
<1> QED
  BY <1>1, <1>2

\* The handlers, outside of the memory calls.
LEMMA SteadyHandler ==
  ASSUME StackInv,
         \/ VIoReceive \/ VBurstStep \/ VIoSleep \/ VIoRequeue \/ VBurstRequeue
         \/ MemorySleep("USR1") \/ MemorySleep("USR2")
         \/ VCountAccount \/ VCountIo \/ VCountCont \/ VShutdownStart
         \/ VShutdownRmid \/ VShutdownKill
  PROVE  Steady /\ served' = served
<1> USE DEF AskPoints, ClosePoints
<1>1. UNCHANGED Batches /\ UNCHANGED <<run_time, pending, served>>
  BY DEF VIoReceive, VBurstStep, VIoSleep, IoSleep, VIoRequeue, IoRequeue, VBurstRequeue,
         BurstRequeue, MemorySleep, VCountAccount, CountAccount, VCountIo, CountIo, CountIoDone,
         VCountCont, CountCont, VShutdownStart, ShutdownStart, VShutdownRmid, VShutdownKill,
         memoryVars, Batches
<1>2. ASSUME child' = child
      PROVE  ChildrenTurn("USR1") /\ ChildrenTurn("USR2") /\ ChildrenTurn("ALRM")
  BY <1>2 DEF ChildrenTurn
<1>3. CASE VIoReceive \/ VBurstStep
  <2>1. PICK sig \in {"USR1", "USR2"}, pc \in {"receive", "asleep", "burst"} :
          At(sig, pc) /\ Goto("memory") /\ child' = child
    BY <1>3 DEF VIoReceive, VBurstStep
  <2>2. CurIdx' = CurIdx
    BY <1>3, IntoMemory
  <2> QED
    BY <1>1, <1>2, <2>1, <2>2, SteadyGoes, Points
<1>4. CASE VIoSleep
  BY <1>1, <1>2, <1>4, SteadyGoes, Points DEF VIoSleep, IoSleep, CurIdx
<1>5. CASE VIoRequeue \/ VBurstRequeue
  <2>1. PICK sig \in {"USR1", "USR2"} :
          At(sig, "requeue") /\ Goto("dispatch") /\ child' = child /\ cur_ready' = cur_ready
    BY <1>5 DEF VIoRequeue, VBurstRequeue, IoRequeue, BurstRequeue
  <2> QED
    BY <1>1, <1>2, <2>1, SteadyGoes, Points DEF CurIdx
<1>6. ASSUME NEW sig \in {"USR1", "USR2"}, MemorySleep(sig) PROVE Steady
  BY <1>1, <1>2, <1>6, SteadyGoes, Points DEF MemorySleep, CurIdx
<1>7. CASE VCountAccount
  BY <1>1, <1>2, <1>7, SteadyGoes, Points DEF VCountAccount, CountAccount, CurIdx
<1>8. CASE CountIo
  <2>1. UNCHANGED <<frames, child, cur_ready>> /\ Depth' = Depth /\ Top' = Top
    BY <1>8 DEF CountIo, Depth, Top
  <2>2. (Asking' <=> Asking) /\ (Working' <=> Working)
    BY <1>1, <2>1 DEF Asking, Working, Taken
  <2> QED
    BY <1>1, <2>1, <2>2, SteadyStands DEF CurIdx
<1>9. CASE CountIoDone
  BY <1>1, <1>2, <1>9, SteadyGoes, Points DEF CountIoDone, CurIdx
<1>10. CASE VCountCont
  <2>1. ChildrenTurn("ALRM")
    BY <1>10 DEF VCountCont, CountCont, ChildrenTurn
  <2> QED
    BY <1>1, <1>10, <2>1, SteadyGoes, Points DEF VCountCont, CountCont, CurIdx
<1>11. CASE VShutdownStart
  BY <1>1, <1>2, <1>11, SteadyGoes, Points DEF VShutdownStart, ShutdownStart, CurIdx
<1>12. CASE VShutdownRmid
  <2>1. PICK next \in {"rmid", "rmid_memory"} : Goto(next)
    BY <1>12, NextQueueGoes DEF VShutdownRmid
  <2> QED
    BY <1>1, <1>2, <1>12, <2>1, SteadyGoes, Points DEF VShutdownRmid, CurIdx
<1>13. CASE VShutdownKill
  <2>1. PICK next \in {"kill", "exit"} : Goto(next)
    BY <1>13, NextQueueGoes DEF VShutdownKill
  <2>2. ChildrenTurn("ALRM")
    <3>1. child \in [Procs -> Positions]
      BY SameOps DEF StackInv, S!TimeInv, S!IInv, S!TypeOK, S!Positions, Positions
    <3>2. child' = [child EXCEPT ![loop] = "dead"]
      BY <1>13 DEF VShutdownKill
    <3> QED
      BY <3>1, <3>2 DEF ChildrenTurn
  <2> QED
    BY <1>1, <1>13, <2>1, <2>2, SteadyGoes, Points DEF VShutdownKill, CurIdx
<1> QED
  BY <1>1, <1>3, <1>4, <1>5, <1>6, <1>7, <1>8, <1>9, <1>10, <1>11, <1>12, <1>13 DEF VCountIo

BatchStep == BatchType' /\ BatchesOK' /\ ServedInOwnName'

\* What such a step keeps besides.
LEMMA SteadyBatch ==
  ASSUME BatchInv, Steady, served' = served
  PROVE  BatchStep
<1>1. BatchesOK'
  BY BatchesStay DEF BatchInv
<1>2. BatchType' /\ ServedInOwnName'
  BY DEF BatchInv, BatchType, ServedInOwnName, Steady
<1> QED
  BY <1>1, <1>2 DEF BatchStep

\* The types of what follows.
LEMMA BatchTypes ==
  ASSUME StackInv
  PROVE  /\ run_time \in 0..RUN_TIME /\ CurIdx \in Procs \cup {-1}
         /\ cpu_burst \in [Procs -> 1..MaxLimit] /\ MaxLimit \in Nat
         /\ c_cpu \in [Procs -> Int] /\ child \in [Procs -> Positions]
<1>1. S!IInv
  BY DEF StackInv, S!TimeInv
<1> QED
  BY <1>1, SameOps, Constants, SchedulerAssumption
     DEF S!IInv, S!TypeOK, S!Positions, Positions, CurIdx, S!Pcb

\* A child that runs has a part of its burst left.
LEMMA RunsOn ==
  ASSUME StackInv, NEW p \in Procs, child[p] = "run"
  PROVE  p = CurIdx /\ cpu_burst[p] \in Nat \ {0} /\ c_cpu[p] \in 1..cpu_burst[p]
<1>1. PICK place \in S!Places : S!AtPlace(place[1], place[2])
  BY DEF StackInv, S!TimeInv
<1> DEFINE at == place[1]
           pc == place[2]
<1>2. S!ControlOK(at, pc) /\ S!DataOK(at, pc)
  BY <1>1 DEF S!AtPlace
<1> HIDE DEF at, pc
<1>3. at = "child" /\ p = CurIdx /\ pc = "run" /\ CurIdx # -1
  BY <1>2, SameOps DEF S!ControlOK, S!ChildrenOK, S!Active
<1>4. S!CurPcb("charged")
  BY <1>2, <1>3, SameOps DEF S!DataOK, S!CurOK, S!Stage
<1>5. S!Owes(p, 1) /\ service_time[p] >= 1
  BY <1>3, <1>4, SameOps DEF S!CurPcb
<1>6. service_time \in [Procs -> Nat]
  BY SameOps DEF StackInv, S!TimeInv, S!IInv, S!TypeOK
<1>7. cpu_burst[p] \in Nat \ {0} /\ c_cpu[p] \in Int
  BY BatchTypes
<1> QED
  BY <1>3, <1>5, <1>6, <1>7 DEF S!Owes

\* A batch is sent for every unit of the burst.
LEMMA UnitSent ==
  ASSUME NEW s \in Nat, NEW n \in Nat \ {0}, NEW c \in 1..n, (s + c) % n = 0
  PROVE  (s + 1 + IF c = 1 THEN n ELSE c - 1) % n = 0
<1>1. CASE c # 1
  <2>1. s + 1 + (c - 1) = s + c
    OBVIOUS
  <2> QED
    BY <1>1, <2>1
<1>2. CASE c = 1
  <2> DEFINE d == (s + 1) \div n
  <2>1. d \in Int /\ s + 1 = n * d
    <3>1. s + 1 \in Int /\ (s + 1) % n = 0
      BY <1>2
    <3> QED
      BY <3>1
  <2>2. n * (d + 1) = n * d + n
    BY <2>1
  <2>3. s + 1 + n = n * (d + 1) + 0 /\ d + 1 \in Int
    BY <2>1, <2>2
  <2> HIDE DEF d
  <2>4. (s + 1 + n) % n = 0
    <3>1. PICK t, k \in Int : t = s + 1 + n /\ k = d + 1
      BY <2>3
    <3>2. 0 \in 0..(n - 1) /\ t = n * k + 0
      BY <2>3, <3>1
    <3>3. t % n = 0
      BY <3>1, <3>2, Constants, S!RemainderIs, SMTT(60)
    <3> QED
      BY <3>1, <3>3
  <2> QED
    BY <1>2, <2>4
<1> QED
  BY <1>1, <1>2

\* The child sends the batch of a unit of its burst.
LEMMA ChildBurstBatch ==
  ASSUME BatchInv, NEW p \in Procs, VChildBurst(p)
  PROVE  BatchStep
<1> USE DEF BatchInv
<1>1. /\ child[p] = "run" /\ p = CurIdx /\ pending = {} /\ Rests
      /\ cpu_burst[p] \in Nat \ {0} /\ c_cpu[p] \in 1..cpu_burst[p]
  BY RunsOn, Where DEF VChildBurst, ChildBurst, S!Active
<1>2. /\ c_cpu' = [c_cpu EXCEPT ![p] = BurstLeft(p)]
      /\ child' = [child EXCEPT ![p] = IF c_cpu[p] = 1 THEN "send" ELSE "usr1"]
      /\ sent' = [sent EXCEPT ![p] = @ + 1]
      /\ vq' = [vq EXCEPT ![p] = Append(@, <<p, sent[p] + 1>>)]
      /\ UNCHANGED <<frames, pending, cur_ready, run_time, cpu_burst, va_arr, flag, done, served>>
  BY DEF VChildBurst, ChildBurst, cmsgsnd_memory
<1>3. Depth' = Depth /\ Top' = Top /\ CurIdx' = CurIdx /\ (Counting' <=> Counting)
      /\ (Closing' <=> Closing)
  BY <1>2 DEF Depth, Top, CurIdx, Counting, Closing
<1>4. Depth > 0 => Top.pc \in LatePoints
  BY <1>1 DEF Rests, Late1, Top
<1>5. ~Taken /\ ~Taken'
  BY <1>3, <1>4 DEF Taken, LatePoints
<1>6. ~Asking
  <2>1. \A q \in Procs : child[q] \notin {"send", "usr1", "usr2"}
    BY <1>1, Where DEF S!Active
  <2> QED
    BY <1>1, <1>4, <2>1 DEF Asking, LatePoints
<1>7. Asking' /\ Working
  BY <1>1, <1>2, BatchTypes DEF Asking, Working
<1>8. Agree(p, 0) /\ vq[p] = <<>> /\ (sent[p] + c_cpu[p]) % cpu_burst[p] = 0
  BY <1>1, <1>5, <1>6 DEF BatchesOK, BatchOf
<1>9. sent[p] \in Nat /\ done[p] \in Nat /\ vq'[p] = Append(vq[p], <<p, sent[p] + 1>>)
      /\ sent'[p] = sent[p] + 1 /\ c_cpu'[p] = BurstLeft(p)
  BY <1>2, BatchTypes DEF BatchType
<1>10. \A q \in Procs : q # p => /\ vq'[q] = vq[q] /\ sent'[q] = sent[q] /\ c_cpu'[q] = c_cpu[q]
                                 /\ child'[q] = child[q]
  BY <1>2, BatchTypes DEF BatchType
<1>11. vq'[p] = <<<<p, sent'[p]>>>>
  BY <1>8, <1>9
<1>12. Over' <=> Over
  BY <1>2, <1>3 DEF Over
<1>13. Agree(p, 1)'
  BY <1>2, <1>8, <1>9, <1>12 DEF Agree
<1>14. ASSUME NEW q \in Procs PROVE BatchOf(q)'
  <2>1. CASE q = p
    <3>1. (sent'[p] + c_cpu'[p]) % cpu_burst'[p] = 0
      <4>1. sent'[p] + c_cpu'[p] =
              sent[p] + 1 + (IF c_cpu[p] = 1 THEN cpu_burst[p] ELSE c_cpu[p] - 1)
        BY <1>9 DEF BurstLeft
      <4>2. (sent[p] + 1 + (IF c_cpu[p] = 1 THEN cpu_burst[p] ELSE c_cpu[p] - 1))
              % cpu_burst[p] = 0
        <5> DEFINE s == sent[p]
                   n == cpu_burst[p]
                   c == c_cpu[p]
        <5>1. s \in Nat /\ n \in Nat \ {0} /\ c \in 1..n /\ (s + c) % n = 0
          BY <1>1, <1>8, <1>9
        <5> HIDE DEF s, n, c
        <5>2. (s + 1 + (IF c = 1 THEN n ELSE c - 1)) % n = 0
          BY <5>1, UnitSent
        <5> QED
          BY <5>2 DEF s, n, c
      <4> QED
        BY <1>2, <4>1, <4>2
    <3> QED
      BY <1>1, <1>3, <1>7, <1>11, <2>1, <3>1 DEF BatchOf, Batch
  <2>2. CASE q # p
    <3>1. BatchOf(q) /\ ~(q = CurIdx)
      BY <1>1, <2>2 DEF BatchesOK
    <3>2. Agree(q, 0) => Agree(q, 0)'
      BY <1>2, <1>10, <1>12, <2>2 DEF Agree
    <3> QED
      BY <1>2, <1>10, <2>2, <3>1, <3>2 DEF BatchOf, Batch
  <2> QED
    BY <2>1, <2>2
<1>15. AskedFor'
  BY <1>1, <1>3, <1>11, <1>13 DEF AskedFor
<1>16. flag' => (run_time = 0 /\ Counting)'
  BY <1>2, <1>3, <1>7 DEF BatchesOK
<1>17. BatchesOK'
  BY <1>5, <1>14, <1>15, <1>16 DEF BatchesOK
<1>18. BatchType'
  <2>1. sent' \in [Procs -> Nat]
    BY <1>2 DEF BatchType
  <2>2. vq' \in [Procs -> {vq'[q] : q \in Procs}]
    BY <1>2 DEF BatchType
  <2> QED
    BY <1>2, <2>1, <2>2 DEF BatchType
<1>19. ServedInOwnName'
  BY <1>2 DEF ServedInOwnName
<1> QED
  BY <1>17, <1>18, <1>19 DEF BatchStep

\* The handler takes it.
LEMMA ReceiveBatch ==
  ASSUME BatchInv, NEW sig \in {"USR1", "USR2"}, MemoryReceive(sig)
  PROVE  BatchStep
<1> USE DEF BatchInv
<1>1. PICK pc \in {"memory", "memory_asleep"} : At(sig, pc)
  BY DEF MemoryReceive
<1>2. /\ AddressBox # <<>> /\ Goto("mmu")
      /\ va_arr' = [va_arr EXCEPT ![sig] = Head(AddressBox)]
      /\ vq' = [vq EXCEPT ![cur_ready.idx] = Tail(@)]
      /\ UNCHANGED <<child, pending, cur_ready, run_time, c_cpu, cpu_burst, sent, flag, done,
                     served>>
  BY DEF MemoryReceive, RestOfBox
<1>3. /\ Depth' = Depth /\ Depth \in 1..2
      /\ Top = [sig |-> sig, pc |-> pc] /\ Top' = [sig |-> sig, pc |-> "mmu"]
      /\ Depth = 2 => frames'[1] = frames[1]
      /\ Depth = 1 => frames[1] = Top /\ frames'[1] = Top'
      /\ Counting' <=> Counting
  BY <1>1, <1>2, GoesOn, Points
<1>4. /\ InMemory /\ CurIdx \in Procs /\ CurIdx # -1 /\ pending = {} /\ NoneActive
      /\ cur_ready.idx = CurIdx
  <2>1. InMemory
    BY <1>3 DEF InMemory, MemoryPoints
  <2>2. CurIdx # -1 /\ pending = {} /\ NoneActive
    BY <2>1 DEF StackInv, MemoryOK
  <2> QED
    BY <2>1, <2>2, BatchTypes DEF CurIdx
<1> DEFINE p == CurIdx
<1>5. Asking /\ Working /\ ~Asking' /\ Taken' /\ CurIdx' = CurIdx
  BY <1>2, <1>3, <1>4 DEF Asking, Working, Taken, NoneActive, S!Active, CurIdx
<1>6. AddressBox = vq[p] /\ vq[p] = <<Batch(p)>> /\ Agree(p, 1)
  <2>1. AddressBox = vq[p]
    BY <1>4 DEF AddressBox
  <2> QED
    BY <1>2, <1>4, <1>5, <2>1 DEF BatchesOK, BatchOf, AskedFor
<1>7. va_arr'[sig] = Batch(p)' /\ vq'[p] = <<>>
  <2>1. Head(<<Batch(p)>>) = Batch(p) /\ Tail(<<Batch(p)>>) = <<>>
    OBVIOUS
  <2>2. va_arr'[sig] = Batch(p) /\ vq'[p] = Tail(vq[p])
    BY <1>2, <1>4, <1>6, <2>1 DEF BatchType, Signals
  <2> QED
    BY <1>2, <1>5, <1>6, <2>1, <2>2 DEF Batch
<1>8. Over' <=> Over
  BY <1>2, <1>3 DEF Over
<1>9. \A q \in Procs, n \in {0, 1} : Agree(q, n)' <=> Agree(q, n)
  BY <1>2, <1>8 DEF Agree
<1>10. ASSUME NEW q \in Procs PROVE BatchOf(q)'
  <2>1. BatchOf(q)
    BY DEF BatchesOK
  <2>2. CASE q = p
    BY <1>2, <1>5, <1>7, <2>1, <2>2 DEF BatchOf
  <2>3. CASE q # p
    <3>1. vq'[q] = vq[q]
      BY <1>2, <1>4, <2>3 DEF BatchType
    <3> QED
      BY <1>2, <1>5, <1>9, <2>1, <2>3, <3>1 DEF BatchOf, Batch
  <2> QED
    BY <2>2, <2>3
<1>11. TakenFor'
  BY <1>3, <1>4, <1>5, <1>6, <1>7, <1>9 DEF TakenFor
<1>12. flag' => (run_time = 0 /\ Counting)'
  BY <1>2, <1>3, <1>5 DEF BatchesOK
<1>13. BatchesOK'
  BY <1>5, <1>10, <1>11, <1>12 DEF BatchesOK
<1>14. BatchType'
  <2>1. vq' \in [Procs -> {vq'[q] : q \in Procs}]
    BY <1>2 DEF BatchType
  <2>2. va_arr' \in [Signals -> {va_arr'[s] : s \in Signals}]
    BY <1>2 DEF BatchType
  <2> QED
    BY <1>2, <2>1, <2>2 DEF BatchType
<1>15. ServedInOwnName'
  BY <1>2 DEF ServedInOwnName
<1> QED
  BY <1>13, <1>14, <1>15 DEF BatchStep

\* MMU performs it, or the time is over.
LEMMA CallBatch ==
  ASSUME BatchInv, NEW sig \in {"USR1", "USR2"}, CallMMU(sig)
  PROVE  BatchStep
<1> USE DEF BatchInv
<1>1. /\ At(sig, "mmu") /\ CurIdx # -1 /\ (Goto("requeue") \/ Return)
      /\ flag' = (flag \/ Now = RUN_TIME)
      /\ UNCHANGED <<child, pending, cur_ready, run_time, c_cpu, cpu_burst, sent, vq, va_arr>>
      /\ CurIdx' = CurIdx
  BY DEF CallMMU, AfterMemory, CurIdx
<1> DEFINE p == CurIdx
<1>2. p \in Procs /\ run_time \in 0..RUN_TIME /\ RUN_TIME \in Nat
  BY <1>1, BatchTypes, Constants
<1>3. TooLate <=> run_time = 0 /\ flag
  BY <1>2 DEF TooLate, Now
<1>4. /\ Depth \in 1..2 /\ Top = [sig |-> sig, pc |-> "mmu"]
      /\ Depth = 2 => frames'[1] = frames[1] /\ Late1 /\ Depth' > 0
      /\ Depth = 1 => frames[1] = Top
      /\ Depth' > 0 => Top'.pc \in LatePoints \cup {"requeue"}
  <2>1. CASE Goto("requeue")
    BY <1>1, <2>1, GoesOn, Points
  <2>2. CASE Return
    BY <1>1, <2>2, ComesBack DEF Late1
  <2> QED
    BY <1>1, <2>1, <2>2
<1>5. pending = {} /\ NoneActive
  <2>1. InMemory
    BY <1>4 DEF InMemory, MemoryPoints
  <2> QED
    BY <2>1 DEF StackInv, MemoryOK
<1>6. Taken /\ Working /\ ~Asking' /\ ~Taken' /\ ~Working'
  BY <1>1, <1>4, <1>5 DEF Taken, Working, Asking, NoneActive, S!Active, LatePoints
<1>7. Counting => Counting'
  BY <1>4 DEF Counting
<1>8. Agree(p, 1) /\ vq[p] = <<>> /\ va_arr[sig] = Batch(p)
  BY <1>4, <1>6 DEF BatchesOK, TakenFor
<1>9. (flag' => run_time' = 0) /\ (flag => Counting)
  <2>1. flag => run_time = 0 /\ Counting
    BY <1>6 DEF BatchesOK
  <2>2. Now = RUN_TIME => run_time = 0
    BY <1>2 DEF Now
  <2> QED
    BY <1>1, <2>1, <2>2
<1>10. ~TooLate => done' = [done EXCEPT ![p] = @ + 1] /\ served' = [by |-> p, batch |-> Batch(p)]
  BY <1>8 DEF CallMMU
<1>11. TooLate => done' = done /\ served' = served /\ Over' /\ Over
  BY <1>1, <1>3, <1>7, <1>9 DEF CallMMU, Over
<1>12. ~TooLate => ~Over /\ sent[p] = done[p] + 1
  BY <1>3, <1>8 DEF Over, Agree
<1>13. \A q \in Procs : q # p => done'[q] = done[q]
  BY <1>2, <1>10, <1>11 DEF BatchType
<1>14. done'[p] \in Nat /\ (~TooLate => done'[p] = sent[p])
  BY <1>2, <1>10, <1>11, <1>12 DEF BatchType
<1>15. ASSUME NEW q \in Procs PROVE BatchOf(q)'
  <2>1. BatchOf(q)
    BY DEF BatchesOK
  <2>2. CASE q = p
    <3>1. Agree(p, 0)'
      BY <1>1, <1>2, <1>11, <1>14 DEF Agree, BatchType
    <3> QED
      BY <1>1, <1>8, <2>1, <2>2, <3>1 DEF BatchOf, Batch
  <2>3. CASE q # p
    <3>1. Agree(q, 0) => Agree(q, 0)'
      BY <1>1, <1>11, <1>12, <1>13, <2>3 DEF Agree
    <3> QED
      BY <1>1, <2>1, <2>3, <3>1 DEF BatchOf, Batch
  <2> QED
    BY <2>2, <2>3
<1>16. BatchesOK'
  BY <1>6, <1>9, <1>15 DEF BatchesOK
<1>17. BatchType'
  BY <1>1, <1>10, <1>11, <1>2 DEF BatchType
<1>18. ServedInOwnName'
  <2>1. CASE TooLate
    BY <1>11, <2>1 DEF ServedInOwnName
  <2>2. CASE ~TooLate
    BY <1>10, <1>14, <2>2 DEF ServedInOwnName, Batch
  <2> QED
    BY <2>1, <2>2
<1> QED
  BY <1>16, <1>17, <1>18 DEF BatchStep

\* The shutdown removes the queues of addresses.
LEMMA RmidBatch ==
  ASSUME BatchInv, VShutdownRmidMemory
  PROVE  BatchStep
<1> USE DEF BatchInv
<1>1. /\ At("ALRM", "rmid_memory") /\ vq' = [vq EXCEPT ![loop] = <<>>]
      /\ UNCHANGED <<child, pending, cur_ready, run_time, c_cpu, cpu_burst, sent, va_arr, flag, done,
                     served>>
  BY DEF VShutdownRmidMemory
<1>2. PICK next \in {"rmid_memory", "kill"} : Goto(next)
  BY NextQueueGoes DEF VShutdownRmidMemory
<1>3. /\ Depth' = Depth /\ Depth \in 1..2
      /\ Top = [sig |-> "ALRM", pc |-> "rmid_memory"] /\ Top' = [sig |-> "ALRM", pc |-> next]
      /\ Depth = 1 => frames[1] = Top /\ frames'[1] = Top'
      /\ Counting' <=> Counting
  BY <1>1, <1>2, GoesOn, Points
<1>4. Depth = 1
  BY <1>3, Where
<1>5. Closing /\ Closing' /\ ~Taken /\ ~Taken' /\ (Asking' <=> Asking) /\ (Working' <=> Working)
      /\ CurIdx' = CurIdx /\ Counting'
  BY <1>1, <1>3, <1>4 DEF Closing, Taken, Asking, Working, Counting, CurIdx
<1>6. \A q \in Procs, n \in {0, 1} : Agree(q, n)' <=> Agree(q, n)
  BY <1>1, <1>3 DEF Agree, Over
<1>7. \A q \in Procs : vq'[q] = vq[q] \/ vq'[q] = <<>>
  BY <1>1 DEF BatchType
<1>8. ASSUME NEW q \in Procs PROVE BatchOf(q)'
  <2>1. BatchOf(q)
    BY DEF BatchesOK
  <2> QED
    BY <1>1, <1>5, <1>6, <1>7, <2>1 DEF BatchOf, Batch
<1>9. Asking' => AskedFor'
  <2>1. Asking => Agree(CurIdx, 1)
    BY DEF BatchesOK, AskedFor
  <2>2. Agree(CurIdx, 1) => Agree(CurIdx, 1)'
    BY <1>1, <1>3, <1>5 DEF Agree, Over
  <2> QED
    BY <1>5, <2>1, <2>2 DEF AskedFor
<1>10. BatchesOK'
  BY <1>1, <1>5, <1>8, <1>9 DEF BatchesOK
<1>11. BatchType'
  <2>1. vq' \in [Procs -> {vq'[q] : q \in Procs}]
    BY <1>1 DEF BatchType
  <2> QED
    BY <1>1, <2>1 DEF BatchType
<1>12. ServedInOwnName'
  BY <1>1 DEF ServedInOwnName
<1> QED
  BY <1>10, <1>11, <1>12 DEF BatchStep

\* The invariant is inductive.
LEMMA NextBatchInv ==
  ASSUME InTime, BatchInv, [VNext]_vmVars
  PROVE  BatchInv'
<1>0. StackInv /\ StackInv' /\ BatchesOK
  BY NextStackInv DEF BatchInv
<1> SUFFICES BatchStep
  BY <1>0 DEF BatchStep, BatchInv
<1>1. ASSUME NEW p \in Procs, VChildStep(p) PROVE BatchStep
  BY <1>0, <1>1, SteadyChild, SteadyBatch, ChildBurstBatch DEF VChildStep
<1>2. ASSUME NEW sig \in Signals, VDeliver(sig) PROVE BatchStep
  BY <1>0, <1>2, SteadyDeliver, SteadyBatch
<1>3. ASSUME NEW sig \in {"USR1", "USR2"}, MemoryReceive(sig) \/ MemorySleep(sig) \/ CallMMU(sig)
      PROVE  BatchStep
  <2>1. CASE MemorySleep(sig)
    <3>1. MemorySleep("USR1") \/ MemorySleep("USR2")
      BY <2>1
    <3> QED
      BY <1>0, <3>1, SteadyHandler, SteadyBatch
  <2> QED
    BY <1>3, <2>1, ReceiveBatch, CallBatch
<1>4. CASE \/ VIoReceive \/ VBurstStep \/ VIoSleep \/ VIoRequeue \/ VBurstRequeue
           \/ VCountAccount \/ VCountIo \/ VCountCont \/ VShutdownStart
           \/ VShutdownRmid \/ VShutdownKill
  BY <1>0, <1>4, SteadyHandler, SteadyBatch
<1>5. CASE VIoDispatch \/ VBurstDispatch \/ VCountTimer
  BY <1>0, <1>5, SteadyReturns, SteadyBatch
<1>6. CASE \/ VTick \/ VFork \/ VForkFails \/ VStartTimer \/ VSegfault \/ VShutdownExit
           \/ UNCHANGED vmVars
  BY <1>0, <1>6, SteadyStart, SteadyBatch
<1>7. ~VInterrupted
  BY <1>0, StopMapped
<1> QED
  BY <1>1, <1>2, <1>3, <1>4, <1>5, <1>6, <1>7, RmidBatch DEF VNext, VParentStep, VHandlerStep

\* It holds at the start.
LEMMA InitBatchInv ==
  ASSUME VInit
  PROVE  BatchInv
<1>1. Init /\ frames = <<>> /\ Depth = 0
  BY DEF VInit, Init, Depth
<1>2. VFramesOK
  BY <1>1 DEF VFramesOK, OneFrameEach
<1>3. Bar = <<>> /\ ~InMemory
  BY <1>1, <1>2, EmptyBar
<1>4. S!Init
  BY <1>1, <1>3, SameOps DEF Init, S!Init
<1>5. S!TimeInv
  BY <1>4, Constants, S!InitTimeInv
<1>6. StackInv
  BY <1>1, <1>2, <1>3, <1>5 DEF StackInv, MemoryOK, BootOK
<1>7. BatchType
  <2>1. vq \in [Procs -> {<<>>}] /\ va_arr \in [Signals -> {NoBatch}]
    BY DEF VInit
  <2>2. sent \in [Procs -> Nat] /\ done \in [Procs -> Nat] /\ flag = FALSE
    BY DEF VInit
  <2> QED
    BY <2>1, <2>2 DEF BatchType
<1>8. ~Asking /\ ~Taken
  BY <1>1 DEF Init, Asking, Taken
<1>9. ASSUME NEW p \in Procs PROVE BatchOf(p)
  <2>1. vq[p] = <<>> /\ sent[p] = 0 /\ done[p] = 0
    BY DEF VInit
  <2>2. (sent[p] + c_cpu[p]) % cpu_burst[p] = 0
    <3>1. c_cpu[p] = cpu_burst[p] /\ cpu_burst[p] \in 1..MaxLimit /\ MaxLimit \in Nat
      BY <1>1, Constants DEF Init
    <3> QED
      BY <2>1, <3>1
  <2> QED
    BY <2>1, <2>2 DEF BatchOf, Agree
<1>10. BatchesOK
  BY <1>8, <1>9 DEF BatchesOK, VInit
<1>11. ServedInOwnName
  BY DEF VInit, ServedInOwnName
<1> QED
  BY <1>6, <1>7, <1>10, <1>11 DEF BatchInv

\* Between ticks nothing is under way.
LEMMA BatchesQuiet ==
  ASSUME BatchInv
  PROVE  ServedInOwnName /\ AccessesMatchBursts /\ NothingUnderWay
<1> SUFFICES ASSUME status = "running", Quiescent, NEW p \in Procs
             PROVE  vq[p] = <<>> /\ done[p] = sent[p] /\ (done[p] + c_cpu[p]) % cpu_burst[p] = 0
  BY DEF BatchInv, AccessesMatchBursts, NothingUnderWay
<1>1. /\ frames = <<>> /\ Depth = 0 /\ pending = {}
      /\ \A q \in Procs : child[q] \in {"stopped", "dead"}
  BY DEF Quiescent, Depth
<1>2. ~Asking /\ ~Taken /\ ~Over
  BY <1>1 DEF Asking, Taken, Over, Counting
<1>3. child[p] # "dead"
  BY <1>1, Where DEF BatchInv, Closing
<1> QED
  BY <1>2, <1>3 DEF BatchInv, BatchesOK, BatchOf, Agree, BatchType

\* Parent and children, from what Scheduler promises of its stack.
LEMMA SchedulingQuiet ==
  ASSUME StackInv
  PROVE  OneHome /\ BurstsAgree
<1>1. S!OneHome /\ S!BurstsAgree
  BY S!HomeIsOne, S!CountsAgree, Constants DEF StackInv
<1>2. S!InHandler("dispatch") <=> InHandler("dispatch")
  <2>1. Depth \in Nat /\ BarDepth \in Nat /\ BarDepth <= Depth /\ S!Depth = BarDepth
        /\ \A i \in 1..BarDepth : Bar[i] = Frame(i)
    BY BarIs, VFrameType DEF StackInv
  <2>2. \A i : Frame(i).pc = "dispatch" <=> frames[i].pc = "dispatch"
    BY DEF Frame, Plain, MemoryPoints
  <2>3. ASSUME NEW i \in 1..Depth, frames[i].pc = "dispatch" PROVE i \in 1..BarDepth
    <3>1. CASE Leaves
      <4>1. Depth \in Nat /\ BarDepth = Depth - 1 /\ frames[Depth].pc # "dispatch"
        BY <2>1, <3>1 DEF BarDepth, Leaves, InMemory, MemoryPoints, Top
      <4> QED
        BY <2>3, <4>1
    <3>2. CASE ~Leaves
      BY <2>3, <3>2 DEF BarDepth
    <3> QED
      BY <3>1, <3>2
  <2> QED
    BY <2>1, <2>2, <2>3 DEF InHandler, S!InHandler
<1>3. OneHome
  <2>1. ASSUME NEW p \in Procs PROVE S!Homes(p) = Homes(p)
    <3>1. /\ S!CurIdx = CurIdx
          /\ CurIdx = p /\ ~S!InHandler("dispatch") <=> CurIdx = p /\ ~InHandler("dispatch")
      BY <1>2, SameOps
    <3>2. CASE CurIdx = p /\ ~InHandler("dispatch")
      BY <3>1, <3>2 DEF Homes, S!Homes
    <3>3. CASE ~(CurIdx = p /\ ~InHandler("dispatch"))
      BY <3>1, <3>3 DEF Homes, S!Homes
    <3> QED
      BY <3>2, <3>3
  <2>2. \A X : S!Cardinality(X) = Cardinality(X)
    BY DEF S!Cardinality, Cardinality
  <2>3. ASSUME NEW p \in Procs PROVE Cardinality(Homes(p)) = IF p < forked THEN 1 ELSE 0
    BY <1>1, <2>1, <2>2, SameOps DEF S!OneHome
  <2> QED
    BY <2>3 DEF OneHome
<1>4. Quiescent => S!Quiescent
  BY EmptyBar, SameOps DEF StackInv, Quiescent, S!Quiescent
<1>5. \A p : S!PcbOf(p) = PcbOf(p)
  BY SameOps DEF S!PcbOf, PcbOf, S!Elements, Elements
<1>6. BurstsAgree
  BY <1>1, <1>4, <1>5, SameOps DEF BurstsAgree, S!BurstsAgree
<1> QED
  BY <1>3, <1>6

\* However handlers interrupt each other, the loop of signal_count over the waiting
\* processes stays within their queue: for ticks at any time.
THEOREM LoopStaysWithin == VSpec => []LoopWithinQueue
<1>1. VInit => LoopInv
  BY DEF VInit, Init, LoopInv, VFramesOK, OneFrameEach, LoopWithinQueue, InHandler, Depth
<1>2. LoopInv /\ [VNext]_vmVars => LoopInv'
  BY VLoops, LoopMoves DEF LoopInv
<1>3. LoopInv => LoopWithinQueue
  BY DEF LoopInv
<1> QED
  BY <1>1, <1>2, <1>3, PTL DEF VSpec

\* With ticks in time the addresses are performed once, in order and in the name of
\* their sender, and parent and children agree.
THEOREM InTimeMemory ==
  ASSUME InTime
  PROVE  VSpec => [](/\ ServedInOwnName /\ AccessesMatchBursts /\ NothingUnderWay
                     /\ OneHome /\ BurstsAgree)
<1>1. VInit => BatchInv
  BY InitBatchInv
<1>2. BatchInv /\ [VNext]_vmVars => BatchInv'
  BY NextBatchInv
<1>3. BatchInv => /\ ServedInOwnName /\ AccessesMatchBursts /\ NothingUnderWay
                  /\ OneHome /\ BurstsAgree
  BY BatchesQuiet, SchedulingQuiet DEF BatchInv
<1> QED
  BY <1>1, <1>2, <1>3, PTL DEF VSpec

-----------------------------------------------------------------------------
(* The two instances of the run *)

MCInv ==
  /\ late \in BOOLEAN
  /\ ~late => BatchInv
  /\ late => LoopInv

LEMMA InitMCInv ==
  ASSUME MCInit
  PROVE  MCInv
<1>1. CASE late = FALSE /\ VInit
  BY <1>1, InitBatchInv DEF MCInv
<1>2. CASE late = TRUE /\ Late!VInit
  <2>1. frames = <<>> /\ waitq = <<>> /\ loop = 0
    BY <1>2 DEF Late!VInit, Late!Init
  <2> QED
    BY <1>2, <2>1 DEF MCInv, LoopInv, VFramesOK, OneFrameEach, LoopWithinQueue, InHandler, Depth
<1> QED
  BY <1>1, <1>2 DEF MCInit

LEMMA NextMCInv ==
  ASSUME InTime, MCInv, [MCNext]_MCVars
  PROVE  MCInv'
<1>1. late' = late
  BY DEF MCNext, MCTick, MCParentStep, MCChildStep, MCLateStep, MCVars
<1>2. CASE ~late
  <2>1. [VNext]_vmVars
    BY <1>2 DEF MCNext, MCTick, MCParentStep, MCChildStep, MCLateStep, MCVars, VNext
  <2> QED
    BY <1>1, <1>2, <2>1, NextBatchInv DEF MCInv
<1>3. CASE late
  <2>1. [Late!VNext]_vmVars
    BY <1>3 DEF MCNext, MCTick, MCParentStep, MCChildStep, MCLateStep, MCVars
  <2>2. LoopInv /\ LoopMove
    BY <1>3, <2>1, LateVLoops DEF MCInv, LoopInv
  <2> QED
    BY <1>1, <1>3, <2>2, LoopMoves DEF MCInv
<1> QED
  BY <1>2, <1>3 DEF MCInv

\* Each instance keeps its own invariant: the late one that of its loops.
LEMMA MCInvariance ==
  ASSUME InTime
  PROVE  MCSpec => []MCInv
<1>1. MCInit => MCInv
  BY InitMCInv
<1>2. MCInv /\ [MCNext]_MCVars => MCInv'
  BY NextMCInv
<1> QED
  BY <1>1, <1>2, PTL DEF MCSpec

\* With ticks in time every batch of addresses is performed once, in the name of its
\* sender (signal.c), for any number of processes.
THEOREM AccessesAreInTime ==
  ASSUME InTime
  PROVE  MCSpec => []AccessesInTime
<1>1. MCInv => AccessesInTime
  BY BatchesQuiet DEF MCInv, AccessesInTime
<1> QED
  BY <1>1, MCInvariance, PTL

\* Of ticks in time every process has one home and parent and child agree; of ticks at
\* any time the loop of signal_count stays within the queue.
THEOREM SchedulingIsKept ==
  ASSUME InTime
  PROVE  MCSpec => []SchedulingKept
<1>1. MCInv => SchedulingKept
  BY SchedulingQuiet DEF MCInv, SchedulingKept, BatchInv, LoopInv
<1> QED
  BY <1>1, MCInvariance, PTL
=============================================================================
