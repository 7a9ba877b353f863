----------------------------- MODULE MCScheduler -----------------------------
(***************************************************************************)
(* Instances of Scheduler for TLC.  The scheduling algorithms, the number  *)
(* of processes and the bounds are integers, given in the .cfg files:      *)
(*   MCsched    three processes, each algorithm, every workload of bursts  *)
(*              1..3, eleven ticks in time, shutdown in the last;          *)
(*   MClate     two processes, FCFS and RR, bursts 1..2, ticks at any time; *)
(*   MCrr_end   a comment that does not hold.                              *)
(***************************************************************************)
EXTENDS Scheduler

-----------------------------------------------------------------------------
\* With ticks in time there is one cpu: only the process of cur_ready runs, its
\* slice has lasted since its dispatch, and no handler of the parent waits for a
\* message before the shutdown (u_signal.c).
CpuKept == OnlyCurrentRuns /\ SliceFromDispatch /\ SleepOnlyInShutdown
=============================================================================
