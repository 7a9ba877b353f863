---------------------------- MODULE MCVMScheduler ----------------------------
(***************************************************************************)
(* Instances of VMScheduler for TLC, two in one run:                       *)
(*   in time   the constants of the .cfg file, ticks in time;              *)
(*   late      two processes, bursts 1..2, quantum 1, two ticks that       *)
(*             come at any time, under SJF.                                *)
(***************************************************************************)
EXTENDS VMScheduler

VARIABLE late

Late == INSTANCE VMScheduler WITH MAX_PROCESS <- 2, RUN_TIME <- 1, TIME_QUANTUM <- 1,
                                  MaxLimit <- 2, Schedulers <- {SJF}, InTime <- FALSE

MCInit ==
  \/ late = FALSE /\ VInit
  \/ late = TRUE /\ Late!VInit

MCTick == ~late /\ VTick /\ UNCHANGED late
MCParentStep == ~late /\ VParentStep /\ UNCHANGED late
MCChildStep(p) == ~late /\ VChildStep(p) /\ UNCHANGED late
MCLateStep == late /\ Late!VNext /\ UNCHANGED late

MCNext == MCTick \/ MCParentStep \/ (\E p \in Procs : MCChildStep(p)) \/ MCLateStep

MCVars == <<vmVars, late>>

MCSpec ==
  /\ MCInit /\ [][MCNext]_MCVars
  /\ WF_MCVars(MCTick)
  /\ WF_MCVars(MCParentStep)
  /\ \A p \in Procs : WF_MCVars(MCChildStep(p))

\* With ticks in time every batch of addresses is performed once, in the name of
\* the process that sent it, the batches performed agree with the bursts, and none
\* is left under way between ticks (the handlers of signal.c, and the MMU they call).
AccessesInTime == ~late => ServedInOwnName /\ AccessesMatchBursts /\ NothingUnderWay

\* With the second message for each burst unit every process still has one home, and
\* parent and child agree; and handlers that interrupt each other anywhere, their
\* waits for addresses included, never take the loop over the waiting processes past
\* their number (signal.c).
SchedulingKept ==
  /\ ~late => OneHome /\ BurstsAgree
  /\ late => LoopWithinQueue

\* With ticks in time the run time is used up.
TimeUsedUp == ~late => VTimeRunsOut
=============================================================================
