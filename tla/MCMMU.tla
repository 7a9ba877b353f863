-------------------------------- MODULE MCMMU --------------------------------
(***************************************************************************)
(* Instances of MMU for TLC.  How the program was started, which           *)
(* set_replacement and tlb_size hold in the code, is chosen at the         *)
(* beginning of a behaviour: one of the policies in Tried, with four       *)
(* frames and no TLB; or Shared, in which nothing is swapped and two       *)
(* processes use one TLB; or Scarce, FIFO with three frames, where the     *)
(* queue of frames can seem empty.  calls says how often MMU is called     *)
(* under a policy.                                                         *)
(*   MCmmu_policies   all seven policies, Shared and Scarce;               *)
(*   MCmmu_lost       LRU, and a comment that does not hold.               *)
(***************************************************************************)
EXTENDS MMU

CONSTANTS Tried, Shared, Scarce

VARIABLE chosen

calls(pol) == IF pol \in {LRU, LFU, MFU} THEN MaxCalls ELSE MaxCalls - 1

Under(pol) == INSTANCE MMU WITH set_replacement <- pol, MaxCalls <- calls(pol)

Cached ==
  INSTANCE MMU WITH UseTlb <- TRUE, TlbReach <- 2, NFrames <- 7, MinFree <- 1,
                    MaxCalls <- MaxCalls - 1

Few == INSTANCE MMU WITH set_replacement <- FIFO, NFrames <- 3

MCInit ==
  \/ chosen \in Tried \cap Policies /\ Init
  \/ chosen \in Tried \cap {Shared} /\ Cached!Init
  \/ chosen \in Tried \cap {Scarce} /\ Few!Init

MCUnder(pol) == chosen = pol /\ Under(pol)!Next /\ UNCHANGED chosen
MCShared == chosen = Shared /\ Cached!Next /\ UNCHANGED chosen

MCScarce == chosen = Scarce /\ Few!Next /\ UNCHANGED chosen

MCNext == (\E pol \in Tried \cap Policies : MCUnder(pol)) \/ MCShared \/ MCScarce

MCSpec == MCInit /\ [][MCNext]_<<vars, chosen>>

-----------------------------------------------------------------------------
(* Properties *)

\* Under every policy but RANDOM, which evicts free frames, no word is lost before
\* the first page is swapped in to a frame that is not its own, and the tags by
\* which MMU finds the page of its victim are the page tables read backwards.
NoWordLost ==
  /\ chosen \in Policies \ {RANDOM} => WordsKept /\ TagsInvertTables
  /\ chosen = Scarce => Few!WordsKept /\ Few!TagsInvertTables

\* search_lru, search_lfu, search_mfu, and the queue of frames: a victim is a frame
\* in use, and memory_ffl_size goes on being the number of free frames.
FramesCounted ==
  chosen \in (Policies \ {RANDOM}) \cup {Scarce} => VictimInUse /\ FreeFramesCounted

\* Under LRU the victim is a least recently used page (search_lru).
RecentlyUsedStay == [][chosen = LRU => LeastRecentEvicted]_vars

\* A TLB shared by two processes names frames of its pages, if nothing is swapped.
TlbShared == chosen = Shared => Cached!TlbAgrees
=============================================================================
