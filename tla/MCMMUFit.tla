------------------------------ MODULE MCMMUFit ------------------------------
(***************************************************************************)
(* Instances of MMU for TLC with frames enough for every page, so that     *)
(* nothing is swapped: two processes of two tables of two pages.  alone    *)
(* tells at the beginning of a behaviour whether they both run without TLB *)
(* or one of them runs with the TLB, in which two pages share an entry.    *)
(***************************************************************************)
EXTENDS MMU

VARIABLE alone

Cached == INSTANCE MMU WITH UseTlb <- TRUE

MCInit == alone \in BOOLEAN /\ Init

MCBoth == ~alone /\ Next /\ UNCHANGED alone
MCAlone == alone /\ Cached!Next /\ idx' = 0 /\ UNCHANGED alone

MCNext == MCBoth \/ MCAlone

MCSpec == MCInit /\ [][MCNext]_<<vars, alone>>
=============================================================================
