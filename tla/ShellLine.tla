----------------------------- MODULE ShellLine -----------------------------
(***************************************************************************)
(* What the two modes of src/hw1-shell, sish_loop and sish_file_mode, have *)
(* in common: a line is the sequence of its words, of which one may be the *)
(* bar of a pipe.                                                          *)
(***************************************************************************)
EXTENDS Integers, Sequences, FiniteSetsExt

CONSTANTS BAR, CD   \* the words "|" and "cd"

\* pipe_index: the last bar that something follows, or none.
PipeAt(arr) ==
  LET bars == {i \in DOMAIN arr : arr[i] = BAR /\ i < Len(arr)}
  IN  IF bars = {} THEN 0 ELSE Max(bars)

IsPipe(arr) == PipeAt(arr) # 0
=============================================================================
